------------------------- MODULE LinkCounts_proofs -------------------------
(***************************************************************************)
(* What pass2 counts of a dinode is the number of links there are to it,   *)
(* and stays so through everything pass3 and pass4 remove, give a new ".." *)
(* or put in lost+found.  The invariant speaks of a file system, records   *)
(* and a set of entries come to, as parameters, so that an operation can   *)
(* be taken as several changes, one after the other.  Before that, that each*)
(* step of the climb of pass3 from a directory to its parent comes to one  *)
(* that was not marked, so that no cycle of parents keeps it; after it,    *)
(* that each directory pass3 has come to is held by its parent alone, and  *)
(* that the counts in the dinodes come out right.                          *)
(***************************************************************************)
EXTENDS DirLinks, FiniteSetTheorems, WellFoundedInduction, TLAPS

-----------------------------------------------------------------------------
(* The trees are in the order of the addresses.                            *)
LEMMA HasLeast == ASSUME NEW S, S \subseteq Nat, S # {} PROVE \E x \in S : \A y \in S : x <= y
<1> DEFINE R == {ss \in Nat \X Nat : ss[1] < ss[2]}
<1>1. IsWellFoundedOn(R, Nat)
  BY NatLessThanWellFounded, Zenon DEF OpToRel
<1>2. PICK x \in S : \A y \in S : ~(<<y, x>> \in R)
  BY <1>1, WFMin
<1>3. ASSUME NEW y \in S PROVE x <= y
  <2>1. x \in Nat /\ y \in Nat
    OBVIOUS
  <2>2. <<y, x>> \in Nat \X Nat /\ <<y, x>>[1] = y /\ <<y, x>>[2] = x
    BY <2>1
  <2>3. ~(<<y, x>>[1] < <<y, x>>[2])
    BY <1>2, <2>2, Zenon
  <2>4. QED
    BY <2>1, <2>2, <2>3
<1>4. QED
  BY <1>3

LEMMA MinIsIn == ASSUME NEW S, S \subseteq Addrs, S # {} PROVE Min(S) \in S
<1>1. Addrs \subseteq Nat
  BY DirLinksAssumption DEF Addrs
<1>2. QED
  BY <1>1, HasLeast DEF Min

(* What follows in a tree is another dinode, or nothing.                   *)
LEMMA NextMoves ==
  ASSUME NEW tree, tree \subseteq Addrs, NEW a \in Addrs \union {None}
  PROVE  NextOf(tree, a) \in Addrs \union {None} /\ (a # None => NextOf(tree, a) # a)
<1>1. Addrs \subseteq Int /\ None = 0
  BY DirLinksAssumption DEF Addrs, None
<1>2. Following(tree, a) \subseteq Addrs /\ \A b \in Following(tree, a) : b > a
  BY <1>1 DEF Following
<1>3. a \in Int /\ \A b \in Following(tree, a) : b # a
  BY <1>1, <1>2
<1>4. QED
  BY <1>2, <1>3, MinIsIn DEF NextOf

-----------------------------------------------------------------------------
(* What is kept of dinodes are addresses.                                  *)
FsFields == {"mode", "ents", "nlink", "empty"}
LinkFields == {"dirtree", "inodetree", "nlink1map", "clink1map", "outdated", "di_nlink", "counted_links"}

GoodEnts(e) == \A n \in DOMAIN e : e[n].to \in Addrs
GoodFs(f) == DOMAIN f = FsFields /\ DOMAIN f.ents = Addrs /\ \A a \in Addrs : GoodEnts(f.ents[a])
GoodLinks(l) ==
    /\ DOMAIN l = LinkFields
    /\ l.dirtree \subseteq Addrs /\ l.inodetree \subseteq Addrs /\ l.nlink1map \subseteq Addrs

IInv ==
    /\ GoodFs(fs) /\ GoodLinks(links)
    /\ DOMAIN treewalk_parent = Addrs /\ \A a \in Addrs : treewalk_parent[a] \in Addrs \union {None}
    /\ lf_dip \in Addrs \union {None} /\ at \in Addrs \union {None}
    /\ pc = "pass3" /\ at # None => di \in Addrs

(* The operations on entries and records keep it so.                       *)
LEMMA IncrGood ==
  ASSUME NEW l, GoodLinks(l), NEW i \in Addrs PROVE GoodLinks(IncrLinkCount(l, i))
<1>1. GoodLinks(MovedToInodetree(l, i))
  BY DEF GoodLinks, LinkFields, MovedToInodetree
<1>2. GoodLinks([l EXCEPT !.counted_links[i] = @ + 1]) /\ GoodLinks([l EXCEPT !.clink1map = @ \union {i}])
  BY DEF GoodLinks, LinkFields
<1>3. QED
  BY <1>1, <1>2 DEF IncrLinkCount

LEMMA DecrGood ==
  ASSUME NEW l, GoodLinks(l), NEW i PROVE GoodLinks(DecrLinkCount(l, i))
  BY DEF GoodLinks, DecrLinkCount, LinkFields

LEMMA AddedGood ==
  ASSUME NEW e, GoodEnts(e), NEW n, NEW i \in Addrs PROVE GoodEnts(Added(e, n, i))
  BY DEF GoodEnts, Added, Entry

LEMMA WithGood ==
  ASSUME NEW f, GoodFs(f), NEW d, NEW n, NEW i \in Addrs PROVE GoodFs(With(f, d, n, i))
<1>1. DOMAIN With(f, d, n, i) = FsFields
  BY DEF With, GoodFs
<1>2. With(f, d, n, i).ents = [f.ents EXCEPT ![d] = Added(@, n, i)]
  BY DEF With, GoodFs, FsFields
<1>3. QED
  BY <1>1, <1>2, AddedGood DEF GoodFs

LEMMA WithoutGood ==
  ASSUME GoodFs(fs), NEW d, NEW n PROVE GoodFs(Without(d, n))
<1>1. DOMAIN Without(d, n) = FsFields
  BY DEF Without, GoodFs
<1>2. Without(d, n).ents = [fs.ents EXCEPT ![d] = Restrict(@, DOMAIN @ \ {n})]
  BY DEF Without, GoodFs, FsFields
<1>3. QED
  BY <1>1, <1>2 DEF GoodFs, GoodEnts, Restrict

LEMMA ModeGood == ASSUME GoodFs(fs), NEW a PROVE GoodFs([fs EXCEPT !.mode[a] = "free"])
  BY DEF GoodFs, FsFields

LEMMA NlinkGood == ASSUME NEW f, GoodFs(f), NEW a, NEW k PROVE GoodFs([f EXCEPT !.nlink[a] = k])
  BY DEF GoodFs, FsFields

-----------------------------------------------------------------------------
(* lost+found                                                              *)
LEMMA RootIsAddr == Root \in Addrs /\ None \notin Addrs
  BY DirLinksAssumption DEF Root, Addrs, None

LEMMA LfIsAddr == ASSUME IInv, LfPossible PROVE Lf \in Addrs
<1>1. CASE lf_dip # None
  BY <1>1 DEF IInv, Lf
<1>2. CASE LfMissing
  <2>1. FreeAddrs \subseteq Addrs /\ FreeAddrs # {}
    BY <1>2 DEF LfPossible, FreeAddrs
  <2>2. QED
    BY <1>2, <2>1, MinIsIn DEF Lf, LowestFree, LfMissing
<1>3. CASE lf_dip = None /\ ~LfMissing
  BY <1>3, RootIsAddr DEF IInv, Lf, LfMissing, GoodFs, GoodEnts
<1>4. QED
  BY <1>1, <1>2, <1>3

LEMMA FsWithLfGood == ASSUME IInv, LfPossible PROVE GoodFs(FsWithLf)
<1> DEFINE base == With(fs, Root, LostFound, Lf)
<1>1. GoodFs(base) /\ Lf \in Addrs
  BY LfIsAddr, WithGood DEF IInv
<1> DEFINE own == [n \in {Dot, DotDot} |-> Entry(IF n = Dot THEN Lf ELSE Root)]
<1>2. GoodEnts(own)
  BY <1>1, RootIsAddr DEF GoodEnts, Entry
<1> HIDE DEF base, own
<1> DEFINE made == [base EXCEPT !.mode[Lf] = "dir", !.ents[Lf] = own,
                                !.nlink[Lf] = 2, !.nlink[Root] = @ + 1, !.empty = @ \ {Lf}]
<1>3. DOMAIN made = FsFields /\ made.ents = [base.ents EXCEPT ![Lf] = own]
  BY <1>1 DEF GoodFs, FsFields
<1>4. GoodFs(made)
  BY <1>1, <1>2, <1>3 DEF GoodFs
<1>5. FsWithLf = fs \/ FsWithLf = made
  BY DEF FsWithLf, base, own
<1>6. QED
  BY <1>4, <1>5 DEF IInv

LEMMA LinksWithLfGood == ASSUME IInv, LfPossible PROVE GoodLinks(LinksWithLf)
<1> DEFINE synced == [links EXCEPT !.di_nlink[Root] = FsWithLf.nlink[Root]]
           inserted == IF Lf \in links.dirtree
                       THEN [synced EXCEPT !.outdated = @ \union {Lf}]
                       ELSE [synced EXCEPT !.dirtree = @ \union {Lf}, !.di_nlink[Lf] = 0,
                                           !.counted_links[Lf] = 0]
<1>1. Lf \in Addrs /\ Root \in Addrs
  BY LfIsAddr, RootIsAddr
<1>2. GoodLinks(synced)
  BY DEF IInv, GoodLinks, LinkFields
<1>3. GoodLinks(inserted)
  <2> HIDE DEF synced
  <2>1. QED
    BY <1>1, <1>2 DEF GoodLinks, LinkFields
<1> HIDE DEF synced, inserted
<1>4. GoodLinks(IncrLinkCount(IncrLinkCount(IncrLinkCount(inserted, Lf), Lf), Root))
  BY <1>1, <1>3, IncrGood
<1>5. LinksWithLf \in {links, synced, IncrLinkCount(IncrLinkCount(IncrLinkCount(inserted, Lf), Lf), Root)}
  BY DEF LinksWithLf, synced, inserted
<1>6. QED
  BY <1>2, <1>4, <1>5 DEF IInv

LEMMA FsAddedGood == ASSUME IInv, LfPossible, NEW i \in Addrs PROVE GoodFs(FsAdded(i))
<1> DEFINE f == With(FsWithLf, Lf, LostName(i), i)
           less == [f EXCEPT !.nlink[OldParent(i)] = @ - 1]
<1>1. Lf \in Addrs /\ GoodFs(FsWithLf)
  BY LfIsAddr, FsWithLfGood
<1>2. GoodFs(f)
  BY <1>1, WithGood
<1> HIDE DEF f
<1>3. GoodFs(less)
  BY <1>2 DEF GoodFs, FsFields
<1> HIDE DEF less
<1>4. GoodFs(With(less, i, DotDot, Lf)) /\ GoodFs(With(f, i, DotDot, Lf))
  BY <1>1, <1>2, <1>3, WithGood
<1>5. FsAttached(i) \in {f, With(f, i, DotDot, Lf), With(less, i, DotDot, Lf)}
  BY DEF FsAttached, f, less
<1>6. QED
  BY <1>1, <1>2, <1>4, <1>5 DEF FsAdded

LEMMA LinksAddedGood == ASSUME IInv, LfPossible, NEW i \in Addrs PROVE GoodLinks(LinksAdded(i))
<1> DEFINE undone == IF UndoesDotDot(i) THEN DecrLinkCount(LinksWithLf, OldParent(i)) ELSE LinksWithLf
           synced == IF DotDotUndone(i)
                     THEN [undone EXCEPT !.di_nlink[OldParent(i)] = FsWithLf.nlink[OldParent(i)] - 1]
                     ELSE undone
<1>1. Lf \in Addrs /\ GoodLinks(LinksWithLf)
  BY LfIsAddr, LinksWithLfGood
<1>2. GoodLinks(undone)
  BY <1>1, DecrGood
<1> HIDE DEF undone
<1>3. GoodLinks(synced)
  BY <1>2 DEF GoodLinks, LinkFields
<1> HIDE DEF synced
<1>4. GoodLinks(IncrLinkCount(IncrLinkCount(synced, i), Lf)) /\ GoodLinks(IncrLinkCount(LinksWithLf, i))
  BY <1>1, <1>3, IncrGood
<1>5. LinksAttached(i) \in {IncrLinkCount(IncrLinkCount(synced, i), Lf), IncrLinkCount(LinksWithLf, i)}
  BY DEF LinksAttached, synced, undone
<1>6. QED
  BY <1>1, <1>4, <1>5 DEF LinksAdded

-----------------------------------------------------------------------------
(* The steps.  pass2:                                                      *)
LEMMA DentrySteps ==
  ASSUME IInv, NEW n \in Names, Dentry(n)
  PROVE  IInv'
<1> DEFINE e == fs.ents[at][n]
<1>1. InPass2(n)
  BY DEF Dentry, DentryToNoInode, DentryWrongFormal, DentryToSingle, DentryToMulti, DentryDot,
         DentryDotDot, DentryToDir
<1>2. pc = "pass2" /\ UNCHANGED <<lf_dip, at, pc>> /\ at \in Addrs
  BY <1>1 DEF InPass2, IInv
<1>3. e.to \in Addrs
  BY <1>1, <1>2 DEF InPass2, Later, IInv, GoodFs, GoodEnts
<1>4. /\ fs' \in {fs, Without(at, n)} /\ links' \in {links, IncrLinkCount(links, e.to)}
      /\ treewalk_parent' \in {treewalk_parent, [treewalk_parent EXCEPT ![e.to] = at]}
  BY DEF Dentry, DentryToNoInode, DentryWrongFormal, DentryToSingle, DentryToMulti, DentryDot,
         DentryDotDot, DentryToDir, Nuke, Count, Leave
<1>5. GoodFs(fs') /\ GoodLinks(links')
  BY <1>3, <1>4, WithoutGood, IncrGood DEF IInv
<1>6. QED
  BY <1>2, <1>4, <1>5 DEF IInv, GoodFs, GoodLinks, GoodEnts

LEMMA EndOfDirStep == ASSUME IInv, EndOfDir PROVE IInv'
<1>1. pc = "pass2" /\ at \in Addrs /\ UNCHANGED <<treewalk_parent, lf_dip, pc>>
  BY DEF EndOfDir, IInv, dirinfo
<1>2. fs' \in {fs, With(fs, at, Dot, at)} /\ links' \in {links, IncrLinkCount(links, at)}
  BY DEF EndOfDir
<1>3. GoodFs(fs') /\ GoodLinks(links')
  BY <1>1, <1>2, WithGood, IncrGood DEF IInv
<1>4. at' \in Addrs \union {None}
  BY <1>1, NextMoves DEF EndOfDir, IInv, GoodLinks
<1>5. QED
  BY <1>1, <1>3, <1>4 DEF IInv, GoodFs, GoodLinks, GoodEnts

(* pass3.  Its steps stay at the dinode and climb, or go on to the next.   *)
Climbs == at' = at /\ di \notin checked /\ di \in checked' /\ di' \in Addrs
GoesOn == at' # at /\ at' \in Addrs \union {None} /\ di' = at'

LEMMA NextDirGoesOn == ASSUME IInv, at # None, NextDir PROVE GoesOn
  BY NextMoves DEF IInv, GoodLinks, NextDir, GoesOn

LEMMA Pass3Steps == ASSUME IInv, Pass3 PROVE IInv' /\ (Climbs \/ GoesOn)
<1>1. InPass3
  BY DEF Pass3, Connected3, ParentsAgree3, AttachDotDot, RemoveUnlinked, AttachUnlinked, Mark
<1>2. pc = "pass3" /\ pc' = pc /\ at \in Addrs /\ di \in Addrs /\ treewalk_parent' = treewalk_parent
  BY <1>1 DEF InPass3, IInv
<1>3. Treewalk \in Addrs \union {None}
  BY <1>2 DEF IInv, Treewalk
<1>4. CASE Connected3
  <2>1. GoesOn
    BY <1>1, <1>4, NextDirGoesOn DEF Connected3, InPass3
  <2>2. QED
    BY <1>2, <1>4, <2>1 DEF Connected3, GoesOn, IInv, GoodFs, GoodLinks, GoodEnts
<1>5. CASE ParentsAgree3
  <2>1. Climbs
    BY <1>3, <1>5 DEF ParentsAgree3, Mark, HasParent, Climbs
  <2>2. QED
    BY <1>2, <1>5, <2>1 DEF ParentsAgree3, Climbs, IInv, GoodFs, GoodLinks, GoodEnts
<1>6. CASE AttachDotDot
  <2>1. Climbs /\ Treewalk \in Addrs
    BY <1>3, <1>6 DEF AttachDotDot, Mark, HasParent, Climbs
  <2>2. GoodFs(fs') /\ GoodLinks(links')
    BY <1>6, <2>1, WithGood, IncrGood, DecrGood DEF AttachDotDot, IInv
  <2>3. QED
    BY <1>2, <1>6, <2>1, <2>2 DEF AttachDotDot, Climbs, IInv, GoodFs, GoodLinks, GoodEnts
<1>7. CASE RemoveUnlinked
  <2>1. GoesOn
    BY <1>1, <1>7, NextDirGoesOn DEF RemoveUnlinked, InPass3
  <2>2. GoodFs(fs')
    BY <1>7, ModeGood DEF RemoveUnlinked, IInv
  <2>3. QED
    BY <1>2, <1>7, <2>1, <2>2 DEF RemoveUnlinked, GoesOn, IInv, GoodFs, GoodLinks, GoodEnts
<1>8. CASE AttachUnlinked
  <2>1. GoesOn
    BY <1>1, <1>8, NextDirGoesOn DEF AttachUnlinked, InPass3
  <2>2. \/ UNCHANGED <<fs, links, lf_dip>>
        \/ LfPossible /\ fs' = FsAdded(di) /\ links' = LinksAdded(di) /\ lf_dip' = Lf
    BY <1>8 DEF AttachUnlinked
  <2>3. GoodFs(fs') /\ GoodLinks(links') /\ lf_dip' \in Addrs \union {None}
    BY <1>2, <2>2, FsAddedGood, LinksAddedGood, LfIsAddr DEF IInv
  <2>4. QED
    BY <1>2, <2>1, <2>3 DEF GoesOn, IInv, GoodFs, GoodLinks, GoodEnts
<1>9. QED
  BY <1>4, <1>5, <1>6, <1>7, <1>8 DEF Pass3

(* pass4                                                                   *)
LEMMA Pass4Steps == ASSUME IInv, Pass4 PROVE IInv'
<1>1. InPass4At
  BY DEF Pass4, LinkCountRight, HandleInconsist, UnlinkedIsFree, ClearUnlinked, RelinkUnlinked
<1>2. /\ pc' = pc /\ pc # "pass3" /\ at \in Addrs /\ treewalk_parent' = treewalk_parent
      /\ at' = NextOf(ListOf(pc), at)
  BY <1>1 DEF InPass4At, InPass4, IInv
<1>3. ListOf(pc) \subseteq Addrs
  BY <1>1 DEF InPass4At, InPass4, ListOf, IInv, GoodLinks
<1>4. at' \in Addrs \union {None}
  BY <1>2, <1>3, NextMoves
<1>5. CASE RelinkUnlinked
  <2> DEFINE set == [FsAdded(at) EXCEPT !.nlink[at] = CountOf(LinksAdded(at))]
  <2>1. \/ UNCHANGED <<fs, links, lf_dip>>
        \/ LfPossible /\ fs' = set /\ links' = LinksAdded(at) /\ lf_dip' = Lf
    BY <1>5 DEF RelinkUnlinked
  <2>2. LfPossible => GoodFs(set) /\ GoodLinks(LinksAdded(at)) /\ Lf \in Addrs
    BY <1>2, FsAddedGood, LinksAddedGood, LfIsAddr, NlinkGood
  <2> HIDE DEF set
  <2>3. GoodFs(fs') /\ GoodLinks(links') /\ lf_dip' \in Addrs \union {None}
    BY <2>1, <2>2 DEF IInv
  <2>4. QED
    BY <1>2, <1>4, <2>3 DEF IInv, GoodFs, GoodLinks, GoodEnts
<1>6. CASE HandleInconsist
  <2>1. \/ UNCHANGED <<fs, links>>
        \/ /\ fs' = [fs EXCEPT !.nlink[at] = links.counted_links[at]]
           /\ links' = [links EXCEPT !.di_nlink[at] = links.counted_links[at]]
    BY <1>6 DEF HandleInconsist
  <2>2. GoodFs(fs') /\ GoodLinks(links') /\ lf_dip' = lf_dip
    BY <1>6, <2>1, NlinkGood DEF HandleInconsist, IInv, GoodLinks, LinkFields
  <2>3. QED
    BY <1>2, <1>4, <2>2 DEF IInv, GoodFs, GoodLinks, GoodEnts
<1>7. CASE LinkCountRight \/ UnlinkedIsFree
  BY <1>2, <1>4, <1>7 DEF LinkCountRight, UnlinkedIsFree, IInv, GoodFs, GoodLinks, GoodEnts
<1>8. CASE ClearUnlinked
  <2>1. GoodFs(fs')
    BY <1>8, ModeGood DEF ClearUnlinked, IInv
  <2>2. QED
    BY <1>2, <1>4, <1>8, <2>1 DEF ClearUnlinked, IInv, GoodFs, GoodLinks, GoodEnts
<1>9. QED
  BY <1>5, <1>6, <1>7, <1>8 DEF Pass4

(* From one pass to the next.                                              *)
LEMMA StartGood ==
  ASSUME IInv, NEW p, Start(p)
  PROVE  pc' = p /\ at' \in Addrs \union {None} /\ (p = "pass3" => di' = at')
<1>1. ListOf(p) \subseteq Addrs
  BY DEF ListOf, IInv, GoodLinks
<1>2. QED
  BY <1>1, NextMoves DEF Start, FirstOf, None

LEMMA BetweenPasses ==
  ASSUME IInv, LeavePass \/ EndPass \/ ExitWithoutLf
  PROVE  IInv' /\ (pc = "pass3" => pc' # "pass3")
<1>1. UNCHANGED <<links, treewalk_parent, lf_dip>>
  BY DEF LeavePass, EndPass, ExitWithoutLf, dirinfo
<1>2. fs' \in {fs, [fs EXCEPT !.nlink[lf_dip] = links.counted_links[lf_dip]]}
  BY DEF LeavePass, EndPass, ExitWithoutLf, AdjustedLf
<1>3. GoodFs(fs')
  BY <1>2, NlinkGood DEF IInv
<1>4. PICK p : Start(p) /\ (pc = "pass3" => p # "pass3")
  BY DEF LeavePass, EndPass, ExitWithoutLf, AfterThis, InPass4
<1>5. pc' = p /\ at' \in Addrs \union {None} /\ (p = "pass3" => di' = at')
  BY <1>4, StartGood
<1>6. QED
  BY <1>1, <1>3, <1>4, <1>5 DEF IInv, GoodFs, GoodLinks, GoodEnts

LEMMA Quiet ==
  ASSUME IInv, UNCHANGED <<fs, links, treewalk_parent, lf_dip, pc, at, di>>
  PROVE  IInv'
  BY DEF IInv, GoodFs, GoodLinks, GoodEnts

Advances == pc = "pass3" /\ pc' = "pass3" /\ at' = at /\ di' # di => di \notin checked /\ di \in checked'

LEMMA NextGood == IInv /\ [Next]_vars => IInv' /\ Advances
<1> SUFFICES ASSUME IInv, [Next]_vars PROVE IInv' /\ Advances
  OBVIOUS
<1>1. CASE Pass2
  <2>1. pc = "pass2"
    BY <1>1 DEF Pass2, Dentry, DentryToNoInode, DentryWrongFormal, DentryToSingle, DentryToMulti,
                DentryDot, DentryDotDot, DentryToDir, InPass2, EndOfDir
  <2>2. QED
    BY <1>1, <2>1, DentrySteps, EndOfDirStep DEF Pass2, Advances
<1>2. CASE Pass3
  BY <1>2, Pass3Steps DEF Climbs, GoesOn, Advances
<1>3. CASE Pass4
  <2>1. pc # "pass3"
    BY <1>3 DEF Pass4, LinkCountRight, HandleInconsist, UnlinkedIsFree, ClearUnlinked,
                RelinkUnlinked, InPass4At, InPass4
  <2>2. QED
    BY <1>3, <2>1, Pass4Steps DEF Advances
<1>4. CASE LeavePass \/ EndPass \/ ExitWithoutLf
  BY <1>4, BetweenPasses DEF Advances
<1>5. CASE (\E choice \in {"skip", "abort"} : Interrupt(choice)) \/ UNCHANGED vars
  <2>1. UNCHANGED <<fs, links, treewalk_parent, lf_dip, pc, at, di>>
    BY <1>5 DEF Interrupt, vars, dirinfo
  <2>2. QED
    BY <2>1, Quiet DEF Advances
<1>6. QED
  BY <1>1, <1>2, <1>3, <1>4, <1>5 DEF Next, Fsck

LEMMA InitGood == Init => IInv
<1> SUFFICES ASSUME Init PROVE IInv
  OBVIOUS
<1>1. GoodImage(fs)
  BY DirLinksAssumption DEF Init
<1>2. GoodFs(fs)
  BY <1>1 DEF GoodImage, GoodFs, GoodEnts, EntryType, FsFields
<1>3. GoodLinks(links)
  BY DEF Init, NewLinks, GoodLinks, LinkFields
<1>4. QED
  BY <1>2, <1>3, RootIsAddr DEF Init, IInv

-----------------------------------------------------------------------------
(* Going up, pass3 comes from a directory that was not checked and leaves  *)
(* it checked: it climbs at most once from each, whatever the parents are  *)
(* and however many directories there are.                                 *)
THEOREM ClimbAdvances == Spec => WalkAdvances
<1>1. IInv /\ [Next]_vars => [Advances]_vars
  BY NextGood
<1>2. Spec => []IInv
  BY InitGood, NextGood, PTL DEF Spec
<1>3. WalkAdvances <=> [][Advances]_vars
  BY PTL DEF WalkAdvances, Advances
<1>4. QED
  BY <1>1, <1>2, <1>3, PTL DEF Spec

-----------------------------------------------------------------------------
(* What is counted.  Of a file system f, and the entries S pass2 has come  *)
(* to, the links to dinode i.                                              *)
Dots == {Dot, DotDot}
Pairs == Addrs \X Names
Points(f, d, n, i) == f.mode[d] = "dir" /\ n \in DOMAIN f.ents[d] /\ f.ents[d][n].to = i
Linking(f, S, i) == { p \in S : Points(f, p[1], p[2], i) }

(* All entries once pass2 is over.                                         *)
Seen(d, n) == pc # "pass2" \/ at = None \/ d < at \/ (d = at /\ n <= name)
Visible == { p \in Pairs : Seen(p[1], p[2]) }

(* Directories pass3 has still to come to.                                 *)
Open == IF pc \in {"pass2", "pass3"} THEN Addrs \ checked ELSE {}

(* A dinode of which a no has left the count wrong, the entry going to     *)
(* something that was no directory when it was asked about.                *)
Ghost(f, tw, lf, D, i) == i \in D /\ (f.mode[i] # "dir" \/ (i = lf /\ tw[i] = None))
Trusted(f, l, tw, lf, D, i) == f.mode[i] # "free" /\ i \notin l.outdated /\ ~Ghost(f, tw, lf, D, i)
InLf(f, lf, d) == lf # None /\ LostName(d) \in DOMAIN f.ents[lf]

GoodNames(f) ==
    /\ f.mode \in [Addrs -> Modes] /\ f.mode[Root] # "file" /\ f.empty \subseteq Addrs
    /\ \A a \in Addrs : \A n \in DOMAIN f.ents[a] :
          /\ n \in Names
          /\ n = Dot => f.ents[a][n].to = a
          /\ \A i \in Addrs : n = LostName(i) => f.ents[a][n].to = i

GoodCounts(l) ==
    /\ l.counted_links \in [Addrs -> Nat] /\ l.clink1map \subseteq Addrs
    /\ \A i \in Addrs : i \in l.nlink1map => i \notin l.inodetree

(* Which record a dinode has.                                              *)
Records(f, l, tw, lf, O) ==
    /\ Root \in l.dirtree /\ l.outdated \subseteq {lf} /\ None \notin l.outdated
    /\ \A i \in Addrs :
        /\ f.mode[i] = "dir" => i \in l.dirtree
        /\ f.mode[i] = "file" => i \notin l.dirtree /\ (i \in l.inodetree \/ i \in l.nlink1map)
        /\ i \in O /\ i \in l.dirtree => f.mode[i] = "dir"
        /\ (i \in l.inodetree \/ i \in l.nlink1map) /\ f.mode[i] = "dir" => i = lf /\ tw[i] = None

Counts(f, l, tw, lf, S, D) == \A i \in Addrs :
    Trusted(f, l, tw, lf, D, i) => Counted(l, i) = Cardinality(Linking(f, S, i))

FreeUnlinked(f, l, S, D) == \A i \in Addrs :
    f.mode[i] = "free" /\ i \notin D /\ i \notin l.dirtree => Linking(f, S, i) = {}

(* What was noted of ".." is where it goes, until the directory is put in  *)
(* lost+found.                                                             *)
DotDots(f, l, tw, dd, lf, S, O, D) == DOMAIN dd = Addrs /\ \A d \in Addrs :
    /\ dd[d] \in l.dirtree \cup {None}
    /\ <<d, DotDot>> \notin S => dd[d] = None
    /\ f.mode[d] = "dir" /\ d # lf /\ <<d, DotDot>> \in S /\ (InLf(f, lf, d) => d \in O) =>
        /\ dd[d] # None => Points(f, d, DotDot, dd[d])
        /\ dd[d] = None /\ DotDot \in DOMAIN f.ents[d] => Ghost(f, tw, lf, D, f.ents[d][DotDot].to)

(* A directory that was reached still is, from where it was.               *)
Reached(f, tw, S, O) == \A a \in Addrs :
    /\ tw[a] \in Addrs \cup {None}
    /\ tw[a] # None => f.mode[a] = "dir" /\ \E n \in Names \ Dots : <<tw[a], n>> \in Linking(f, S, a)
    /\ a \in O /\ f.mode[a] = "dir" /\ tw[a] = None => \A p \in Linking(f, S, a) : p[2] \in Dots

LostAndFound(f, l, tw, lf, S, O) ==
    /\ lf # None =>
        /\ lf \in Addrs /\ f.mode[lf] = "dir" /\ lf \notin O
        /\ lf \in l.outdated => tw[lf] = None
        /\ tw[lf] = None => lf \notin f.empty /\ <<lf, DotDot>> \in Linking(f, S, Root)
    /\ lf = None /\ LostFound \in DOMAIN f.ents[Root] =>
        /\ f.mode[f.ents[Root][LostFound].to] = "dir"
        /\ <<Root, LostFound>> \in S => tw[f.ents[Root][LostFound].to] # None

(* Nothing is lost with what is of zero size.                              *)
NothingLost(f, tw, lf) == \A d \in f.empty :
    f.mode[d] = "dir" =>
        \/ DOMAIN f.ents[d] \subseteq {Dot} \/ tw[d] # None \/ InLf(f, lf, d)
        \/ d = Root /\ lf # None /\ tw[lf] = None

Whole(f, l, tw, dd, lf, S, O, D) ==
    /\ GoodFs(f) /\ GoodLinks(l) /\ GoodNames(f) /\ GoodCounts(l)
    /\ Records(f, l, tw, lf, O) /\ Counts(f, l, tw, lf, S, D) /\ FreeUnlinked(f, l, S, D)
    /\ DotDots(f, l, tw, dd, lf, S, O, D) /\ Reached(f, tw, S, O)
    /\ LostAndFound(f, l, tw, lf, S, O) /\ NothingLost(f, tw, lf)

(* pass2 clears nothing.                                                   *)
BeforePass3 == pc = "pass2" =>
    /\ lf_dip = None /\ checked = {} /\ name \in Names \cup {0}
    /\ \A i \in Addrs :
        /\ i \in links.nlink1map => fs.mode[i] = "file"
        /\ i \in links.inodetree => fs.mode[i] = "file" \/ i \in declined
        /\ DotDot \in DOMAIN fs.ents[i] => fs.mode[fs.ents[i][DotDot].to] # "file"

AtRecord ==
    /\ pc \in Passes
    /\ pc \in {"pass2", "pass3", "pass4_dirs"} /\ at # None => at \in links.dirtree
    /\ pc = "pass3" /\ at # None => di \in links.dirtree
    /\ pc = "pass4_inodes" /\ at # None => at \in links.inodetree
    /\ pc = "pass4_nlink1" /\ at # None => at \in links.nlink1map

LinksKept ==
    /\ Whole(fs, links, treewalk_parent, dotdot_parent, lf_dip, Visible, Open, declined)
    /\ BeforePass3 /\ AtRecord
LinksInv == "pass2" \notin cut => LinksKept

-----------------------------------------------------------------------------
(* The links to a dinode are finitely many.                                *)
LEMMA PairsFinite == IsFiniteSet(Pairs)
<1>1. NAddrs \in Nat
  BY DirLinksAssumption
<1>2. Names \subseteq 0 .. 15 + NAddrs
  BY <1>1 DEF Names, Dot, DotDot, LostFound, Plain, LostName, Addrs
<1>3. IsFiniteSet(0 .. 15 + NAddrs) /\ IsFiniteSet(Addrs)
  BY <1>1, FS_Interval DEF Addrs
<1>4. IsFiniteSet(Names)
  BY <1>2, <1>3, FS_Subset
<1>5. QED
  BY <1>3, <1>4, FS_Product DEF Pairs

LEMMA LinkingFinite ==
  ASSUME NEW f, NEW S, S \subseteq Pairs, NEW i
  PROVE  IsFiniteSet(Linking(f, S, i)) /\ Cardinality(Linking(f, S, i)) \in Nat
<1>1. Linking(f, S, i) \subseteq Pairs
  BY DEF Linking
<1>2. IsFiniteSet(Linking(f, S, i))
  BY <1>1, PairsFinite, FS_Subset
<1>3. QED
  BY <1>2, FS_CardinalityType

LEMMA LinkingIs ==
  ASSUME NEW f, NEW S, NEW i, NEW d, NEW n
  PROVE  <<d, n>> \in Linking(f, S, i) <=> <<d, n>> \in S /\ Points(f, d, n, i)
  BY DEF Linking

LEMMA PairIs ==
  ASSUME NEW S, S \subseteq Pairs, NEW p \in S
  PROVE  p[1] \in Addrs /\ p[2] \in Names /\ p = <<p[1], p[2]>>
  BY DEF Pairs

(* The numbers that stand for names are apart.                             *)
LEMMA NamesApart ==
  /\ Dot \in Names /\ DotDot \in Names /\ LostFound \in Names /\ 0 \notin Names
  /\ Dot # DotDot /\ Dot # LostFound /\ DotDot # LostFound
  /\ \A i \in Addrs : /\ LostName(i) \in Names /\ LostName(i) \notin Dots /\ LostName(i) # LostFound
                      /\ \A j \in Addrs : LostName(i) = LostName(j) => i = j
<1>1. Addrs \subseteq Nat \ {0}
  BY DirLinksAssumption DEF Addrs
<1>2. QED
  BY <1>1 DEF Names, Dots, Dot, DotDot, LostFound, Plain, LostName

(* An entry that is put in a directory, new or in the place of another.    *)
Entered(f, f2, d, n, i) ==
    /\ DOMAIN f2 = FsFields /\ f2.mode = f.mode /\ f2.empty = f.empty
    /\ DOMAIN f2.ents = Addrs /\ \A a \in Addrs \ {d} : f2.ents[a] = f.ents[a]
    /\ DOMAIN f2.ents[d] = DOMAIN f.ents[d] \cup {n} /\ f2.ents[d][n].to = i
    /\ \A m \in DOMAIN f.ents[d] \ {n} : f2.ents[d][m] = f.ents[d][m]

LEMMA WithEnters ==
  ASSUME NEW f, GoodFs(f), NEW d \in Addrs, NEW n, NEW i
  PROVE  Entered(f, With(f, d, n, i), d, n, i)
<1>1. DOMAIN With(f, d, n, i) = FsFields
  BY DEF With, GoodFs
<1>2. With(f, d, n, i).ents = [f.ents EXCEPT ![d] = Added(@, n, i)]
  BY DEF With, GoodFs, FsFields
<1>3. With(f, d, n, i).mode = f.mode /\ With(f, d, n, i).empty = f.empty
  BY DEF With, GoodFs, FsFields
<1>4. QED
  BY <1>1, <1>2, <1>3 DEF GoodFs, Entered, Added, Entry

(* Only the modes, the entries and the zero sizes count: Entered does not  *)
(* speak of i_nlink.                                                       *)
LEMMA NlinkEnters ==
  ASSUME NEW f, NEW f2, NEW d, NEW n, NEW i, Entered(f, f2, d, n, i), NEW a, NEW k
  PROVE  /\ Entered(f, [f2 EXCEPT !.nlink[a] = k], d, n, i)
         /\ GoodFs(f) => Entered([f EXCEPT !.nlink[a] = k], f2, d, n, i)
  BY DEF Entered, FsFields, GoodFs

LEMMA EnteredPoints ==
  ASSUME NEW f, NEW f2, NEW d \in Addrs, NEW n, NEW i, Entered(f, f2, d, n, i), f.mode[d] = "dir",
         NEW a \in Addrs, NEW m, NEW k
  PROVE  Points(f2, a, m, k) <=> IF a = d /\ m = n THEN k = i ELSE Points(f, a, m, k)
  BY DEF Entered, Points

LEMMA EnteredLinking ==
  ASSUME NEW f, NEW f2, NEW d \in Addrs, NEW n, NEW i, Entered(f, f2, d, n, i), f.mode[d] = "dir",
         NEW S, S \subseteq Pairs, <<d, n>> \in S, NEW k
  PROVE  Linking(f2, S, k) = (Linking(f, S, k) \ {<<d, n>>}) \cup (IF k = i THEN {<<d, n>>} ELSE {})
<1>1. ASSUME NEW p \in S
      PROVE  p \in Linking(f2, S, k) <=>
                p \in (Linking(f, S, k) \ {<<d, n>>}) \cup (IF k = i THEN {<<d, n>>} ELSE {})
  <2>1. p[1] \in Addrs /\ p = <<p[1], p[2]>>
    BY PairIs
  <2>2. Points(f2, p[1], p[2], k) <=> IF p[1] = d /\ p[2] = n THEN k = i ELSE Points(f, p[1], p[2], k)
    BY <2>1, EnteredPoints
  <2>3. p = <<d, n>> <=> p[1] = d /\ p[2] = n
    BY <2>1
  <2>4. p \in Linking(f2, S, k) <=> Points(f2, p[1], p[2], k)
    BY DEF Linking
  <2>5. p \in Linking(f, S, k) <=> Points(f, p[1], p[2], k)
    BY DEF Linking
  <2>6. QED
    BY <2>2, <2>3, <2>4, <2>5
<1>2. Linking(f2, S, k) \subseteq S /\ Linking(f, S, k) \subseteq S
  BY DEF Linking
<1>3. QED
  BY <1>1, <1>2

-----------------------------------------------------------------------------
(* Entries put in: all but the counts and the ".." stays in order, when    *)
(* the name is ".", ".." or the one given in lost+found.                   *)
Enterable(f, l, tw, lf, O, d, n, i) ==
    /\ f.mode[d] = "dir" /\ (f.mode[i] = "free" => i \in l.dirtree)
    /\ (n = Dot /\ i = d) \/ (n = DotDot /\ d # lf) \/ n = LostName(i)
    /\ n = LostName(i) => i \notin O
    /\ d \in f.empty => n = Dot \/ tw[d] # None \/ (n = DotDot /\ InLf(f, lf, d))

LEMMA EnteredGood ==
  ASSUME NEW f, GoodFs(f), GoodNames(f), NEW f2, NEW d \in Addrs, NEW n \in Names, NEW i \in Addrs,
         Entered(f, f2, d, n, i), (n = Dot /\ i = d) \/ n = DotDot \/ n = LostName(i)
  PROVE  GoodFs(f2) /\ GoodNames(f2)
<1>1. \A j \in Addrs : n = LostName(j) => i = j
  BY NamesApart DEF Dots
<1>2. n = Dot => i = d
  BY NamesApart DEF Dots
<1>3. GoodFs(f2)
  BY DEF GoodFs, GoodEnts, Entered
<1>4. f2.mode \in [Addrs -> Modes] /\ f2.mode[Root] # "file" /\ f2.empty \subseteq Addrs
  BY DEF GoodNames, Entered
<1>5. ASSUME NEW a \in Addrs, NEW m \in DOMAIN f2.ents[a]
      PROVE  /\ m \in Names
             /\ m = Dot => f2.ents[a][m].to = a
             /\ \A j \in Addrs : m = LostName(j) => f2.ents[a][m].to = j
  <2>1. CASE a = d /\ m = n
    BY <1>1, <1>2, <2>1 DEF Entered
  <2>2. CASE ~(a = d /\ m = n)
    <3>1. m \in DOMAIN f.ents[a] /\ f2.ents[a][m] = f.ents[a][m]
      BY <1>5, <2>2 DEF Entered
    <3>2. QED
      BY <3>1 DEF GoodNames
  <2>3. QED
    BY <2>1, <2>2
<1>6. QED
  BY <1>3, <1>4, <1>5 DEF GoodNames

LEMMA EnteredReached ==
  ASSUME NEW f, NEW tw, NEW S, NEW O, S \subseteq Pairs, GoodNames(f), Reached(f, tw, S, O),
         NEW f2, NEW d \in Addrs, NEW n \in Names, NEW i \in Addrs, <<d, n>> \in S,
         Entered(f, f2, d, n, i), f.mode[d] = "dir",
         n \in Dots \/ n = LostName(i), n = LostName(i) => i \notin O
  PROVE  Reached(f2, tw, S, O)
<1>1. \A k : Linking(f2, S, k) = (Linking(f, S, k) \ {<<d, n>>}) \cup (IF k = i THEN {<<d, n>>} ELSE {})
  BY EnteredLinking
<1>2. f2.mode = f.mode
  BY DEF Entered
<1>3. ASSUME NEW a \in Addrs, tw[a] # None
      PROVE  \E m \in Names \ Dots : <<tw[a], m>> \in Linking(f2, S, a)
  <2>1. PICK m \in Names \ Dots : <<tw[a], m>> \in Linking(f, S, a)
    BY <1>3 DEF Reached
  <2>2. CASE <<tw[a], m>> = <<d, n>>
    <3>1. tw[a] = d /\ m = n
      BY <2>2
    <3>2. n = LostName(i)
      BY <2>1, <3>1
    <3>3. n \in DOMAIN f.ents[d] /\ f.ents[d][n].to = a
      BY <2>1, <3>1 DEF Linking, Points
    <3>4. a = i
      BY <3>2, <3>3 DEF GoodNames
    <3>5. QED
      BY <1>1, <2>1, <2>2, <3>4
  <2>3. CASE <<tw[a], m>> # <<d, n>>
    BY <1>1, <2>1, <2>3
  <2>4. QED
    BY <2>2, <2>3
<1>4. ASSUME NEW a \in Addrs, a \in O, f.mode[a] = "dir", tw[a] = None, NEW p \in Linking(f2, S, a)
      PROVE  p[2] \in Dots
  <2>1. CASE p \in Linking(f, S, a)
    BY <1>4, <2>1 DEF Reached
  <2>2. CASE p = <<d, n>> /\ a = i
    <3>1. n \in Dots
      BY <1>4, <2>2
    <3>2. QED
      BY <2>2, <3>1
  <2>3. QED
    BY <1>1, <1>4, <2>1, <2>2
<1>5. QED
  BY <1>2, <1>3, <1>4 DEF Reached

LEMMA EnteredRest ==
  ASSUME NEW f, NEW l, NEW tw, NEW lf, NEW S, NEW O, NEW D, S \subseteq Pairs,
         Root \in Addrs, GoodNames(f), Records(f, l, tw, lf, O), FreeUnlinked(f, l, S, D),
         LostAndFound(f, l, tw, lf, S, O), NothingLost(f, tw, lf),
         NEW f2, NEW d \in Addrs, NEW n \in Names, NEW i \in Addrs, <<d, n>> \in S,
         Entered(f, f2, d, n, i), Enterable(f, l, tw, lf, O, d, n, i)
  PROVE  /\ Records(f2, l, tw, lf, O) /\ FreeUnlinked(f2, l, S, D)
         /\ LostAndFound(f2, l, tw, lf, S, O) /\ NothingLost(f2, tw, lf)
<1>1. \A k : Linking(f2, S, k) = (Linking(f, S, k) \ {<<d, n>>}) \cup (IF k = i THEN {<<d, n>>} ELSE {})
  BY EnteredLinking DEF Enterable
<1>2. f2.mode = f.mode /\ f2.empty = f.empty
  BY DEF Entered
<1>3. Records(f2, l, tw, lf, O)
  BY <1>2 DEF Records
<1>4. FreeUnlinked(f2, l, S, D)
  <2>1. ASSUME NEW k \in Addrs, f2.mode[k] = "free", k \notin D, k \notin l.dirtree
        PROVE  Linking(f2, S, k) = {}
    <3>1. Linking(f, S, k) = {}
      BY <1>2, <2>1 DEF FreeUnlinked
    <3>2. k # i
      BY <1>2, <2>1 DEF Enterable
    <3>3. QED
      BY <1>1, <3>1, <3>2
  <2>2. QED
    BY <2>1 DEF FreeUnlinked
<1>5. LostAndFound(f2, l, tw, lf, S, O)
  <2>1. n # LostFound /\ <<lf, DotDot>> # <<d, n>>
    <3>1. n = LostName(i) => n # DotDot /\ n # LostFound
      BY NamesApart DEF Dots
    <3>2. QED
      BY <3>1, NamesApart DEF Enterable
  <2>2. <<lf, DotDot>> \in Linking(f, S, Root) => <<lf, DotDot>> \in Linking(f2, S, Root)
    BY <1>1, <2>1
  <2>3. /\ LostFound \in DOMAIN f2.ents[Root] => LostFound \in DOMAIN f.ents[Root]
        /\ LostFound \in DOMAIN f.ents[Root] => f2.ents[Root][LostFound] = f.ents[Root][LostFound]
    BY <2>1 DEF Entered
  <2>4. QED
    BY <1>2, <2>2, <2>3 DEF LostAndFound
<1>6. NothingLost(f2, tw, lf)
  <2>1. ASSUME NEW e \in f.empty, f.mode[e] = "dir"
        PROVE  \/ DOMAIN f2.ents[e] \subseteq {Dot} \/ tw[e] # None \/ InLf(f2, lf, e)
               \/ e = Root /\ lf # None /\ tw[lf] = None
    <3>1. e \in Addrs
      BY DEF GoodNames
    <3>2. InLf(f, lf, e) => InLf(f2, lf, e)
      <4>1. lf # None => lf \in Addrs
        BY DEF LostAndFound
      <4>2. QED
        BY <4>1 DEF InLf, Entered
    <3>3. e # d => f2.ents[e] = f.ents[e]
      BY <3>1 DEF Entered
    <3>4. e = d /\ n = Dot => (DOMAIN f.ents[e] \subseteq {Dot} => DOMAIN f2.ents[e] \subseteq {Dot})
      BY DEF Entered
    <3>5. e = d => n = Dot \/ tw[d] # None \/ InLf(f, lf, d)
      BY <2>1 DEF Enterable
    <3>6. QED
      BY <2>1, <3>2, <3>3, <3>4, <3>5 DEF NothingLost
  <2>2. QED
    BY <1>2, <2>1 DEF NothingLost
<1>7. QED
  BY <1>3, <1>4, <1>5, <1>6

-----------------------------------------------------------------------------
(* The records: one link more counted, or one less.                        *)
SameTrees(l, l2) == l2.dirtree = l.dirtree /\ l2.outdated = l.outdated

LEMMA IncrCounts ==
  ASSUME NEW l, GoodLinks(l), GoodCounts(l), NEW i \in Addrs
  PROVE  /\ GoodLinks(IncrLinkCount(l, i)) /\ GoodCounts(IncrLinkCount(l, i))
         /\ SameTrees(l, IncrLinkCount(l, i))
         /\ \A k \in Addrs : Counted(IncrLinkCount(l, i), k) =
                                IF k = i /\ i \notin l.outdated THEN Counted(l, k) + 1 ELSE Counted(l, k)
<1>1. GoodLinks(IncrLinkCount(l, i))
  BY IncrGood
<1>0. PICK m : m = IncrLinkCount(l, i)
  OBVIOUS
<1> DEFINE want ==
              /\ GoodCounts(m) /\ SameTrees(l, m)
              /\ \A k \in Addrs : Counted(m, k) =
                    IF k = i /\ i \notin l.outdated THEN Counted(l, k) + 1 ELSE Counted(l, k)
<1>2. ASSUME i \in l.outdated PROVE want
  <2>1. m = l
    BY <1>0, <1>2 DEF IncrLinkCount
  <2>2. QED
    BY <1>2, <2>1 DEF SameTrees
<1>3. ASSUME i \notin l.outdated /\ i \in l.dirtree \cup l.inodetree PROVE want
  <2>1. /\ SameTrees(l, m) /\ m.inodetree = l.inodetree
        /\ m.nlink1map = l.nlink1map /\ m.clink1map = l.clink1map
        /\ m.counted_links = [l.counted_links EXCEPT ![i] = @ + 1]
    BY <1>0, <1>3 DEF IncrLinkCount, GoodLinks, LinkFields, SameTrees
  <2>2. GoodCounts(m)
    BY <2>1 DEF GoodCounts
  <2>3. QED
    BY <1>3, <2>1, <2>2 DEF Counted, SameTrees, GoodCounts
<1>4. ASSUME i \notin l.outdated /\ i \notin l.dirtree \cup l.inodetree /\ i \notin l.clink1map PROVE want
  <2>1. /\ SameTrees(l, m) /\ m.inodetree = l.inodetree
        /\ m.nlink1map = l.nlink1map /\ m.clink1map = l.clink1map \cup {i}
        /\ m.counted_links = l.counted_links
    BY <1>0, <1>4 DEF IncrLinkCount, GoodLinks, LinkFields, SameTrees
  <2>2. GoodCounts(m)
    BY <2>1 DEF GoodCounts
  <2>3. QED
    BY <1>4, <2>1, <2>2 DEF Counted, SameTrees, GoodCounts
<1>5. ASSUME i \notin l.outdated /\ i \notin l.dirtree \cup l.inodetree /\ i \in l.clink1map PROVE want
  <2>0. m = MovedToInodetree(l, i)
    BY <1>0, <1>5 DEF IncrLinkCount
  <2>1. /\ SameTrees(l, m) /\ m.inodetree = l.inodetree \cup {i}
        /\ m.nlink1map = l.nlink1map \ {i} /\ m.clink1map = l.clink1map \ {i}
        /\ m.counted_links = [l.counted_links EXCEPT ![i] = 2]
    BY <2>0 DEF GoodLinks, LinkFields, SameTrees, MovedToInodetree
  <2>2. GoodCounts(m)
    BY <2>1 DEF GoodCounts
  <2>3. QED
    BY <1>5, <2>1, <2>2 DEF Counted, SameTrees, GoodCounts
<1>6. want
  BY <1>2, <1>3, <1>4, <1>5
<1>7. QED
  BY <1>0, <1>1, <1>6

LEMMA DecrCounts ==
  ASSUME NEW l, GoodLinks(l), GoodCounts(l), NEW i \in Addrs
  PROVE  /\ GoodLinks(DecrLinkCount(l, i)) /\ GoodCounts(DecrLinkCount(l, i))
         /\ SameTrees(l, DecrLinkCount(l, i))
         /\ DecrLinkCount(l, i).inodetree = l.inodetree /\ DecrLinkCount(l, i).nlink1map = l.nlink1map
         /\ \A k \in Addrs : Counted(DecrLinkCount(l, i), k) =
                                IF k = i /\ Counted(l, k) > 0 THEN Counted(l, k) - 1 ELSE Counted(l, k)
<1>1. GoodLinks(DecrLinkCount(l, i))
  BY DecrGood
<1>2. /\ GoodCounts(DecrLinkCount(l, i)) /\ SameTrees(l, DecrLinkCount(l, i))
      /\ DecrLinkCount(l, i).inodetree = l.inodetree /\ DecrLinkCount(l, i).nlink1map = l.nlink1map
  BY DEF GoodLinks, GoodCounts, SameTrees, DecrLinkCount, LinkFields
<1>3. ASSUME NEW k \in Addrs
      PROVE  Counted(DecrLinkCount(l, i), k) =
                IF k = i /\ Counted(l, k) > 0 THEN Counted(l, k) - 1 ELSE Counted(l, k)
  BY DEF GoodLinks, GoodCounts, DecrLinkCount, LinkFields, Counted
<1>4. QED
  BY <1>1, <1>2, <1>3

LEMMA SyncCounts ==
  ASSUME NEW l, GoodLinks(l), GoodCounts(l), NEW i, NEW k
  PROVE  /\ GoodLinks([l EXCEPT !.di_nlink[i] = k]) /\ GoodCounts([l EXCEPT !.di_nlink[i] = k])
         /\ SameTrees(l, [l EXCEPT !.di_nlink[i] = k])
         /\ [l EXCEPT !.di_nlink[i] = k].inodetree = l.inodetree
         /\ [l EXCEPT !.di_nlink[i] = k].nlink1map = l.nlink1map
         /\ \A j : Counted([l EXCEPT !.di_nlink[i] = k], j) = Counted(l, j)
  BY DEF GoodLinks, GoodCounts, SameTrees, LinkFields, Counted

(* What a count is said to be: a natural number.                           *)
LEMMA CountedIsNat ==
  ASSUME NEW l, GoodCounts(l), NEW i \in Addrs
  PROVE  Counted(l, i) \in Nat
  BY DEF GoodCounts, Counted

(* A directory stays in the dirtree, a file in one of the others.          *)
LEMMA IncrRecords ==
  ASSUME NEW f, NEW l, NEW tw, NEW lf, NEW O, GoodLinks(l), GoodCounts(l), Records(f, l, tw, lf, O),
         NEW i \in Addrs
  PROVE  Records(f, IncrLinkCount(l, i), tw, lf, O)
<1>1. i \notin l.dirtree => f.mode[i] # "dir"
  BY DEF Records
<1> DEFINE m == IncrLinkCount(l, i)
<1>2. /\ SameTrees(l, m)
      /\ m.inodetree \subseteq l.inodetree \cup {i} /\ m.nlink1map \subseteq l.nlink1map
      /\ l.inodetree \subseteq m.inodetree /\ l.nlink1map \subseteq m.inodetree \cup m.nlink1map
      /\ i \in l.dirtree => m.inodetree = l.inodetree
  <2>1. CASE i \in l.outdated
    BY <2>1 DEF SameTrees, IncrLinkCount
  <2>2. CASE i \notin l.outdated /\ i \in l.dirtree \cup l.inodetree
    BY <2>2 DEF GoodLinks, SameTrees, IncrLinkCount, LinkFields
  <2>3. CASE i \notin l.outdated /\ i \notin l.dirtree \cup l.inodetree /\ i \notin l.clink1map
    BY <2>3 DEF GoodLinks, SameTrees, IncrLinkCount, LinkFields
  <2>4. CASE i \notin l.outdated /\ i \notin l.dirtree \cup l.inodetree /\ i \in l.clink1map
    <3>1. m = MovedToInodetree(l, i)
      BY <2>4 DEF IncrLinkCount
    <3> HIDE DEF m
    <3>2. QED
      BY <2>4, <3>1 DEF GoodLinks, SameTrees, LinkFields, MovedToInodetree
  <2>5. QED
    BY <2>1, <2>2, <2>3, <2>4
<1> HIDE DEF m
<1>3. Records(f, m, tw, lf, O)
  BY <1>1, <1>2 DEF Records, SameTrees
<1>4. QED
  BY <1>3 DEF m

LEMMA SameRecords ==
  ASSUME NEW f, NEW l, NEW tw, NEW lf, NEW O, Records(f, l, tw, lf, O), NEW l2,
         SameTrees(l, l2), l2.inodetree = l.inodetree, l2.nlink1map = l.nlink1map
  PROVE  Records(f, l2, tw, lf, O)
  BY DEF Records, SameTrees

(* The parts that only know the dirtree and what is outdated.              *)
LEMMA SameTreesRest ==
  ASSUME NEW f, NEW l, NEW l2, SameTrees(l, l2), NEW tw, NEW dd, NEW lf, NEW S, NEW O, NEW D
  PROVE  /\ FreeUnlinked(f, l, S, D) => FreeUnlinked(f, l2, S, D)
         /\ DotDots(f, l, tw, dd, lf, S, O, D) => DotDots(f, l2, tw, dd, lf, S, O, D)
         /\ LostAndFound(f, l, tw, lf, S, O) => LostAndFound(f, l2, tw, lf, S, O)
         /\ \A d, n, i : Enterable(f, l, tw, lf, O, d, n, i) => Enterable(f, l2, tw, lf, O, d, n, i)
         /\ \A i : Trusted(f, l2, tw, lf, D, i) <=> Trusted(f, l, tw, lf, D, i)
  BY DEF SameTrees, FreeUnlinked, DotDots, LostAndFound, Enterable, Trusted

-----------------------------------------------------------------------------
(* Fewer directories left to pass3, more questions answered no.            *)
LEMMA WholeShrinks ==
  ASSUME NEW f, NEW l, NEW tw, NEW dd, NEW lf, NEW S, NEW O, NEW D, NEW O2, NEW D2,
         Whole(f, l, tw, dd, lf, S, O, D), O2 \subseteq O, D \subseteq D2
  PROVE  Whole(f, l, tw, dd, lf, S, O2, D2)
<1>1. \A i : Ghost(f, tw, lf, D, i) => Ghost(f, tw, lf, D2, i)
  BY DEF Ghost
<1>2. Counts(f, l, tw, lf, S, D2)
  BY <1>1 DEF Whole, Counts, Trusted
<1>3. FreeUnlinked(f, l, S, D2)
  BY DEF Whole, FreeUnlinked
<1>4. DotDots(f, l, tw, dd, lf, S, O2, D2)
  BY <1>1 DEF Whole, DotDots
<1>5. Reached(f, tw, S, O2)
  BY DEF Whole, Reached
<1>6. Records(f, l, tw, lf, O2) /\ LostAndFound(f, l, tw, lf, S, O2)
  BY DEF Whole, Records, LostAndFound
<1>7. QED
  BY <1>2, <1>3, <1>4, <1>5, <1>6 DEF Whole

(* i_nlink is not looked at.                                               *)
LEMMA WholeNlink ==
  ASSUME NEW f, NEW l, NEW tw, NEW dd, NEW lf, NEW S, NEW O, NEW D, NEW a, NEW k,
         Whole(f, l, tw, dd, lf, S, O, D)
  PROVE  Whole([f EXCEPT !.nlink[a] = k], l, tw, dd, lf, S, O, D)
<1> DEFINE g == [f EXCEPT !.nlink[a] = k]
<1>1. GoodFs(g)
  BY NlinkGood DEF Whole
<1>2. g.mode = f.mode /\ g.ents = f.ents /\ g.empty = f.empty
  BY DEF Whole, GoodFs, FsFields
<1> HIDE DEF g
<1>3. \A i : Linking(g, S, i) = Linking(f, S, i)
  BY <1>2 DEF Linking, Points
<1>4. \A i : (Ghost(g, tw, lf, D, i) <=> Ghost(f, tw, lf, D, i)) /\ (InLf(g, lf, i) <=> InLf(f, lf, i))
  BY <1>2 DEF Ghost, InLf
<1>5. GoodNames(g) /\ Records(g, l, tw, lf, O)
  BY <1>2 DEF Whole, GoodNames, Records
<1>6. Counts(g, l, tw, lf, S, D) /\ FreeUnlinked(g, l, S, D)
  BY <1>2, <1>3, <1>4 DEF Whole, Counts, Trusted, FreeUnlinked
<1>7. DotDots(g, l, tw, dd, lf, S, O, D)
  BY <1>2, <1>4 DEF Whole, DotDots, Points
<1>8. Reached(g, tw, S, O) /\ LostAndFound(g, l, tw, lf, S, O) /\ NothingLost(g, tw, lf)
  BY <1>2, <1>3, <1>4 DEF Whole, Reached, LostAndFound, NothingLost
<1>9. Whole(g, l, tw, dd, lf, S, O, D)
  BY <1>1, <1>5, <1>6, <1>7, <1>8 DEF Whole
<1>10. QED
  BY <1>9 DEF g

LEMMA WholeSync ==
  ASSUME NEW f, NEW l, NEW tw, NEW dd, NEW lf, NEW S, NEW O, NEW D, NEW a, NEW k,
         Whole(f, l, tw, dd, lf, S, O, D)
  PROVE  Whole(f, [l EXCEPT !.di_nlink[a] = k], tw, dd, lf, S, O, D)
<1> DEFINE m == [l EXCEPT !.di_nlink[a] = k]
<1>1. /\ GoodLinks(m) /\ GoodCounts(m) /\ SameTrees(l, m)
      /\ m.inodetree = l.inodetree /\ m.nlink1map = l.nlink1map
      /\ \A j : Counted(m, j) = Counted(l, j)
  BY SyncCounts DEF Whole
<1> HIDE DEF m
<1>2. Records(f, m, tw, lf, O)
  BY <1>1, SameRecords DEF Whole
<1>3. \A i : Trusted(f, m, tw, lf, D, i) <=> Trusted(f, l, tw, lf, D, i)
  BY <1>1, SameTreesRest
<1>4. Counts(f, m, tw, lf, S, D)
  BY <1>1, <1>3 DEF Whole, Counts
<1>5. FreeUnlinked(f, m, S, D) /\ DotDots(f, m, tw, dd, lf, S, O, D) /\ LostAndFound(f, m, tw, lf, S, O)
  BY <1>1, SameTreesRest DEF Whole
<1>6. Whole(f, m, tw, dd, lf, S, O, D)
  BY <1>1, <1>2, <1>4, <1>5 DEF Whole
<1>7. QED
  BY <1>6 DEF m

(* Of a directory nothing but the number changes.                          *)
SameRest(l, l2) == l2.inodetree = l.inodetree /\ l2.nlink1map = l.nlink1map

LEMMA IncrDir ==
  ASSUME NEW l, GoodLinks(l), NEW i, i \in l.dirtree
  PROVE  SameRest(l, IncrLinkCount(l, i))
<1>1. PICK m : m = IncrLinkCount(l, i)
  OBVIOUS
<1>2. CASE i \in l.outdated
  <2>1. m = l
    BY <1>1, <1>2 DEF IncrLinkCount
  <2>2. QED
    BY <1>1, <2>1 DEF SameRest
<1>3. CASE i \notin l.outdated
  <2>1. m.inodetree = l.inodetree /\ m.nlink1map = l.nlink1map
    BY <1>1, <1>3 DEF IncrLinkCount, GoodLinks, LinkFields
  <2>2. QED
    BY <1>1, <2>1 DEF SameRest
<1>4. QED
  BY <1>2, <1>3

(* What the dinode says is taken anew only with the second link of a file. *)
LEMMA IncrDi ==
  ASSUME NEW l, GoodLinks(l), NEW i \in Addrs
  PROVE  /\ i \in l.dirtree \cup l.inodetree \/ i \notin l.clink1map =>
              /\ SameRest(l, IncrLinkCount(l, i)) /\ IncrLinkCount(l, i).di_nlink = l.di_nlink
         /\ DOMAIN IncrLinkCount(l, i).di_nlink = DOMAIN l.di_nlink
         /\ \A b : IncrLinkCount(l, i).di_nlink[b] = l.di_nlink[b] \/ (b = i /\ IncrLinkCount(l, i).di_nlink[b] = 1)
<1>1. PICK m : m = IncrLinkCount(l, i)
  OBVIOUS
<1>2. CASE i \in l.outdated
  <2>1. m = l
    BY <1>1, <1>2 DEF IncrLinkCount
  <2>2. QED
    BY <1>1, <2>1 DEF SameRest
<1>3. CASE i \notin l.outdated /\ (i \in l.dirtree \cup l.inodetree \/ i \notin l.clink1map)
  <2>1. m.inodetree = l.inodetree /\ m.nlink1map = l.nlink1map /\ m.di_nlink = l.di_nlink
    BY <1>1, <1>3 DEF IncrLinkCount, GoodLinks, LinkFields
  <2>2. QED
    BY <1>1, <2>1 DEF SameRest
<1>4. CASE i \notin l.outdated /\ i \notin l.dirtree \cup l.inodetree /\ i \in l.clink1map
  <2>1. m = MovedToInodetree(l, i)
    BY <1>1, <1>4 DEF IncrLinkCount
  <2>2. m.di_nlink = [l.di_nlink EXCEPT ![i] = 1]
    BY <2>1 DEF GoodLinks, LinkFields, MovedToInodetree
  <2>3. \A b : m.di_nlink[b] = l.di_nlink[b] \/ (b = i /\ m.di_nlink[b] = 1)
    BY <2>2
  <2>4. QED
    BY <1>1, <1>4, <2>2, <2>3
<1>5. QED
  BY <1>2, <1>3, <1>4

-----------------------------------------------------------------------------
(* A "." or a name in lost+found is entered, and counted.                  *)
LEMMA WholeEntered ==
  ASSUME NEW f, NEW l, NEW tw, NEW dd, NEW lf, NEW S, NEW O, NEW D, S \subseteq Pairs,
         Whole(f, l, tw, dd, lf, S, O, D),
         NEW f2, NEW d \in Addrs, NEW n \in Names, NEW i \in Addrs, <<d, n>> \in S,
         Entered(f, f2, d, n, i), Enterable(f, l, tw, lf, O, d, n, i), n # DotDot,
         Trusted(f, l, tw, lf, D, i) => n \notin DOMAIN f.ents[d]
  PROVE  Whole(f2, IncrLinkCount(l, i), tw, dd, lf, S, O, D)
<1>1. PICK m : m = IncrLinkCount(l, i)
  OBVIOUS
<1>2. /\ GoodLinks(m) /\ GoodCounts(m) /\ SameTrees(l, m)
      /\ \A k \in Addrs : Counted(m, k) =
            IF k = i /\ i \notin l.outdated THEN Counted(l, k) + 1 ELSE Counted(l, k)
  BY <1>1, IncrCounts DEF Whole
<1>3. Records(f, m, tw, lf, O)
  BY <1>1, IncrRecords DEF Whole
<1>4. f.mode[d] = "dir" /\ ((n = Dot /\ i = d) \/ n = LostName(i))
  BY DEF Enterable
<1>5. n = LostName(i) => n \notin Dots
  BY NamesApart
<1>6. GoodFs(f2) /\ GoodNames(f2)
  BY <1>4, EnteredGood DEF Whole
<1>7. Reached(f2, tw, S, O)
  BY <1>4, EnteredReached DEF Whole, Enterable, Dots
<1>8. FreeUnlinked(f, m, S, D) /\ LostAndFound(f, m, tw, lf, S, O) /\ Enterable(f, m, tw, lf, O, d, n, i)
  BY <1>2, SameTreesRest DEF Whole
<1>9. /\ Records(f2, m, tw, lf, O) /\ FreeUnlinked(f2, m, S, D)
      /\ LostAndFound(f2, m, tw, lf, S, O) /\ NothingLost(f2, tw, lf)
  BY <1>3, <1>8, RootIsAddr, EnteredRest DEF Whole
<1>10. f2.mode = f.mode /\ \A k : Ghost(f2, tw, lf, D, k) <=> Ghost(f, tw, lf, D, k)
  BY DEF Entered, Ghost
<1>11. Counts(f2, m, tw, lf, S, D)
  <2>1. ASSUME NEW k \in Addrs, Trusted(f2, m, tw, lf, D, k)
        PROVE  Counted(m, k) = Cardinality(Linking(f2, S, k))
    <3>1. Trusted(f, l, tw, lf, D, k)
      BY <1>2, <1>10, <2>1 DEF Trusted, SameTrees
    <3>2. Counted(l, k) = Cardinality(Linking(f, S, k)) /\ IsFiniteSet(Linking(f, S, k))
      BY <3>1, LinkingFinite DEF Whole, Counts
    <3>3. Linking(f2, S, k) = (Linking(f, S, k) \ {<<d, n>>}) \cup (IF k = i THEN {<<d, n>>} ELSE {})
      BY <1>4, EnteredLinking
    <3>4. CASE k = i
      <4>1. n \notin DOMAIN f.ents[d]
        BY <3>1, <3>4
      <4>2. <<d, n>> \notin Linking(f, S, k)
        BY <4>1, LinkingIs DEF Points
      <4>3. Linking(f2, S, k) = Linking(f, S, k) \cup {<<d, n>>}
        BY <3>3, <3>4, <4>2
      <4>4. Cardinality(Linking(f2, S, k)) = Cardinality(Linking(f, S, k)) + 1
        BY <3>2, <4>2, <4>3, FS_AddElement
      <4>5. i \notin l.outdated
        BY <3>1, <3>4 DEF Trusted
      <4>6. QED
        BY <1>2, <3>2, <3>4, <4>4, <4>5
    <3>5. CASE k # i
      <4>1. <<d, n>> \notin Linking(f, S, k)
        <5>1. n \in DOMAIN f.ents[d] => f.ents[d][n].to = i
          BY <1>4 DEF Whole, GoodNames
        <5>2. QED
          BY <3>5, <5>1, LinkingIs DEF Points
      <4>2. Linking(f2, S, k) = Linking(f, S, k)
        BY <3>3, <3>5, <4>1
      <4>3. QED
        BY <1>2, <3>2, <3>5, <4>2
    <3>6. QED
      BY <3>4, <3>5
  <2>2. QED
    BY <2>1 DEF Counts
<1>12. DotDots(f2, m, tw, dd, lf, S, O, D)
  <2>1. DotDots(f, m, tw, dd, lf, S, O, D)
    BY <1>2, SameTreesRest DEF Whole
  <2>2. ASSUME NEW e \in Addrs
        PROVE  /\ DotDot \in DOMAIN f2.ents[e] <=> DotDot \in DOMAIN f.ents[e]
               /\ DotDot \in DOMAIN f.ents[e] => f2.ents[e][DotDot] = f.ents[e][DotDot]
               /\ InLf(f, lf, e) => InLf(f2, lf, e)
    <3>1. lf # None => lf \in Addrs
      BY DEF Whole, LostAndFound
    <3>2. QED
      BY <3>1 DEF Entered, InLf
  <2>3. QED
    BY <1>10, <2>1, <2>2 DEF DotDots, Points
<1>13. QED
  BY <1>1, <1>2, <1>6, <1>7, <1>9, <1>11, <1>12 DEF Whole

(* A ".." is entered: the link of the old one has been taken back.         *)
LEMMA WholeDotDot ==
  ASSUME NEW f, NEW l, NEW tw, NEW dd, NEW lf, NEW S, NEW O, NEW D, S \subseteq Pairs,
         Whole(f, l, tw, dd, lf, S, O, D),
         NEW f2, NEW d \in Addrs, NEW i \in Addrs, <<d, DotDot>> \in S,
         Entered(f, f2, d, DotDot, i), Enterable(f, l, tw, lf, O, d, DotDot, i),
         dd[d] # None => Points(f, d, DotDot, dd[d]),
         dd[d] = None /\ DotDot \in DOMAIN f.ents[d] => Ghost(f, tw, lf, D, f.ents[d][DotDot].to),
         NEW l2, GoodLinks(l2), GoodCounts(l2), SameTrees(l, l2), Records(f, l2, tw, lf, O),
         \A k \in Addrs : Trusted(f, l, tw, lf, D, k) =>
            Counted(l2, k) = IF k = dd[d] THEN Counted(l, k) - 1 ELSE Counted(l, k),
         NEW dd2, \/ dd2 = dd /\ InLf(f, lf, d) /\ d \notin O
                  \/ dd2 = [dd EXCEPT ![d] = i] /\ i \in l.dirtree
  PROVE  Whole(f2, IncrLinkCount(l2, i), tw, dd2, lf, S, O, D)
<1>1. PICK m : m = IncrLinkCount(l2, i)
  OBVIOUS
<1>2. /\ GoodLinks(m) /\ GoodCounts(m) /\ SameTrees(l2, m)
      /\ \A k \in Addrs : Counted(m, k) =
            IF k = i /\ i \notin l2.outdated THEN Counted(l2, k) + 1 ELSE Counted(l2, k)
  BY <1>1, IncrCounts
<1>3. Records(f, m, tw, lf, O)
  BY <1>1, IncrRecords
<1>4. f.mode[d] = "dir" /\ DotDot \in Names
  BY NamesApart DEF Enterable
<1>5. DotDot # LostName(i) /\ \A e \in Addrs : DotDot # LostName(e)
  BY NamesApart DEF Dots
<1>6. GoodFs(f2) /\ GoodNames(f2)
  BY <1>4, EnteredGood DEF Whole
<1>7. Reached(f2, tw, S, O)
  BY <1>4, <1>5, EnteredReached DEF Whole, Enterable, Dots
<1>8. SameTrees(l, m)
  BY <1>2 DEF SameTrees
<1>9. FreeUnlinked(f, m, S, D) /\ LostAndFound(f, m, tw, lf, S, O) /\ Enterable(f, m, tw, lf, O, d, DotDot, i)
  BY <1>8, SameTreesRest DEF Whole
<1>10. /\ Records(f2, m, tw, lf, O) /\ FreeUnlinked(f2, m, S, D)
       /\ LostAndFound(f2, m, tw, lf, S, O) /\ NothingLost(f2, tw, lf)
  BY <1>3, <1>4, <1>9, RootIsAddr, EnteredRest DEF Whole
<1>11. f2.mode = f.mode /\ \A k : Ghost(f2, tw, lf, D, k) <=> Ghost(f, tw, lf, D, k)
  BY DEF Entered, Ghost
<1>12. Counts(f2, m, tw, lf, S, D)
  <2>1. ASSUME NEW k \in Addrs, Trusted(f2, m, tw, lf, D, k)
        PROVE  Counted(m, k) = Cardinality(Linking(f2, S, k))
    <3>1. Trusted(f, l, tw, lf, D, k)
      BY <1>8, <1>11, <2>1 DEF Trusted, SameTrees
    <3>2. /\ Counted(l, k) = Cardinality(Linking(f, S, k)) /\ Counted(l, k) \in Nat
          /\ IsFiniteSet(Linking(f, S, k))
      BY <3>1, LinkingFinite DEF Whole, Counts
    <3>3. PICK A : A = Linking(f, S, k) \ {<<d, DotDot>>}
      OBVIOUS
    <3>4. Linking(f2, S, k) = A \cup (IF k = i THEN {<<d, DotDot>>} ELSE {})
      BY <1>4, <3>3, EnteredLinking
    <3>5. <<d, DotDot>> \in Linking(f, S, k) <=> k = dd[d]
      <4>1. <<d, DotDot>> \in Linking(f, S, k) <=> Points(f, d, DotDot, k)
        BY LinkingIs
      <4>2. CASE dd[d] # None
        BY <4>1, <4>2 DEF Points
      <4>3. CASE dd[d] = None
        <5>1. k # dd[d]
          BY <4>3, RootIsAddr
        <5>2. ~Points(f, d, DotDot, k)
          BY <3>1, <4>3 DEF Points, Trusted
        <5>3. QED
          BY <4>1, <5>1, <5>2
      <4>4. QED
        BY <4>2, <4>3
    <3>6. IsFiniteSet(A) /\ Cardinality(A) = IF k = dd[d] THEN Counted(l, k) - 1 ELSE Counted(l, k)
      BY <3>2, <3>3, <3>5, FS_RemoveElement
    <3>7. Cardinality(A) = Counted(l2, k)
      BY <3>1, <3>6
    <3>8. k = i => Cardinality(Linking(f2, S, k)) = Counted(l2, k) + 1
      <4>1. <<d, DotDot>> \notin A
        BY <3>3
      <4>2. QED
        BY <3>4, <3>6, <3>7, <4>1, FS_AddElement
    <3>9. k # i => Cardinality(Linking(f2, S, k)) = Counted(l2, k)
      <4>1. k # i => Linking(f2, S, k) = A
        BY <3>4
      <4>2. QED
        BY <3>7, <4>1
    <3>10. k \notin l2.outdated
      BY <3>1 DEF Trusted, SameTrees
    <3>11. QED
      BY <1>2, <3>8, <3>9, <3>10
  <2>2. QED
    BY <2>1 DEF Counts
<1>13. DotDots(f2, m, tw, dd2, lf, S, O, D)
  <2>1. DotDots(f, m, tw, dd, lf, S, O, D)
    BY <1>8, SameTreesRest DEF Whole
  <2>2. /\ DOMAIN dd2 = Addrs /\ \A e \in Addrs \ {d} : dd2[e] = dd[e]
        /\ dd2[d] \in m.dirtree \cup {None}
    BY <1>8, <2>1 DEF DotDots, SameTrees
  <2>3. ASSUME NEW e \in Addrs
        PROVE  InLf(f2, lf, e) <=> InLf(f, lf, e)
    <3>1. lf # None => lf \in Addrs /\ d # lf
      BY <1>5, NamesApart DEF Whole, LostAndFound, Enterable
    <3>2. QED
      BY <3>1 DEF Entered, InLf
  <2>4. ASSUME NEW e \in Addrs \ {d}
        PROVE  f2.ents[e] = f.ents[e] /\ \A k : Points(f2, e, DotDot, k) <=> Points(f, e, DotDot, k)
    BY DEF Entered, Points
  <2>5. ASSUME NEW e \in Addrs \ {d}
        PROVE  /\ dd2[e] \in m.dirtree \cup {None}
               /\ <<e, DotDot>> \notin S => dd2[e] = None
               /\ f2.mode[e] = "dir" /\ e # lf /\ <<e, DotDot>> \in S /\ (InLf(f2, lf, e) => e \in O) =>
                   /\ dd2[e] # None => Points(f2, e, DotDot, dd2[e])
                   /\ dd2[e] = None /\ DotDot \in DOMAIN f2.ents[e] =>
                        Ghost(f2, tw, lf, D, f2.ents[e][DotDot].to)
    BY <1>11, <2>1, <2>2, <2>3, <2>4 DEF DotDots
  <2>6. /\ f2.mode[d] = "dir" /\ (InLf(f2, lf, d) => d \in O) => dd2[d] = i
        /\ Points(f2, d, DotDot, i) /\ i # None
    BY <1>4, <2>1, <2>3, EnteredPoints, RootIsAddr DEF DotDots
  <2>7. QED
    BY <2>2, <2>5, <2>6 DEF DotDots
<1>14. QED
  BY <1>1, <1>2, <1>6, <1>7, <1>10, <1>12, <1>13 DEF Whole

-----------------------------------------------------------------------------
(* A dinode is cleared: a directory that holds nothing, a file no entry is *)
(* to.                                                                     *)
LEMMA WholeFreed ==
  ASSUME NEW f, NEW l, NEW tw, NEW dd, NEW lf, NEW O, NEW D, Whole(f, l, tw, dd, lf, Pairs, O, D),
         NEW d \in Addrs, d # lf, tw[d] = None,
         \/ f.mode[d] = "dir" /\ DOMAIN f.ents[d] \subseteq {Dot}
         \/ f.mode[d] = "file" /\ (d \in D \/ Linking(f, Pairs, d) = {})
  PROVE  Whole([f EXCEPT !.mode[d] = "free"], l, tw, dd, lf, Pairs, O \ {d}, D)
<1>1. PICK g : g = [f EXCEPT !.mode[d] = "free"]
  OBVIOUS
<1>2. GoodFs(g)
  BY <1>1, ModeGood DEF Whole, GoodFs, FsFields
<1>3. /\ g.ents = f.ents /\ g.empty = f.empty /\ g.mode[d] = "free"
      /\ \A a \in Addrs \ {d} : g.mode[a] = f.mode[a]
      /\ g.mode \in [Addrs -> Modes]
  BY <1>1 DEF Whole, GoodFs, FsFields, GoodNames, Modes
<1>4. g.mode[Root] # "file"
  BY <1>3, RootIsAddr DEF Whole, GoodNames
<1>5. GoodNames(g)
  BY <1>3, <1>4 DEF Whole, GoodNames
<1>6. ASSUME NEW a \in Addrs, NEW n, NEW k
      PROVE  Points(g, a, n, k) <=> Points(f, a, n, k) /\ a # d
  BY <1>3 DEF Points
<1>7. \A k : Linking(g, Pairs, k) = { p \in Linking(f, Pairs, k) : p[1] # d }
  <2>1. \A p \in Pairs : p[1] \in Addrs
    BY DEF Pairs
  <2>2. QED
    BY <1>6, <2>1 DEF Linking
<1>8. ASSUME NEW k, k # d
      PROVE  Linking(g, Pairs, k) = Linking(f, Pairs, k)
  <2>1. ASSUME NEW p \in Linking(f, Pairs, k) PROVE p[1] # d
    <3>1. Points(f, p[1], p[2], k)
      BY DEF Linking
    <3>2. CASE p[1] = d
      BY <1>8, <3>1, <3>2 DEF Points, Whole, GoodNames
    <3>3. QED
      BY <3>2
  <2>2. QED
    BY <1>7, <2>1
<1>9. \A k : Ghost(f, tw, lf, D, k) /\ k \in Addrs => Ghost(g, tw, lf, D, k)
  BY <1>3 DEF Ghost
<1>10. \A k : InLf(g, lf, k) <=> InLf(f, lf, k)
  BY <1>3 DEF InLf
<1>11. Records(g, l, tw, lf, O \ {d})
  BY <1>3 DEF Whole, Records
<1>12. Counts(g, l, tw, lf, Pairs, D)
  <2>1. ASSUME NEW k \in Addrs, Trusted(g, l, tw, lf, D, k)
        PROVE  Counted(l, k) = Cardinality(Linking(g, Pairs, k))
    <3>1. k # d /\ Trusted(f, l, tw, lf, D, k)
      BY <1>3, <1>9, <2>1 DEF Trusted
    <3>2. QED
      BY <1>8, <3>1 DEF Whole, Counts
  <2>2. QED
    BY <2>1 DEF Counts
<1>13. FreeUnlinked(g, l, Pairs, D)
  <2>1. ASSUME NEW k \in Addrs, g.mode[k] = "free", k \notin D, k \notin l.dirtree
        PROVE  Linking(g, Pairs, k) = {}
    <3>1. CASE k = d
      <4>1. f.mode[d] # "dir"
        BY <2>1, <3>1 DEF Whole, Records
      <4>2. Linking(f, Pairs, d) = {}
        BY <2>1, <3>1, <4>1
      <4>3. QED
        BY <1>7, <3>1, <4>2
    <3>2. CASE k # d
      BY <1>3, <1>8, <2>1, <3>2 DEF Whole, FreeUnlinked
    <3>3. QED
      BY <3>1, <3>2
  <2>2. QED
    BY <2>1 DEF FreeUnlinked
<1>14. DotDots(g, l, tw, dd, lf, Pairs, O \ {d}, D)
  <2>1. ASSUME NEW e \in Addrs, g.mode[e] = "dir", e # lf, <<e, DotDot>> \in Pairs,
               InLf(g, lf, e) => e \in O \ {d}
        PROVE  /\ dd[e] # None => Points(g, e, DotDot, dd[e])
               /\ dd[e] = None /\ DotDot \in DOMAIN g.ents[e] => Ghost(g, tw, lf, D, g.ents[e][DotDot].to)
    <3>1. e # d /\ f.mode[e] = "dir"
      BY <1>3, <2>1
    <3>2. /\ dd[e] # None => Points(f, e, DotDot, dd[e])
          /\ dd[e] = None /\ DotDot \in DOMAIN f.ents[e] => Ghost(f, tw, lf, D, f.ents[e][DotDot].to)
      BY <1>10, <2>1, <3>1 DEF Whole, DotDots
    <3>3. DotDot \in DOMAIN f.ents[e] => f.ents[e][DotDot].to \in Addrs
      BY DEF Whole, GoodFs, GoodEnts
    <3>4. QED
      BY <1>3, <1>6, <1>9, <3>1, <3>2, <3>3
  <2>2. QED
    BY <2>1 DEF Whole, DotDots
<1>15. Reached(g, tw, Pairs, O \ {d})
  <2>1. ASSUME NEW a \in Addrs, tw[a] # None
        PROVE  g.mode[a] = "dir" /\ Linking(g, Pairs, a) = Linking(f, Pairs, a)
    BY <1>3, <1>8, <2>1 DEF Whole, Reached
  <2>2. ASSUME NEW a \in Addrs, g.mode[a] = "dir"
        PROVE  f.mode[a] = "dir" /\ Linking(g, Pairs, a) = Linking(f, Pairs, a)
    BY <1>3, <1>8, <2>2
  <2>3. QED
    BY <2>1, <2>2 DEF Whole, Reached
<1>16. LostAndFound(g, l, tw, lf, Pairs, O \ {d})
  <2>1. CASE lf # None
    <3>1. lf \in Addrs /\ g.mode[lf] = "dir" /\ lf \notin O \ {d} /\ (lf \in l.outdated => tw[lf] = None)
      BY <1>3, <2>1 DEF Whole, LostAndFound
    <3>2. tw[lf] = None => lf \notin g.empty /\ <<lf, DotDot>> \in Linking(f, Pairs, Root)
      BY <1>3, <2>1 DEF Whole, LostAndFound
    <3>3. <<lf, DotDot>> \in Linking(f, Pairs, Root) => <<lf, DotDot>> \in Linking(g, Pairs, Root)
      BY <1>7
    <3>4. QED
      BY <2>1, <3>1, <3>2, <3>3 DEF LostAndFound
  <2>2. CASE lf = None
    <3>1. ASSUME LostFound \in DOMAIN f.ents[Root]
          PROVE  /\ g.mode[f.ents[Root][LostFound].to] = "dir"
                 /\ tw[f.ents[Root][LostFound].to] # None
      <4>1. <<Root, LostFound>> \in Pairs
        BY RootIsAddr, NamesApart DEF Pairs
      <4>2. f.mode[f.ents[Root][LostFound].to] = "dir" /\ tw[f.ents[Root][LostFound].to] # None
        BY <2>2, <3>1, <4>1 DEF Whole, LostAndFound
      <4>3. f.ents[Root][LostFound].to \in Addrs
        BY <3>1, RootIsAddr DEF Whole, GoodFs, GoodEnts
      <4>4. QED
        BY <1>3, <4>2, <4>3
    <3>2. QED
      BY <1>3, <2>2, <3>1 DEF LostAndFound
  <2>3. QED
    BY <2>1, <2>2
<1>17. NothingLost(g, tw, lf)
  <2>1. ASSUME NEW e \in f.empty, g.mode[e] = "dir" PROVE f.mode[e] = "dir"
    BY <1>3, <2>1 DEF Whole, GoodNames
  <2>2. QED
    BY <1>3, <1>10, <2>1 DEF Whole, NothingLost
<1>18. QED
  BY <1>1, <1>2, <1>5, <1>11, <1>12, <1>13, <1>14, <1>15, <1>16, <1>17 DEF Whole

-----------------------------------------------------------------------------
(* lost+found is there already.                                            *)
LEMMA WholeFound ==
  ASSUME NEW f, NEW l, NEW tw, NEW dd, NEW O, NEW D, Whole(f, l, tw, dd, None, Pairs, O, D),
         NEW L, LostFound \in DOMAIN f.ents[Root], L = f.ents[Root][LostFound].to
  PROVE  Whole(f, l, tw, dd, L, Pairs, O \ {L}, D)
<1>1. Root \in Addrs /\ None \notin Addrs /\ <<Root, LostFound>> \in Pairs
  BY RootIsAddr, NamesApart DEF Pairs
<1>2. L \in Addrs /\ L # None
  BY <1>1 DEF Whole, GoodFs, GoodEnts
<1>3. f.mode[L] = "dir" /\ tw[L] # None
  BY <1>1 DEF Whole, LostAndFound
<1>4. \A i \in Addrs : Ghost(f, tw, L, D, i) <=> Ghost(f, tw, None, D, i)
  BY <1>1, <1>3 DEF Ghost
<1>5. \A d : ~InLf(f, None, d)
  BY DEF InLf
<1>6. Records(f, l, tw, L, O \ {L}) /\ L \notin l.outdated
  BY <1>1, <1>2 DEF Whole, Records
<1>7. Counts(f, l, tw, L, Pairs, D)
  BY <1>4 DEF Whole, Counts, Trusted
<1>8. DotDots(f, l, tw, dd, L, Pairs, O \ {L}, D)
  <2>1. ASSUME NEW e \in Addrs, f.mode[e] = "dir", <<e, DotDot>> \in Pairs
        PROVE  /\ dd[e] # None => Points(f, e, DotDot, dd[e])
               /\ dd[e] = None /\ DotDot \in DOMAIN f.ents[e] => Ghost(f, tw, L, D, f.ents[e][DotDot].to)
    <3>1. e # None /\ ~InLf(f, None, e)
      BY <1>1, <1>5
    <3>2. /\ dd[e] # None => Points(f, e, DotDot, dd[e])
          /\ dd[e] = None /\ DotDot \in DOMAIN f.ents[e] => Ghost(f, tw, None, D, f.ents[e][DotDot].to)
      BY <2>1, <3>1 DEF Whole, DotDots
    <3>3. DotDot \in DOMAIN f.ents[e] => f.ents[e][DotDot].to \in Addrs
      BY DEF Whole, GoodFs, GoodEnts
    <3>4. QED
      BY <1>4, <3>2, <3>3
  <2>2. QED
    BY <2>1 DEF Whole, DotDots
<1>9. Reached(f, tw, Pairs, O \ {L})
  BY DEF Whole, Reached
<1>10. LostAndFound(f, l, tw, L, Pairs, O \ {L})
  BY <1>2, <1>3, <1>6 DEF LostAndFound
<1>11. NothingLost(f, tw, L)
  BY <1>5 DEF Whole, NothingLost
<1>12. QED
  BY <1>6, <1>7, <1>8, <1>9, <1>10, <1>11 DEF Whole, FreeUnlinked

(* lost+found is made, in a free block.                                    *)
Made(f, f2, L) ==
    /\ DOMAIN f2 = FsFields /\ f2.mode = [f.mode EXCEPT ![L] = "dir"] /\ f2.empty = f.empty \ {L}
    /\ DOMAIN f2.ents = Addrs
    /\ DOMAIN f2.ents[L] = Dots /\ f2.ents[L][Dot].to = L /\ f2.ents[L][DotDot].to = Root
    /\ L # Root =>
        /\ DOMAIN f2.ents[Root] = DOMAIN f.ents[Root] \cup {LostFound}
        /\ f2.ents[Root][LostFound].to = L
        /\ \A n \in DOMAIN f.ents[Root] : f2.ents[Root][n] = f.ents[Root][n]
    /\ \A a \in Addrs \ {L, Root} : f2.ents[a] = f.ents[a]

LEMMA MadePoints ==
  ASSUME NEW f, GoodFs(f), GoodNames(f), NEW f2, NEW L \in Addrs, Made(f, f2, L),
         f.mode[L] = "free", f.mode[Root] = "free" => L = Root, LostFound \notin DOMAIN f.ents[Root],
         NEW a \in Addrs, NEW n, NEW k
  PROVE  Points(f2, a, n, k) <=>
            \/ Points(f, a, n, k)
            \/ a = L /\ n = Dot /\ k = L
            \/ a = L /\ n = DotDot /\ k = Root
            \/ L # Root /\ a = Root /\ n = LostFound /\ k = L
<1>1. Dot # DotDot /\ Root \in Addrs
  BY NamesApart, RootIsAddr
<1>2. CASE a = L
  BY <1>1, <1>2 DEF Points, Made, GoodNames, Dots
<1>3. CASE a = Root /\ L # Root
  <2>1. f.mode[Root] = "dir" /\ f2.mode[Root] = "dir"
    BY <1>1, <1>3 DEF Made, GoodNames, Modes
  <2>2. QED
    BY <1>3, <2>1 DEF Points, Made
<1>4. CASE a # L /\ a # Root
  BY <1>4 DEF Points, Made, GoodNames
<1>5. QED
  BY <1>2, <1>3, <1>4

LEMMA MadeLinking ==
  ASSUME NEW f, GoodFs(f), GoodNames(f), NEW f2, NEW L \in Addrs, Made(f, f2, L),
         f.mode[L] = "free", f.mode[Root] = "free" => L = Root, LostFound \notin DOMAIN f.ents[Root]
  PROVE  /\ \A k : k # L /\ k # Root => Linking(f2, Pairs, k) = Linking(f, Pairs, k)
         /\ L # Root => Linking(f2, Pairs, Root) = Linking(f, Pairs, Root) \cup {<<L, DotDot>>}
         /\ L # Root => Linking(f2, Pairs, L) = Linking(f, Pairs, L) \cup {<<L, Dot>>, <<Root, LostFound>>}
         /\ <<L, DotDot>> \in Linking(f2, Pairs, Root)
<1>1. <<L, Dot>> \in Pairs /\ <<L, DotDot>> \in Pairs /\ <<Root, LostFound>> \in Pairs
  BY NamesApart, RootIsAddr DEF Pairs
<1>2. ASSUME NEW p \in Pairs, NEW k
      PROVE  p \in Linking(f2, Pairs, k) <=>
                \/ p \in Linking(f, Pairs, k)
                \/ p = <<L, Dot>> /\ k = L
                \/ p = <<L, DotDot>> /\ k = Root
                \/ L # Root /\ p = <<Root, LostFound>> /\ k = L
  <2>1. p[1] \in Addrs /\ p = <<p[1], p[2]>>
    BY DEF Pairs
  <2>2. Points(f2, p[1], p[2], k) <=>
            \/ Points(f, p[1], p[2], k)
            \/ p[1] = L /\ p[2] = Dot /\ k = L
            \/ p[1] = L /\ p[2] = DotDot /\ k = Root
            \/ L # Root /\ p[1] = Root /\ p[2] = LostFound /\ k = L
    BY <2>1, MadePoints
  <2>3. \A d, n : p = <<d, n>> <=> p[1] = d /\ p[2] = n
    BY <2>1
  <2>4. p \in Linking(f2, Pairs, k) <=> Points(f2, p[1], p[2], k)
    BY DEF Linking
  <2>5. p \in Linking(f, Pairs, k) <=> Points(f, p[1], p[2], k)
    BY DEF Linking
  <2>6. QED
    BY <2>2, <2>3, <2>4, <2>5
<1>3. \A k : Linking(f2, Pairs, k) \subseteq Pairs /\ Linking(f, Pairs, k) \subseteq Pairs
  BY DEF Linking
<1>4. ASSUME NEW k, k # L, k # Root PROVE Linking(f2, Pairs, k) = Linking(f, Pairs, k)
  BY <1>2, <1>3, <1>4
<1>5. ASSUME L # Root PROVE Linking(f2, Pairs, Root) = Linking(f, Pairs, Root) \cup {<<L, DotDot>>}
  BY <1>1, <1>2, <1>3, <1>5
<1>6. ASSUME L # Root
      PROVE  Linking(f2, Pairs, L) = Linking(f, Pairs, L) \cup {<<L, Dot>>, <<Root, LostFound>>}
  BY <1>1, <1>2, <1>3, <1>6
<1>7. <<L, DotDot>> \in Linking(f2, Pairs, Root)
  BY <1>1, <1>2
<1>8. QED
  BY <1>4, <1>5, <1>6, <1>7

LEMMA MadeGood ==
  ASSUME NEW f, GoodFs(f), GoodNames(f), NEW f2, NEW L \in Addrs, Made(f, f2, L)
  PROVE  GoodFs(f2) /\ GoodNames(f2)
<1>1. /\ Dot # DotDot /\ Dot # LostFound /\ Dots \subseteq Names /\ LostFound \in Names /\ Root \in Addrs
      /\ \A i \in Addrs : LostName(i) \notin Dots /\ LostName(i) # LostFound
  BY NamesApart, RootIsAddr DEF Dots
<1>2. ASSUME NEW a \in Addrs, NEW n \in DOMAIN f2.ents[a]
      PROVE  /\ f2.ents[a][n].to \in Addrs /\ n \in Names
             /\ n = Dot => f2.ents[a][n].to = a
             /\ \A i \in Addrs : n = LostName(i) => f2.ents[a][n].to = i
  <2>1. CASE a = L
    BY <1>1, <1>2, <2>1 DEF Made, Dots
  <2>2. CASE a # L /\ a = Root /\ n = LostFound
    BY <1>1, <2>2 DEF Made
  <2>3. CASE a # L /\ ~(a = Root /\ n = LostFound)
    <3>1. n \in DOMAIN f.ents[a] /\ f2.ents[a][n] = f.ents[a][n]
      BY <1>2, <2>3 DEF Made
    <3>2. QED
      BY <3>1 DEF GoodFs, GoodEnts, GoodNames
  <2>4. QED
    BY <2>1, <2>2, <2>3
<1>3. GoodFs(f2)
  BY <1>2 DEF GoodFs, GoodEnts, Made
<1>4. f2.mode \in [Addrs -> Modes] /\ f2.mode[Root] # "file" /\ f2.empty \subseteq Addrs
  BY <1>1 DEF GoodNames, Made, Modes
<1>5. QED
  BY <1>2, <1>3, <1>4 DEF GoodNames

(* A record that was there is out of date now; otherwise its two links are *)
(* counted, and the one its ".." is.                                       *)
LfRecorded(l, m, L) ==
    /\ GoodLinks(m) /\ GoodCounts(m)
    /\ m.dirtree = l.dirtree \cup {L} /\ SameRest(l, m)
    /\ m.outdated = IF L \in l.dirtree THEN l.outdated \cup {L} ELSE l.outdated
    /\ \A k \in Addrs : k # L /\ k # Root => Counted(m, k) = Counted(l, k)
    /\ L # Root => Counted(m, Root) = Counted(l, Root) + 1
    /\ L \notin l.dirtree => Counted(m, L) = 2

LEMMA WholeMade ==
  ASSUME NEW f, NEW l, NEW tw, NEW dd, NEW O, NEW D, Whole(f, l, tw, dd, None, Pairs, O, D),
         NEW f2, NEW L \in Addrs, Made(f, f2, L), f.mode[L] = "free",
         f.mode[Root] = "free" => L = Root, LostFound \notin DOMAIN f.ents[Root],
         NEW m, LfRecorded(l, m, L)
  PROVE  Whole(f2, m, tw, dd, L, Pairs, O \ {L}, D)
<1>0. /\ GoodLinks(m) /\ GoodCounts(m)
      /\ m.dirtree = l.dirtree \cup {L} /\ m.inodetree = l.inodetree /\ m.nlink1map = l.nlink1map
      /\ m.outdated = IF L \in l.dirtree THEN l.outdated \cup {L} ELSE l.outdated
      /\ \A k \in Addrs : k # L /\ k # Root => Counted(m, k) = Counted(l, k)
      /\ L # Root => Counted(m, Root) = Counted(l, Root) + 1
      /\ L \notin l.dirtree => Counted(m, L) = 2
  BY DEF LfRecorded, SameRest
<1>1. /\ Root \in Addrs /\ None \notin Addrs /\ Dot # DotDot /\ DotDot # LostFound /\ Dot # LostFound
      /\ \A i \in Addrs : LostName(i) \notin Dots
  BY RootIsAddr, NamesApart
<1>2. GoodFs(f2) /\ GoodNames(f2)
  BY MadeGood DEF Whole
<1>3. /\ f2.mode[L] = "dir" /\ \A a \in Addrs \ {L} : f2.mode[a] = f.mode[a]
      /\ f2.empty = f.empty \ {L}
  BY DEF Made, Whole, GoodNames
<1>4. /\ \A k : k # L /\ k # Root => Linking(f2, Pairs, k) = Linking(f, Pairs, k)
      /\ L # Root => Linking(f2, Pairs, Root) = Linking(f, Pairs, Root) \cup {<<L, DotDot>>}
      /\ L # Root => Linking(f2, Pairs, L) = Linking(f, Pairs, L) \cup {<<L, Dot>>, <<Root, LostFound>>}
      /\ <<L, DotDot>> \in Linking(f2, Pairs, Root)
  BY MadeLinking DEF Whole
<1>5. tw[L] = None
  BY DEF Whole, Reached
<1>6. l.outdated = {} /\ Root \in l.dirtree
  BY DEF Whole, Records
<1>7. \A i \in Addrs : Ghost(f, tw, None, D, i) => Ghost(f2, tw, L, D, i)
  BY <1>1, <1>3, <1>5 DEF Ghost
<1>8. \A d \in Addrs : ~InLf(f2, L, d) /\ ~InLf(f, None, d)
  BY <1>1 DEF InLf, Made
<1>9. Records(f2, m, tw, L, O \ {L})
  <2>1. Root \in m.dirtree /\ m.outdated \subseteq {L} /\ None \notin m.outdated
    BY <1>0, <1>1, <1>6
  <2>2. ASSUME NEW i \in Addrs
        PROVE  /\ f2.mode[i] = "dir" => i \in m.dirtree
               /\ f2.mode[i] = "file" => i \notin m.dirtree /\ (i \in m.inodetree \/ i \in m.nlink1map)
               /\ i \in O \ {L} /\ i \in m.dirtree => f2.mode[i] = "dir"
               /\ (i \in m.inodetree \/ i \in m.nlink1map) /\ f2.mode[i] = "dir" => i = L /\ tw[i] = None
    <3>1. CASE i = L
      BY <1>0, <1>3, <1>5, <3>1
    <3>2. CASE i # L
      <4>1. i # None /\ f2.mode[i] = f.mode[i] /\ (i \in m.dirtree <=> i \in l.dirtree)
        BY <1>0, <1>1, <1>3, <3>2
      <4>2. QED
        BY <1>0, <4>1, <3>2 DEF Whole, Records
    <3>3. QED
      BY <3>1, <3>2
  <2>3. QED
    BY <2>1, <2>2 DEF Records
<1>10. Counts(f2, m, tw, L, Pairs, D)
  <2>1. ASSUME NEW k \in Addrs, Trusted(f2, m, tw, L, D, k)
        PROVE  Counted(m, k) = Cardinality(Linking(f2, Pairs, k))
    <3>1. CASE k = L
      <4>1. L \notin l.dirtree /\ L # Root /\ L \notin D
        BY <1>0, <1>5, <1>6, <2>1, <3>1 DEF Trusted, Ghost
      <4>2. Linking(f, Pairs, L) = {}
        BY <4>1 DEF Whole, FreeUnlinked
      <4>3. Linking(f2, Pairs, L) = {<<L, Dot>>} \cup {<<Root, LostFound>>}
        BY <1>4, <4>1, <4>2
      <4>4. <<Root, LostFound>> \notin {<<L, Dot>>}
        BY <4>1
      <4>5. Cardinality(Linking(f2, Pairs, L)) = 2
        <5>1. PICK A : A = {<<L, Dot>>}
          OBVIOUS
        <5>2. IsFiniteSet(A) /\ Cardinality(A) = 1
          BY <5>1, FS_Singleton
        <5>3. PICK x : x = <<Root, LostFound>>
          OBVIOUS
        <5>4. x \notin A
          BY <4>4, <5>1, <5>3
        <5>5. Cardinality(A \cup {x}) = Cardinality(A) + 1
          BY <5>2, <5>4, FS_AddElement
        <5>6. QED
          BY <4>3, <5>1, <5>2, <5>3, <5>5
      <4>6. QED
        BY <1>0, <3>1, <4>1, <4>5
    <3>2. CASE k # L
      <4>1. k \notin l.outdated /\ f.mode[k] # "free" /\ ~Ghost(f, tw, None, D, k)
        BY <1>0, <1>3, <1>6, <1>7, <2>1, <3>2 DEF Trusted
      <4>2. Counted(l, k) = Cardinality(Linking(f, Pairs, k)) /\ IsFiniteSet(Linking(f, Pairs, k))
        BY <4>1, LinkingFinite DEF Whole, Counts, Trusted
      <4>3. CASE k # Root
        BY <1>0, <1>4, <3>2, <4>2, <4>3
      <4>4. CASE k = Root
        <5>1. L # Root
          BY <3>2, <4>4
        <5>2. Linking(f2, Pairs, Root) = Linking(f, Pairs, Root) \cup {<<L, DotDot>>}
          BY <1>4, <5>1
        <5>3. <<L, DotDot>> \notin Linking(f, Pairs, Root)
          BY LinkingIs DEF Points
        <5>4. QED
          BY <1>0, <4>2, <4>4, <5>1, <5>2, <5>3, FS_AddElement
      <4>5. QED
        BY <4>3, <4>4
    <3>3. QED
      BY <3>1, <3>2
  <2>2. QED
    BY <2>1 DEF Counts
<1>11. FreeUnlinked(f2, m, Pairs, D)
  <2>1. ASSUME NEW k \in Addrs, f2.mode[k] = "free", k \notin D, k \notin m.dirtree
        PROVE  Linking(f2, Pairs, k) = {}
    <3>1. k # L /\ k # Root
      BY <1>0, <1>6, <2>1
    <3>2. Linking(f, Pairs, k) = {}
      BY <1>0, <1>3, <2>1, <3>1 DEF Whole, FreeUnlinked
    <3>3. QED
      BY <1>4, <3>1, <3>2
  <2>2. QED
    BY <2>1 DEF FreeUnlinked
<1>12. DotDots(f2, m, tw, dd, L, Pairs, O \ {L}, D)
  <2>1. ASSUME NEW e \in Addrs, f2.mode[e] = "dir", e # L, <<e, DotDot>> \in Pairs
        PROVE  /\ dd[e] # None => Points(f2, e, DotDot, dd[e])
               /\ dd[e] = None /\ DotDot \in DOMAIN f2.ents[e] => Ghost(f2, tw, L, D, f2.ents[e][DotDot].to)
    <3>1. f.mode[e] = "dir" /\ e # None /\ ~InLf(f, None, e)
      BY <1>1, <1>3, <1>8, <2>1
    <3>2. /\ dd[e] # None => Points(f, e, DotDot, dd[e])
          /\ dd[e] = None /\ DotDot \in DOMAIN f.ents[e] => Ghost(f, tw, None, D, f.ents[e][DotDot].to)
      BY <2>1, <3>1 DEF Whole, DotDots
    <3>3. /\ DotDot \in DOMAIN f2.ents[e] <=> DotDot \in DOMAIN f.ents[e]
          /\ DotDot \in DOMAIN f.ents[e] => f2.ents[e][DotDot] = f.ents[e][DotDot]
      BY <1>1, <2>1 DEF Made
    <3>4. DotDot \in DOMAIN f.ents[e] => f.ents[e][DotDot].to \in Addrs
      BY DEF Whole, GoodFs, GoodEnts
    <3>5. QED
      BY <1>7, <2>1, <3>1, <3>2, <3>3, <3>4 DEF Points
  <2>2. \A e \in Addrs : dd[e] \in m.dirtree \cup {None} /\ (<<e, DotDot>> \notin Pairs => dd[e] = None)
    BY <1>0 DEF Whole, DotDots
  <2>3. DOMAIN dd = Addrs
    BY DEF Whole, DotDots
  <2>4. QED
    BY <2>1, <2>2, <2>3 DEF DotDots
<1>13. Reached(f2, tw, Pairs, O \ {L})
  <2>1. ASSUME NEW a \in Addrs, tw[a] # None
        PROVE  f2.mode[a] = "dir" /\ \E n \in Names \ Dots : <<tw[a], n>> \in Linking(f2, Pairs, a)
    <3>1. a # L /\ f.mode[a] = "dir"
      BY <1>5, <2>1 DEF Whole, Reached
    <3>2. PICK n \in Names \ Dots : <<tw[a], n>> \in Linking(f, Pairs, a)
      BY <2>1 DEF Whole, Reached
    <3>3. Linking(f, Pairs, a) \subseteq Linking(f2, Pairs, a)
      BY <1>4, <3>1
    <3>4. QED
      BY <1>3, <3>1, <3>2, <3>3
  <2>2. ASSUME NEW a \in Addrs, a \in O \ {L}, f2.mode[a] = "dir", tw[a] = None, NEW p \in Linking(f2, Pairs, a)
        PROVE  p[2] \in Dots
    <3>1. f.mode[a] = "dir" /\ \A q \in Linking(f, Pairs, a) : q[2] \in Dots
      BY <1>3, <2>2 DEF Whole, Reached
    <3>2. p \in Linking(f, Pairs, a) \/ p = <<L, DotDot>>
      BY <1>4, <2>2
    <3>3. QED
      BY <3>1, <3>2 DEF Dots
  <2>3. QED
    BY <2>1, <2>2 DEF Whole, Reached
<1>14. LostAndFound(f2, m, tw, L, Pairs, O \ {L})
  BY <1>1, <1>3, <1>4, <1>5 DEF LostAndFound
<1>15. NothingLost(f2, tw, L)
  <2>1. ASSUME NEW e \in f2.empty, f2.mode[e] = "dir", e # Root
        PROVE  DOMAIN f2.ents[e] \subseteq {Dot} \/ tw[e] # None
    <3>1. e \in Addrs /\ e # L /\ e \in f.empty
      BY <1>3, <2>1 DEF Whole, GoodNames
    <3>2. f2.ents[e] = f.ents[e] /\ f.mode[e] = "dir"
      BY <1>3, <2>1, <3>1 DEF Made
    <3>3. ~InLf(f, None, e)
      BY <1>8, <3>1
    <3>4. QED
      BY <2>1, <3>1, <3>2, <3>3 DEF Whole, NothingLost
  <2>2. QED
    BY <1>1, <1>5, <2>1 DEF NothingLost
<1>16. QED
  BY <1>0, <1>2, <1>9, <1>10, <1>11, <1>12, <1>13, <1>14, <1>15 DEF Whole

(* The directory that is made for it, in the first free block.             *)
LEMMA WithLfMade ==
  ASSUME LfPossible, LfMissing, GoodFs(fs)
  PROVE  /\ Lf \in Addrs /\ fs.mode[Lf] = "free" /\ (fs.mode[Root] = "free" => Lf = Root)
         /\ Made(fs, FsWithLf, Lf)
<1>1. PICK L : L = Lf
  OBVIOUS
<1>2. lf_dip = None /\ LostFound \notin DOMAIN fs.ents[Root] /\ Root \in Addrs
  BY RootIsAddr DEF LfMissing
<1>3. L = Min(FreeAddrs) /\ FreeAddrs # {} /\ FreeAddrs \subseteq Addrs
  BY <1>1, <1>2 DEF Lf, LowestFree, LfPossible, FreeAddrs
<1>4. L \in Addrs /\ fs.mode[L] = "free"
  BY <1>3, MinIsIn DEF FreeAddrs
<1>5. fs.mode[Root] = "free" => L = Root
  <2>1. \A a \in Addrs : a \in Nat /\ a >= 1
    BY DirLinksAssumption DEF Addrs
  <2>2. \E x \in FreeAddrs : \A y \in FreeAddrs : x <= y
    BY <1>3, <2>1, HasLeast
  <2>3. L \in FreeAddrs /\ \A y \in FreeAddrs : L <= y
    BY <1>3, <2>2 DEF Min
  <2>4. fs.mode[Root] = "free" => Root \in FreeAddrs
    BY <1>2 DEF FreeAddrs
  <2>5. QED
    BY <1>4, <2>1, <2>3, <2>4 DEF Root
<1> DEFINE base == With(fs, Root, LostFound, L)
           own == [n \in {Dot, DotDot} |-> Entry(IF n = Dot THEN L ELSE Root)]
<1>6. PICK g : g = FsWithLf
  OBVIOUS
<1>7. g = [base EXCEPT !.mode[L] = "dir", !.ents[L] = own,
                       !.nlink[L] = 2, !.nlink[Root] = @ + 1, !.empty = @ \ {L}]
  BY <1>1, <1>6 DEF FsWithLf
<1>8. Entered(fs, base, Root, LostFound, L) /\ GoodFs(base)
  BY <1>2, <1>4, WithEnters, WithGood
<1>9. own[Dot].to = L /\ own[DotDot].to = Root /\ DOMAIN own = Dots
  BY NamesApart DEF Entry, Dots
<1> HIDE DEF base, own
<1>10. /\ DOMAIN g = FsFields /\ g.mode = [base.mode EXCEPT ![L] = "dir"]
       /\ g.ents = [base.ents EXCEPT ![L] = own] /\ g.empty = base.empty \ {L}
  BY <1>7, <1>8 DEF GoodFs, FsFields
<1>11. Made(fs, g, L)
  <2>1. /\ DOMAIN g.ents = Addrs /\ g.ents[L] = own
        /\ \A a \in Addrs \ {L} : g.ents[a] = base.ents[a]
    BY <1>4, <1>8, <1>10 DEF GoodFs
  <2>2. g.mode = [fs.mode EXCEPT ![L] = "dir"] /\ g.empty = fs.empty \ {L}
    BY <1>8, <1>10 DEF Entered
  <2>3. L # Root =>
          /\ DOMAIN g.ents[Root] = DOMAIN fs.ents[Root] \cup {LostFound}
          /\ g.ents[Root][LostFound].to = L
          /\ \A n \in DOMAIN fs.ents[Root] : g.ents[Root][n] = fs.ents[Root][n]
    BY <1>2, <1>8, <2>1 DEF Entered
  <2>4. \A a \in Addrs \ {L, Root} : g.ents[a] = fs.ents[a]
    BY <1>8, <2>1 DEF Entered
  <2>5. QED
    BY <1>9, <1>10, <2>1, <2>2, <2>3, <2>4 DEF Made
<1>12. QED
  BY <1>1, <1>4, <1>5, <1>6, <1>11

(* The records of it: its own, unless there is one of what was there, and  *)
(* one link more to the root.                                              *)
DiRecorded(l, m, L, k) == DOMAIN l.di_nlink = Addrs =>
    /\ DOMAIN m.di_nlink = Addrs /\ \A b \in Addrs \ {L, Root} : m.di_nlink[b] = l.di_nlink[b]
    /\ L # Root => m.di_nlink[Root] = k
    /\ L \notin l.dirtree => m.di_nlink[L] = 0

LEMMA LfIsRecorded ==
  ASSUME LfPossible, LfMissing, GoodFs(fs), GoodLinks(links), GoodCounts(links),
         links.outdated = {}, Root \in links.dirtree
  PROVE  LfRecorded(links, LinksWithLf, Lf) /\ DiRecorded(links, LinksWithLf, Lf, FsWithLf.nlink[Root])
<1>1. PICK L, k : L = Lf /\ k = FsWithLf.nlink[Root]
  OBVIOUS
<1>2. L \in Addrs /\ fs.mode[L] = "free" /\ lf_dip = None /\ Root \in Addrs
  BY <1>1, WithLfMade, RootIsAddr DEF LfMissing
<1>3. PICK sy : sy = [links EXCEPT !.di_nlink[Root] = k]
  OBVIOUS
<1>4. PICK ins : ins = IF L \in links.dirtree
                       THEN [sy EXCEPT !.outdated = @ \union {L}]
                       ELSE [sy EXCEPT !.dirtree = @ \union {L}, !.di_nlink[L] = 0, !.counted_links[L] = 0]
  OBVIOUS
<1>5. PICK m1 : m1 = IncrLinkCount(ins, L)
  OBVIOUS
<1>6. PICK m2 : m2 = IncrLinkCount(m1, L)
  OBVIOUS
<1>7. PICK m : m = IncrLinkCount(m2, Root)
  OBVIOUS
<1>8. m = LinksWithLf
  BY <1>1, <1>2, <1>3, <1>4, <1>5, <1>6, <1>7 DEF LinksWithLf
<1>9. /\ GoodLinks(sy) /\ GoodCounts(sy) /\ SameTrees(links, sy)
      /\ sy.inodetree = links.inodetree /\ sy.nlink1map = links.nlink1map
      /\ \A j : Counted(sy, j) = Counted(links, j)
      /\ sy.di_nlink = [links.di_nlink EXCEPT ![Root] = k]
  <2>1. sy.di_nlink = [links.di_nlink EXCEPT ![Root] = k]
    BY <1>3 DEF GoodLinks, LinkFields
  <2>2. /\ GoodLinks(sy) /\ GoodCounts(sy) /\ SameTrees(links, sy)
        /\ sy.inodetree = links.inodetree /\ sy.nlink1map = links.nlink1map
        /\ \A j : Counted(sy, j) = Counted(links, j)
    <3>1. PICK l : l = links
      OBVIOUS
    <3>2. GoodLinks(l) /\ GoodCounts(l) /\ sy = [l EXCEPT !.di_nlink[Root] = k]
      BY <1>3, <3>1
    <3>3. /\ GoodLinks(sy) /\ GoodCounts(sy) /\ SameTrees(l, sy)
          /\ sy.inodetree = l.inodetree /\ sy.nlink1map = l.nlink1map
          /\ \A j : Counted(sy, j) = Counted(l, j)
      BY <3>2 DEF GoodLinks, GoodCounts, SameTrees, LinkFields, Counted
    <3>4. QED
      BY <3>1, <3>3
  <2>3. QED
    BY <2>1, <2>2
<1>10. /\ DOMAIN ins = LinkFields
       /\ ins.dirtree = links.dirtree \cup {L}
       /\ ins.outdated = IF L \in links.dirtree THEN links.outdated \cup {L} ELSE links.outdated
       /\ ins.inodetree = links.inodetree /\ ins.nlink1map = links.nlink1map
       /\ ins.clink1map = sy.clink1map
       /\ ins.counted_links = IF L \in links.dirtree THEN sy.counted_links
                              ELSE [sy.counted_links EXCEPT ![L] = 0]
       /\ ins.di_nlink = IF L \in links.dirtree THEN sy.di_nlink ELSE [sy.di_nlink EXCEPT ![L] = 0]
  BY <1>4, <1>9 DEF GoodLinks, LinkFields, SameTrees
<1>11. GoodLinks(ins) /\ GoodCounts(ins)
  <2>1. GoodLinks(ins)
    BY <1>2, <1>9, <1>10 DEF GoodLinks, SameTrees
  <2>2. ins.counted_links \in [Addrs -> Nat] /\ ins.clink1map \subseteq Addrs
    <3>1. sy.counted_links \in [Addrs -> Nat] /\ sy.clink1map \subseteq Addrs
      BY <1>9 DEF GoodCounts
    <3>2. [sy.counted_links EXCEPT ![L] = 0] \in [Addrs -> Nat]
      BY <3>1
    <3>3. QED
      BY <1>10, <3>1, <3>2
  <2>3. QED
    BY <1>9, <1>10, <2>1, <2>2 DEF GoodCounts
<1>12. /\ \A j \in Addrs : j # L => Counted(ins, j) = Counted(links, j)
       /\ L \notin links.dirtree => Counted(ins, L) = 0
  <2>1. \A j \in Addrs : j # L => Counted(ins, j) = Counted(sy, j)
    BY <1>9, <1>10 DEF Counted, SameTrees
  <2>2. L \notin links.dirtree => Counted(ins, L) = 0
    BY <1>2, <1>9, <1>10 DEF Counted, GoodCounts
  <2>3. QED
    BY <1>9, <2>1, <2>2
<1>13. L \in ins.dirtree /\ Root \in ins.dirtree /\ (L \in ins.outdated <=> L \in links.dirtree)
       /\ (Root \in ins.outdated <=> Root = L)
  BY <1>10
<1>14. /\ GoodLinks(m1) /\ GoodCounts(m1) /\ SameTrees(ins, m1) /\ SameRest(ins, m1)
       /\ \A j \in Addrs : Counted(m1, j) =
             IF j = L /\ L \notin ins.outdated THEN Counted(ins, j) + 1 ELSE Counted(ins, j)
       /\ m1.di_nlink = ins.di_nlink
  BY <1>2, <1>5, <1>11, <1>13, IncrCounts, IncrDi
<1>15. /\ GoodLinks(m2) /\ GoodCounts(m2) /\ SameTrees(m1, m2) /\ SameRest(m1, m2)
       /\ \A j \in Addrs : Counted(m2, j) =
             IF j = L /\ L \notin m1.outdated THEN Counted(m1, j) + 1 ELSE Counted(m1, j)
       /\ m2.di_nlink = ins.di_nlink
  <2>1. L \in m1.dirtree /\ GoodLinks(m1) /\ GoodCounts(m1) /\ m1.di_nlink = ins.di_nlink
    BY <1>2, <1>6, <1>13, <1>14 DEF SameTrees
  <2>2. /\ GoodLinks(m2) /\ GoodCounts(m2) /\ SameTrees(m1, m2) /\ SameRest(m1, m2)
        /\ \A j \in Addrs : Counted(m2, j) =
              IF j = L /\ L \notin m1.outdated THEN Counted(m1, j) + 1 ELSE Counted(m1, j)
    BY <1>2, <1>6, <2>1, IncrCounts, IncrDir
  <2>3. m2.di_nlink = ins.di_nlink
    BY <1>2, <1>6, <2>1, IncrDi
  <2>4. QED
    BY <2>2, <2>3
<1>16. /\ GoodLinks(m) /\ GoodCounts(m) /\ SameTrees(m2, m) /\ SameRest(m2, m)
       /\ \A j \in Addrs : Counted(m, j) =
             IF j = Root /\ Root \notin m2.outdated THEN Counted(m2, j) + 1 ELSE Counted(m2, j)
       /\ m.di_nlink = ins.di_nlink
  <2>1. Root \in m2.dirtree /\ GoodLinks(m2) /\ GoodCounts(m2) /\ m2.di_nlink = ins.di_nlink
    BY <1>2, <1>7, <1>13, <1>14, <1>15 DEF SameTrees
  <2>2. /\ GoodLinks(m) /\ GoodCounts(m) /\ SameTrees(m2, m) /\ SameRest(m2, m)
        /\ \A j \in Addrs : Counted(m, j) =
              IF j = Root /\ Root \notin m2.outdated THEN Counted(m2, j) + 1 ELSE Counted(m2, j)
    BY <1>2, <1>7, <2>1, IncrCounts, IncrDir
  <2>3. m.di_nlink = ins.di_nlink
    BY <1>2, <1>7, <2>1, IncrDi
  <2>4. QED
    BY <2>2, <2>3
<1>17. /\ m.dirtree = links.dirtree \cup {L}
       /\ m.outdated = IF L \in links.dirtree THEN links.outdated \cup {L} ELSE links.outdated
       /\ m.inodetree = links.inodetree /\ m.nlink1map = links.nlink1map
       /\ m1.outdated = ins.outdated /\ m2.outdated = ins.outdated
  BY <1>10, <1>14, <1>15, <1>16 DEF SameTrees, SameRest
<1>18. \A j \in Addrs : j # L /\ j # Root => Counted(m, j) = Counted(links, j)
  BY <1>12, <1>14, <1>15, <1>16
<1>19. L # Root => Counted(m, Root) = Counted(links, Root) + 1
  BY <1>2, <1>12, <1>13, <1>14, <1>15, <1>16, <1>17
<1>20. L \notin links.dirtree => Counted(m, L) = 2
  BY <1>2, <1>12, <1>13, <1>14, <1>15, <1>16, <1>17
<1>21. LfRecorded(links, m, L)
  BY <1>16, <1>17, <1>18, <1>19, <1>20 DEF LfRecorded, SameRest
<1>22. DiRecorded(links, m, L, k)
  <2>1. SUFFICES ASSUME DOMAIN links.di_nlink = Addrs
                 PROVE  /\ DOMAIN m.di_nlink = Addrs
                        /\ \A b \in Addrs \ {L, Root} : m.di_nlink[b] = links.di_nlink[b]
                        /\ L # Root => m.di_nlink[Root] = k
                        /\ L \notin links.dirtree => m.di_nlink[L] = 0
    BY DEF DiRecorded
  <2>2. QED
    BY <1>2, <1>9, <1>10, <1>16, <2>1
<1>23. QED
  BY <1>1, <1>8, <1>21, <1>22

(* make_sure_lf_exists, whether it finds the directory or makes it.        *)
LEMMA WholeWithLf ==
  ASSUME LfPossible, NEW tw, NEW dd, NEW O, NEW D, Whole(fs, links, tw, dd, lf_dip, Pairs, O, D)
  PROVE  /\ Lf \in Addrs /\ Whole(FsWithLf, LinksWithLf, tw, dd, Lf, Pairs, O \ {Lf}, D)
         /\ FsWithLf = fs \/ DOMAIN FsWithLf.ents[Lf] = Dots
         /\ \A a \in Addrs \ {Lf} : FsWithLf.mode[a] = fs.mode[a]
         /\ lf_dip \in {None, Lf}
<1>1. Root \in Addrs /\ None \notin Addrs
  BY RootIsAddr
<1>2. CASE lf_dip # None
  <2>1. Lf = lf_dip /\ FsWithLf = fs /\ LinksWithLf = links
    BY <1>2 DEF Lf, LfMissing, FsWithLf, LinksWithLf
  <2>2. lf_dip \in Addrs
    BY <1>2 DEF Whole, LostAndFound
  <2>3. Whole(fs, links, tw, dd, lf_dip, Pairs, O \ {lf_dip}, D)
    BY WholeShrinks
  <2>4. QED
    BY <1>2, <2>1, <2>2, <2>3
<1>3. CASE lf_dip = None /\ ~LfMissing
  <2>1. PICK k : LinksWithLf = [links EXCEPT !.di_nlink[Root] = k]
    BY <1>3 DEF LinksWithLf, LfMissing
  <2>2. Lf = fs.ents[Root][LostFound].to /\ FsWithLf = fs /\ LostFound \in DOMAIN fs.ents[Root]
    BY <1>3 DEF Lf, LfMissing, FsWithLf
  <2>3. Lf \in Addrs
    BY <1>1, <2>2 DEF Whole, GoodFs, GoodEnts
  <2>4. Whole(fs, links, tw, dd, None, Pairs, O, D)
    BY <1>3
  <2>5. Whole(fs, links, tw, dd, Lf, Pairs, O \ {Lf}, D)
    BY <2>2, <2>4, WholeFound
  <2>6. Whole(fs, LinksWithLf, tw, dd, Lf, Pairs, O \ {Lf}, D)
    BY <2>1, <2>5, WholeSync
  <2>7. QED
    BY <1>3, <2>2, <2>3, <2>6
<1>4. CASE LfMissing
  <2>1. PICK L, g, m : L = Lf /\ g = FsWithLf /\ m = LinksWithLf
    OBVIOUS
  <2>2. lf_dip = None /\ LostFound \notin DOMAIN fs.ents[Root]
    BY <1>4 DEF LfMissing
  <2>3. Whole(fs, links, tw, dd, None, Pairs, O, D)
    BY <2>2
  <2>4. links.outdated = {} /\ Root \in links.dirtree
    BY <2>3 DEF Whole, Records
  <2>5. L \in Addrs /\ fs.mode[L] = "free" /\ (fs.mode[Root] = "free" => L = Root) /\ Made(fs, g, L)
    BY <1>4, <2>1, <2>3, WithLfMade DEF Whole
  <2>6. LfRecorded(links, m, L)
    BY <1>4, <2>1, <2>3, <2>4, LfIsRecorded DEF Whole
  <2>7. Whole(g, m, tw, dd, L, Pairs, O \ {L}, D)
    BY <2>2, <2>3, <2>5, <2>6, WholeMade
  <2>8. DOMAIN g.ents[L] = Dots /\ \A a \in Addrs \ {L} : g.mode[a] = fs.mode[a]
    BY <2>3, <2>5 DEF Made, Whole, GoodNames
  <2>9. QED
    BY <2>1, <2>2, <2>5, <2>7, <2>8
<1>5. QED
  BY <1>2, <1>3, <1>4 DEF LfMissing

-----------------------------------------------------------------------------
(* add_inode_to_lf, for what no name in a lost+found holds yet.            *)
Loose(f, D, i) ==
    f.mode[i] = "dir" \/ i \notin D =>
        \A a \in Addrs : <<a, LostName(i)>> \notin Linking(f, Pairs, i)

LEMMA EnteredSame ==
  ASSUME NEW f, NEW g, NEW f2, NEW d, NEW n, NEW i, Entered(g, f2, d, n, i),
         g.mode = f.mode, g.ents = f.ents, g.empty = f.empty
  PROVE  Entered(f, f2, d, n, i)
  BY DEF Entered

LEMMA WholeAttached ==
  ASSUME LfPossible, NEW tw, NEW O, NEW D, Whole(fs, links, tw, dotdot_parent, lf_dip, Pairs, O, D),
         NEW i \in Addrs, fs.mode[i] # "free", Loose(fs, D, i), i # Lf
  PROVE  Whole(FsAttached(i), LinksAttached(i), tw, dotdot_parent, Lf, Pairs, (O \ {Lf}) \ {i}, D)
<1>1. PICK L : L = Lf
  OBVIOUS
<1>2. PICK f : f = FsWithLf
  OBVIOUS
<1>3. PICK l : l = LinksWithLf
  OBVIOUS
<1>4. PICK O2 : O2 = (O \ {L}) \ {i}
  OBVIOUS
<1>5. PICK dd : dd = dotdot_parent
  OBVIOUS
<1>6. /\ L \in Addrs /\ Whole(f, l, tw, dd, L, Pairs, O \ {L}, D)
      /\ f = fs \/ DOMAIN f.ents[L] = Dots
      /\ \A a \in Addrs \ {L} : f.mode[a] = fs.mode[a]
  BY <1>1, <1>2, <1>3, <1>5, WholeWithLf
<1>7. Whole(f, l, tw, dd, L, Pairs, O2, D) /\ i \notin O2 /\ i # L /\ L # None
  BY <1>1, <1>4, <1>6, WholeShrinks, RootIsAddr
<1>8. f.mode[i] = fs.mode[i] /\ f.mode[i] # "free" /\ f.mode[L] = "dir" /\ (tw[L] = None => L \notin f.empty)
  BY <1>6, <1>7 DEF Whole, LostAndFound
<1>9. /\ LostName(i) \in Names /\ LostName(i) \notin Dots
      /\ <<L, LostName(i)>> \in Pairs /\ <<i, DotDot>> \in Pairs /\ DotDot \in Names
  BY <1>6, NamesApart DEF Pairs
<1>10. f.mode[i] = "dir" \/ i \notin D => LostName(i) \notin DOMAIN f.ents[L]
  <2>1. CASE DOMAIN f.ents[L] = Dots
    BY <1>9, <2>1
  <2>2. CASE f = fs
    <3>1. LostName(i) \in DOMAIN f.ents[L] => Points(f, L, LostName(i), i)
      BY <1>6, <1>8 DEF Whole, GoodNames, Points
    <3>2. LostName(i) \in DOMAIN f.ents[L] => <<L, LostName(i)>> \in Linking(fs, Pairs, i)
      BY <1>9, <2>2, <3>1, LinkingIs
    <3>3. QED
      BY <1>6, <1>8, <3>2 DEF Loose
  <2>3. QED
    BY <1>6, <2>1, <2>2
<1>11. PICK fa : fa = With(f, L, LostName(i), i)
  OBVIOUS
<1>12. PICK la : la = IncrLinkCount(l, i)
  OBVIOUS
<1>13. Entered(f, fa, L, LostName(i), i) /\ GoodFs(fa)
  BY <1>6, <1>11, WithEnters, WithGood DEF Whole
<1>14. Enterable(f, l, tw, L, O2, L, LostName(i), i)
  BY <1>7, <1>8, RootIsAddr DEF Enterable
<1>15. Trusted(f, l, tw, L, D, i) => LostName(i) \notin DOMAIN f.ents[L]
  BY <1>10 DEF Trusted, Ghost
<1>16. Whole(fa, la, tw, dd, L, Pairs, O2, D)
  BY <1>6, <1>7, <1>9, <1>12, <1>13, <1>14, <1>15, WholeEntered DEF Dots
<1>17. CASE fs.mode[i] # "dir"
  <2>1. FsAttached(i) = fa /\ LinksAttached(i) = la
    BY <1>1, <1>2, <1>3, <1>11, <1>12, <1>17 DEF FsAttached, LinksAttached
  <2>2. QED
    BY <1>1, <1>4, <1>5, <1>16, <2>1
<1>18. CASE fs.mode[i] = "dir"
  <2>1. ~InLf(f, L, i)
    BY <1>8, <1>10, <1>18 DEF InLf
  <2>2. /\ dd[i] # None => Points(f, i, DotDot, dd[i])
        /\ dd[i] = None /\ DotDot \in DOMAIN f.ents[i] => Ghost(f, tw, L, D, f.ents[i][DotDot].to)
        /\ dd[i] \in l.dirtree \cup {None}
    BY <1>7, <1>8, <1>9, <1>18, <2>1 DEF Whole, DotDots
  <2>3. fa.ents[i] = f.ents[i] /\ fa.mode = f.mode /\ fa.empty = f.empty
    BY <1>7, <1>13 DEF Entered
  <2>4. /\ dd[i] # None => Points(fa, i, DotDot, dd[i])
        /\ dd[i] = None /\ DotDot \in DOMAIN fa.ents[i] => Ghost(fa, tw, L, D, fa.ents[i][DotDot].to)
    BY <2>2, <2>3 DEF Points, Ghost
  <2>5. InLf(fa, L, i)
    BY <1>7, <1>13 DEF InLf, Entered
  <2>6. Enterable(fa, la, tw, L, O2, i, DotDot, L)
    <3>1. \A j \in Addrs : DotDot # LostName(j)
      BY NamesApart DEF Dots
    <3>2. QED
      BY <1>6, <1>7, <1>8, <1>18, <2>3, <2>5, <3>1 DEF Enterable
  <2> DEFINE undone == IF UndoesDotDot(i) THEN DecrLinkCount(LinksWithLf, OldParent(i)) ELSE LinksWithLf
             synced == IF DotDotUndone(i)
                       THEN [undone EXCEPT !.di_nlink[OldParent(i)] = FsWithLf.nlink[OldParent(i)] - 1]
                       ELSE undone
             less == IF DotDotUndone(i) /\ OldParent(i) # i
                     THEN [fa EXCEPT !.nlink[OldParent(i)] = @ - 1] ELSE fa
  <2>7. PICK un : un = undone
    OBVIOUS
  <2>8. PICK sy : sy = synced
    OBVIOUS
  <2>9. PICK fl : fl = less
    OBVIOUS
  <2>10. PICK old : old = OldParent(i) /\ old = dd[i]
    BY <1>5 DEF OldParent
  <2>11. un = IF old # None /\ old \notin l.outdated THEN DecrLinkCount(l, old) ELSE l
    BY <1>3, <2>7, <2>10 DEF UndoesDotDot
  <2>12. sy = un \/ \E k : sy = [un EXCEPT !.di_nlink[old] = k]
    BY <2>7, <2>8, <2>10
  <2>13. fl = fa \/ \E k : fl = [fa EXCEPT !.nlink[old] = k]
    BY <2>9, <2>10
  <2>14. FsAttached(i) = With(fl, i, DotDot, L) /\ LinksAttached(i) = IncrLinkCount(IncrLinkCount(sy, i), L)
    BY <1>1, <1>2, <1>3, <1>11, <1>18, <2>8, <2>9 DEF FsAttached, LinksAttached
  <2> HIDE DEF undone, synced, less
  <2>15. /\ GoodFs(fl) /\ fl.mode = fa.mode /\ fl.ents = fa.ents /\ fl.empty = fa.empty
    BY <1>13, <2>13, NlinkGood DEF GoodFs, FsFields
  <2>16. PICK f2 : f2 = With(fl, i, DotDot, L)
    OBVIOUS
  <2>17. Entered(fa, f2, i, DotDot, L)
    BY <2>15, <2>16, WithEnters, EnteredSame
  <2>18. old # None => old \in Addrs
    BY <1>7, <2>2, <2>10 DEF Whole, GoodLinks
  <2>19. /\ GoodLinks(un) /\ GoodCounts(un) /\ SameTrees(l, un) /\ SameRest(l, un)
         /\ \A k \in Addrs : Counted(un, k) =
               IF k = old /\ old \notin l.outdated /\ Counted(l, k) > 0 THEN Counted(l, k) - 1 ELSE Counted(l, k)
    <3>1. GoodLinks(l) /\ GoodCounts(l)
      BY <1>7 DEF Whole
    <3>2. CASE old # None /\ old \notin l.outdated
      BY <2>11, <2>18, <3>1, <3>2, DecrCounts DEF SameRest
    <3>3. CASE ~(old # None /\ old \notin l.outdated)
      BY <2>11, <3>1, <3>3, RootIsAddr DEF SameRest, SameTrees
    <3>4. QED
      BY <3>2, <3>3
  <2>20. /\ GoodLinks(sy) /\ GoodCounts(sy) /\ SameTrees(un, sy) /\ SameRest(un, sy)
         /\ \A k : Counted(sy, k) = Counted(un, k)
    <3>1. CASE sy = un
      BY <2>19, <3>1 DEF SameTrees, SameRest
    <3>2. CASE \E k : sy = [un EXCEPT !.di_nlink[old] = k]
      <4>1. PICK k : sy = [un EXCEPT !.di_nlink[old] = k]
        BY <3>2
      <4>2. QED
        BY <2>19, <4>1, SyncCounts DEF SameRest
    <3>3. QED
      BY <2>12, <3>1, <3>2
  <2>21. PICK l2 : l2 = IncrLinkCount(sy, i)
    OBVIOUS
  <2>22. /\ GoodLinks(l2) /\ GoodCounts(l2) /\ SameTrees(sy, l2)
         /\ \A k \in Addrs : Counted(l2, k) =
               IF k = i /\ i \notin sy.outdated THEN Counted(sy, k) + 1 ELSE Counted(sy, k)
    BY <2>20, <2>21, IncrCounts
  <2>23. /\ SameTrees(l, la)
         /\ \A k \in Addrs : Counted(la, k) =
               IF k = i /\ i \notin l.outdated THEN Counted(l, k) + 1 ELSE Counted(l, k)
    BY <1>7, <1>12, IncrCounts DEF Whole
  <2>24. SameTrees(l, sy) /\ SameTrees(la, l2) /\ sy.outdated = l.outdated
    BY <2>19, <2>20, <2>22, <2>23 DEF SameTrees
  <2>25. Records(fa, l2, tw, L, O2)
    <3>1. Records(f, l, tw, L, O2)
      BY <1>7 DEF Whole
    <3>2. Records(f, sy, tw, L, O2)
      BY <2>19, <2>20, <2>24, <3>1, SameRecords DEF SameRest
    <3>3. Records(fa, sy, tw, L, O2)
      BY <2>3, <3>2 DEF Records
    <3>4. QED
      BY <2>20, <2>21, <3>3, IncrRecords
  <2>26. ASSUME NEW k \in Addrs, Trusted(fa, la, tw, L, D, k)
         PROVE  Counted(l2, k) = IF k = dd[i] THEN Counted(la, k) - 1 ELSE Counted(la, k)
    <3>1. k \notin l.outdated /\ Trusted(f, l, tw, L, D, k)
      BY <2>3, <2>23, <2>26 DEF Trusted, SameTrees, Ghost
    <3>2. Counted(l, k) \in Nat
      BY <1>7, CountedIsNat DEF Whole
    <3>3. k = dd[i] => Counted(l, k) > 0
      <4>1. SUFFICES ASSUME k = dd[i] PROVE Counted(l, k) > 0
        OBVIOUS
      <4>2. <<i, DotDot>> \in Linking(f, Pairs, k)
        BY <1>9, <2>2, <4>1, LinkingIs, RootIsAddr
      <4>3. Counted(l, k) = Cardinality(Linking(f, Pairs, k)) /\ IsFiniteSet(Linking(f, Pairs, k))
        BY <1>7, <3>1, LinkingFinite DEF Whole, Counts
      <4>4. Cardinality(Linking(f, Pairs, k)) # 0
        BY <4>2, <4>3, FS_EmptySet
      <4>5. QED
        BY <3>2, <4>3, <4>4
    <3>4. Counted(un, k) = IF k = old THEN Counted(l, k) - 1 ELSE Counted(l, k)
      BY <2>10, <2>19, <3>1, <3>3
    <3>5. QED
      BY <2>10, <2>20, <2>22, <2>23, <2>24, <3>2, <3>4
  <2>27. Whole(f2, IncrLinkCount(l2, L), tw, dd, L, Pairs, O2, D)
    BY <1>6, <1>7, <1>9, <1>16, <2>4, <2>5, <2>6, <2>17, <2>22, <2>24, <2>25, <2>26, WholeDotDot
  <2>28. QED
    BY <1>1, <1>4, <1>5, <2>14, <2>16, <2>21, <2>27
<1>19. QED
  BY <1>17, <1>18

-----------------------------------------------------------------------------
(* pass2 passes over what is no entry.                                     *)
Swept(f, S, S2) ==
    /\ S \subseteq S2 /\ S2 \subseteq Pairs
    /\ \A p \in S2 \ S : f.mode[p[1]] # "dir" \/ p[2] \notin DOMAIN f.ents[p[1]]

LEMMA WholeSwept ==
  ASSUME NEW f, NEW l, NEW tw, NEW dd, NEW S, NEW D, Whole(f, l, tw, dd, None, S, Addrs, D),
         NEW S2, Swept(f, S, S2)
  PROVE  Whole(f, l, tw, dd, None, S2, Addrs, D)
<1>1. \A k : Linking(f, S2, k) = Linking(f, S, k)
  BY DEF Linking, Points, Swept
<1>2. Counts(f, l, tw, None, S2, D) /\ FreeUnlinked(f, l, S2, D) /\ Reached(f, tw, S2, Addrs)
  BY <1>1 DEF Whole, Counts, FreeUnlinked, Reached
<1>3. ASSUME NEW e \in Addrs, <<e, DotDot>> \in S2 \ S
      PROVE  f.mode[e] # "dir" \/ DotDot \notin DOMAIN f.ents[e]
  BY <1>3 DEF Swept
<1>4. DotDots(f, l, tw, dd, None, S2, Addrs, D)
  <2>1. ASSUME NEW e \in Addrs
        PROVE  /\ <<e, DotDot>> \notin S2 => dd[e] = None
               /\ f.mode[e] = "dir" /\ <<e, DotDot>> \in S2 =>
                   /\ dd[e] # None => Points(f, e, DotDot, dd[e])
                   /\ dd[e] = None /\ DotDot \in DOMAIN f.ents[e] =>
                        Ghost(f, tw, None, D, f.ents[e][DotDot].to)
    <3>1. CASE <<e, DotDot>> \in S
      BY <3>1, RootIsAddr DEF Whole, DotDots, Swept
    <3>2. CASE <<e, DotDot>> \notin S
      <4>1. dd[e] = None
        BY <3>2 DEF Whole, DotDots
      <4>2. QED
        BY <1>3, <3>2, <4>1
    <3>3. QED
      BY <3>1, <3>2
  <2>2. QED
    BY <2>1 DEF Whole, DotDots
<1>5. LostAndFound(f, l, tw, None, S2, Addrs)
  <2>1. Root \in Addrs /\ f.mode[Root] = "dir"
    BY RootIsAddr DEF Whole, Records
  <2>2. <<Root, LostFound>> \in S2 \ S => LostFound \notin DOMAIN f.ents[Root]
    BY <2>1 DEF Swept
  <2>3. QED
    BY <2>2 DEF Whole, LostAndFound
<1>6. QED
  BY <1>2, <1>4, <1>5 DEF Whole

(* It comes to one entry more.                                             *)
LEMMA OneMore ==
  ASSUME NEW f, NEW S, NEW d, NEW n, NEW i, Points(f, d, n, i), NEW k
  PROVE  Linking(f, S \cup {<<d, n>>}, k) = Linking(f, S, k) \cup (IF k = i THEN {<<d, n>>} ELSE {})
<1>1. Points(f, d, n, k) <=> k = i
  BY DEF Points
<1>2. QED
  BY <1>1 DEF Linking

(* The entry is left, and its dinode is one that was asked about.          *)
LEMMA WholeLeft ==
  ASSUME NEW f, NEW l, NEW tw, NEW dd, NEW S, NEW D, Whole(f, l, tw, dd, None, S, Addrs, D),
         NEW d \in Addrs, NEW n \in Names, NEW i \in Addrs, Points(f, d, n, i), <<d, n>> \notin S,
         i \in D, f.mode[i] # "dir"
  PROVE  Whole(f, l, tw, dd, None, S \cup {<<d, n>>}, Addrs, D)
<1>1. PICK S2 : S2 = S \cup {<<d, n>>}
  OBVIOUS
<1>2. \A k : Linking(f, S2, k) = Linking(f, S, k) \cup (IF k = i THEN {<<d, n>>} ELSE {})
  BY <1>1, OneMore
<1>3. Ghost(f, tw, None, D, i)
  BY DEF Ghost
<1>4. Counts(f, l, tw, None, S2, D) /\ FreeUnlinked(f, l, S2, D)
  <2>1. \A k : k # i => Linking(f, S2, k) = Linking(f, S, k)
    BY <1>2
  <2>2. QED
    BY <1>3, <2>1 DEF Whole, Counts, FreeUnlinked, Trusted
<1>5. Reached(f, tw, S2, Addrs)
  <2>1. \A k : f.mode[k] = "dir" => Linking(f, S2, k) = Linking(f, S, k)
    BY <1>2
  <2>2. QED
    BY <2>1 DEF Whole, Reached
<1>6. DotDots(f, l, tw, dd, None, S2, Addrs, D)
  <2>1. ASSUME NEW e \in Addrs, f.mode[e] = "dir", <<e, DotDot>> \in S2 \ S
        PROVE  dd[e] = None /\ (DotDot \in DOMAIN f.ents[e] => Ghost(f, tw, None, D, f.ents[e][DotDot].to))
    <3>1. e = d /\ n = DotDot
      BY <1>1, <2>1
    <3>2. dd[e] = None
      BY <2>1 DEF Whole, DotDots
    <3>3. QED
      BY <1>3, <3>1, <3>2 DEF Points
  <2>2. S \subseteq S2
    BY <1>1
  <2>3. QED
    BY <2>1, <2>2 DEF Whole, DotDots
<1>7. LostAndFound(f, l, tw, None, S2, Addrs)
  <2>1. ASSUME <<Root, LostFound>> \in S2 \ S, LostFound \in DOMAIN f.ents[Root] PROVE FALSE
    <3>1. d = Root /\ n = LostFound
      BY <1>1, <2>1
    <3>2. f.mode[i] = "dir"
      BY <2>1, <3>1 DEF Whole, LostAndFound, Points
    <3>3. QED
      BY <3>2
  <2>2. QED
    BY <2>1 DEF Whole, LostAndFound
<1>8. QED
  BY <1>1, <1>4, <1>5, <1>6, <1>7 DEF Whole

(* The entry is taken out.                                                 *)
Removed(f, f2, d, n) ==
    /\ f2.mode = f.mode /\ f2.empty = f.empty /\ DOMAIN f2.ents = Addrs
    /\ \A a \in Addrs \ {d} : f2.ents[a] = f.ents[a]
    /\ DOMAIN f2.ents[d] = DOMAIN f.ents[d] \ {n}
    /\ \A m \in DOMAIN f.ents[d] \ {n} : f2.ents[d][m] = f.ents[d][m]

LEMMA WithoutRemoves ==
  ASSUME GoodFs(fs), NEW d \in Addrs, NEW n
  PROVE  Removed(fs, Without(d, n), d, n)
<1>1. Without(d, n).ents = [fs.ents EXCEPT ![d] = Restrict(@, DOMAIN @ \ {n})]
  BY DEF Without, GoodFs, FsFields
<1>2. Without(d, n).mode = fs.mode /\ Without(d, n).empty = fs.empty
  BY DEF Without, GoodFs, FsFields
<1>3. QED
  BY <1>1, <1>2 DEF GoodFs, Removed, Restrict

LEMMA WholeNuked ==
  ASSUME NEW f, NEW l, NEW tw, NEW dd, NEW S, NEW D, S \subseteq Pairs,
         Whole(f, l, tw, dd, None, S, Addrs, D),
         NEW d \in Addrs, NEW n \in Names, <<d, n>> \notin S, NEW f2, GoodFs(f2), Removed(f, f2, d, n)
  PROVE  Whole(f2, l, tw, dd, None, S \cup {<<d, n>>}, Addrs, D)
<1>1. PICK S2 : S2 = S \cup {<<d, n>>}
  OBVIOUS
<1>2. f2.mode = f.mode /\ f2.empty = f.empty /\ \A k : Ghost(f2, tw, None, D, k) <=> Ghost(f, tw, None, D, k)
  BY DEF Removed, Ghost
<1>3. ASSUME NEW a \in Addrs
      PROVE  /\ DOMAIN f2.ents[a] \subseteq DOMAIN f.ents[a]
             /\ \A m \in DOMAIN f2.ents[a] : f2.ents[a][m] = f.ents[a][m]
             /\ \A m \in DOMAIN f.ents[a] : <<a, m>> # <<d, n>> => m \in DOMAIN f2.ents[a]
  BY DEF Removed
<1>4. n \notin DOMAIN f2.ents[d]
  BY DEF Removed
<1>5. \A k : Linking(f2, S2, k) = Linking(f, S, k)
  <2>1. ASSUME NEW p \in S, NEW k PROVE Points(f2, p[1], p[2], k) <=> Points(f, p[1], p[2], k)
    <3>1. p[1] \in Addrs /\ p = <<p[1], p[2]>> /\ p # <<d, n>>
      BY PairIs
    <3>2. p[2] \in DOMAIN f2.ents[p[1]] <=> p[2] \in DOMAIN f.ents[p[1]]
      BY <1>3, <3>1
    <3>3. QED
      BY <1>2, <1>3, <3>1, <3>2 DEF Points
  <2>2. \A k : ~Points(f2, d, n, k)
    BY <1>4 DEF Points
  <2>3. QED
    BY <1>1, <2>1, <2>2 DEF Linking
<1>6. GoodNames(f2)
  BY <1>2, <1>3 DEF Whole, GoodNames
<1>7. Records(f2, l, tw, None, Addrs)
  BY <1>2 DEF Whole, Records
<1>8. Counts(f2, l, tw, None, S2, D) /\ FreeUnlinked(f2, l, S2, D)
  BY <1>2, <1>5 DEF Whole, Counts, FreeUnlinked, Trusted
<1>9. Reached(f2, tw, S2, Addrs)
  BY <1>2, <1>5 DEF Whole, Reached
<1>10. DotDots(f2, l, tw, dd, None, S2, Addrs, D)
  <2>1. ASSUME NEW e \in Addrs
        PROVE  /\ dd[e] \in l.dirtree \cup {None}
               /\ <<e, DotDot>> \notin S2 => dd[e] = None
               /\ f2.mode[e] = "dir" /\ <<e, DotDot>> \in S2 =>
                   /\ dd[e] # None => Points(f2, e, DotDot, dd[e])
                   /\ dd[e] = None /\ DotDot \in DOMAIN f2.ents[e] =>
                        Ghost(f2, tw, None, D, f2.ents[e][DotDot].to)
    <3>1. /\ dd[e] \in l.dirtree \cup {None}
          /\ <<e, DotDot>> \notin S => dd[e] = None
          /\ f.mode[e] = "dir" /\ <<e, DotDot>> \in S =>
               /\ dd[e] # None => Points(f, e, DotDot, dd[e])
               /\ dd[e] = None /\ DotDot \in DOMAIN f.ents[e] => Ghost(f, tw, None, D, f.ents[e][DotDot].to)
      BY RootIsAddr DEF Whole, DotDots
    <3>2. CASE <<e, DotDot>> = <<d, n>>
      <4>1. e = d /\ n = DotDot /\ <<e, DotDot>> \notin S
        BY <3>2
      <4>2. QED
        BY <1>4, <3>1, <4>1
    <3>3. CASE <<e, DotDot>> # <<d, n>>
      <4>1. <<e, DotDot>> \in S2 <=> <<e, DotDot>> \in S
        BY <1>1, <3>3
      <4>2. /\ DotDot \in DOMAIN f2.ents[e] <=> DotDot \in DOMAIN f.ents[e]
            /\ DotDot \in DOMAIN f.ents[e] => f2.ents[e][DotDot] = f.ents[e][DotDot]
        BY <1>3, <3>3
      <4>3. QED
        BY <1>2, <3>1, <4>1, <4>2 DEF Points
    <3>4. QED
      BY <3>2, <3>3
  <2>2. DOMAIN dd = Addrs
    BY DEF Whole, DotDots
  <2>3. QED
    BY <2>1, <2>2 DEF DotDots
<1>11. LostAndFound(f2, l, tw, None, S2, Addrs)
  <2>1. ASSUME LostFound \in DOMAIN f2.ents[Root]
        PROVE  /\ LostFound \in DOMAIN f.ents[Root] /\ f2.ents[Root][LostFound] = f.ents[Root][LostFound]
               /\ <<Root, LostFound>> # <<d, n>>
    BY <1>3, <1>4, <2>1, RootIsAddr
  <2>2. LostFound \in DOMAIN f2.ents[Root] /\ <<Root, LostFound>> \in S2 => <<Root, LostFound>> \in S
    BY <1>1, <2>1
  <2>3. QED
    BY <1>2, <2>1, <2>2 DEF Whole, LostAndFound
<1>12. NothingLost(f2, tw, None)
  <2>1. f2.empty \subseteq Addrs
    BY <1>6 DEF GoodNames
  <2>2. QED
    BY <1>2, <1>3, <2>1 DEF Whole, NothingLost, InLf
<1>13. QED
  BY <1>1, <1>6, <1>7, <1>8, <1>9, <1>10, <1>11, <1>12 DEF Whole
-----------------------------------------------------------------------------
(* The entry is counted.                                                   *)
LEMMA WholeCounted ==
  ASSUME NEW f, NEW l, NEW tw, NEW dd, NEW S, NEW D, S \subseteq Pairs,
         Whole(f, l, tw, dd, None, S, Addrs, D),
         NEW d \in Addrs, NEW n \in Names, NEW i \in Addrs, Points(f, d, n, i), <<d, n>> \notin S,
         f.mode[i] = "free" => i \in D,
         NEW dd2, \/ n = DotDot /\ dd2 = [dd EXCEPT ![d] = i] /\ i \in l.dirtree
                  \/ dd2 = dd /\ (n = DotDot => i \in D /\ f.mode[i] # "dir"),
         NEW tw2, \/ tw2 = tw /\ (n \in Dots \/ f.mode[i] # "dir" \/ tw[i] # None)
                  \/ tw2 = [tw EXCEPT ![i] = d] /\ tw[i] = None /\ n \notin Dots /\ f.mode[i] = "dir",
         DOMAIN tw = Addrs
  PROVE  Whole(f, IncrLinkCount(l, i), tw2, dd2, None, S \cup {<<d, n>>}, Addrs, D)
<1>1. PICK S2 : S2 = S \cup {<<d, n>>}
  OBVIOUS
<1>2. \A k : Linking(f, S2, k) = Linking(f, S, k) \cup (IF k = i THEN {<<d, n>>} ELSE {})
  BY <1>1, OneMore
<1>3. PICK m : m = IncrLinkCount(l, i)
  OBVIOUS
<1>4. d # None /\ None \notin Addrs /\ Root \in Addrs
  BY RootIsAddr
<1>5. /\ GoodFs(f) /\ GoodLinks(l) /\ GoodNames(f) /\ GoodCounts(l)
      /\ Records(f, l, tw, None, Addrs) /\ Counts(f, l, tw, None, S, D) /\ FreeUnlinked(f, l, S, D)
      /\ DotDots(f, l, tw, dd, None, S, Addrs, D) /\ Reached(f, tw, S, Addrs)
      /\ LostAndFound(f, l, tw, None, S, Addrs) /\ NothingLost(f, tw, None)
  BY DEF Whole
<1>6. /\ GoodLinks(m) /\ GoodCounts(m) /\ SameTrees(l, m)
      /\ \A k \in Addrs : Counted(m, k) = IF k = i /\ i \notin l.outdated THEN Counted(l, k) + 1
                                          ELSE Counted(l, k)
  BY <1>3, <1>5, IncrCounts
<1>7. /\ \A a \in Addrs : tw[a] # None => tw2[a] # None
      /\ \A a \in Addrs : tw2[a] = tw[a] \/ (a = i /\ tw2[a] = d /\ f.mode[i] = "dir" /\ n \notin Dots)
  BY <1>4
<1>8. Records(f, m, tw2, None, Addrs)
  <2>1. Records(f, m, tw, None, Addrs)
    BY <1>3, <1>5, IncrRecords
  <2>2. QED
    BY <1>4, <2>1 DEF Records
<1>9. \A k \in Addrs : Ghost(f, tw2, None, D, k) <=> Ghost(f, tw, None, D, k)
  BY <1>4 DEF Ghost
<1>10. Counts(f, m, tw2, None, S2, D)
  <2>1. ASSUME NEW k \in Addrs, Trusted(f, m, tw2, None, D, k)
        PROVE  Counted(m, k) = Cardinality(Linking(f, S2, k))
    <3>1. Trusted(f, l, tw, None, D, k) /\ k \notin l.outdated
      BY <1>6, <1>9, <2>1 DEF Trusted, SameTrees
    <3>2. Counted(l, k) = Cardinality(Linking(f, S, k)) /\ Counted(l, k) \in Nat
      BY <1>5, <3>1, CountedIsNat DEF Counts
    <3>3. CASE k # i
      BY <1>2, <1>6, <3>2, <3>3
    <3>4. CASE k = i
      <4>1. Counted(m, k) = Counted(l, k) + 1
        BY <1>6, <3>1, <3>4
      <4>2. PICK p : p = <<d, n>>
        OBVIOUS
      <4>3. p \notin Linking(f, S, k) /\ Linking(f, S2, k) = Linking(f, S, k) \cup {p}
        BY <1>2, <3>4, <4>2 DEF Linking
      <4>4. Cardinality(Linking(f, S2, k)) = Cardinality(Linking(f, S, k)) + 1
        <5>1. IsFiniteSet(Linking(f, S, k))
          BY LinkingFinite
        <5>2. QED
          BY <4>3, <5>1, FS_AddElement
      <4>5. QED
        BY <3>2, <4>1, <4>4
    <3>5. QED
      BY <3>3, <3>4
  <2>2. QED
    BY <2>1 DEF Counts
<1>11. FreeUnlinked(f, m, S2, D)
  BY <1>2, <1>5, <1>6 DEF FreeUnlinked, SameTrees
<1>12. DotDots(f, m, tw2, dd2, None, S2, Addrs, D)
  <2>1. DOMAIN dd = Addrs /\ DOMAIN dd2 = Addrs
    BY <1>5 DEF DotDots
  <2>2. ASSUME NEW a \in Addrs
        PROVE  /\ dd2[a] \in m.dirtree \cup {None}
               /\ <<a, DotDot>> \notin S2 => dd2[a] = None
               /\ f.mode[a] = "dir" /\ <<a, DotDot>> \in S2 =>
                   /\ dd2[a] # None => Points(f, a, DotDot, dd2[a])
                   /\ dd2[a] = None /\ DotDot \in DOMAIN f.ents[a] =>
                        Ghost(f, tw2, None, D, f.ents[a][DotDot].to)
    <3>1. /\ dd[a] \in l.dirtree \cup {None}
          /\ <<a, DotDot>> \notin S => dd[a] = None
          /\ f.mode[a] = "dir" /\ <<a, DotDot>> \in S =>
               /\ dd[a] # None => Points(f, a, DotDot, dd[a])
               /\ dd[a] = None /\ DotDot \in DOMAIN f.ents[a] => Ghost(f, tw, None, D, f.ents[a][DotDot].to)
      BY <1>4, <1>5 DEF DotDots
    <3>2. m.dirtree = l.dirtree
      BY <1>6 DEF SameTrees
    <3>3. CASE a = d /\ n = DotDot
      <4>1. <<a, DotDot>> \in S2 /\ <<a, DotDot>> \notin S
        BY <1>1, <3>3
      <4>2. Points(f, a, DotDot, i)
        BY <3>3
      <4>3. f.ents[a][DotDot].to = i
        BY <4>2 DEF Points
      <4>4. CASE dd2 = [dd EXCEPT ![d] = i] /\ i \in l.dirtree
        <5>1. dd2[a] = i /\ i # None
          BY <1>4, <2>1, <3>3, <4>4
        <5>2. QED
          BY <3>2, <4>1, <4>2, <4>4, <5>1
      <4>5. CASE dd2 = dd /\ i \in D /\ f.mode[i] # "dir"
        <5>1. dd2[a] = None
          BY <3>1, <4>1, <4>5
        <5>2. Ghost(f, tw2, None, D, i)
          BY <4>5 DEF Ghost
        <5>3. QED
          BY <4>1, <4>3, <5>1, <5>2
      <4>6. QED
        BY <3>3, <4>4, <4>5
    <3>4. CASE ~(a = d /\ n = DotDot)
      <4>1. <<a, DotDot>> \in S2 <=> <<a, DotDot>> \in S
        BY <1>1, <3>4
      <4>2. dd2[a] = dd[a]
        BY <2>1, <3>4
      <4>3. Ghost(f, tw, None, D, f.ents[a][DotDot].to) /\ DotDot \in DOMAIN f.ents[a] =>
              Ghost(f, tw2, None, D, f.ents[a][DotDot].to)
        BY <1>5, <1>9 DEF GoodFs, GoodEnts
      <4>4. QED
        BY <3>1, <3>2, <4>1, <4>2, <4>3
    <3>5. QED
      BY <3>3, <3>4
  <2>3. QED
    BY <2>1, <2>2 DEF DotDots
<1>13. Reached(f, tw2, S2, Addrs)
  <2>1. ASSUME NEW a \in Addrs PROVE tw2[a] \in Addrs \cup {None}
    BY <1>5, <1>7 DEF Reached
  <2>2. ASSUME NEW a \in Addrs, tw2[a] # None
        PROVE  f.mode[a] = "dir" /\ \E x \in Names \ Dots : <<tw2[a], x>> \in Linking(f, S2, a)
    <3>1. CASE tw2[a] = tw[a]
      <4>1. f.mode[a] = "dir" /\ \E x \in Names \ Dots : <<tw[a], x>> \in Linking(f, S, a)
        BY <1>5, <2>2, <3>1 DEF Reached
      <4>2. QED
        BY <1>2, <3>1, <4>1
    <3>2. CASE a = i /\ tw2[a] = d /\ f.mode[i] = "dir" /\ n \notin Dots
      BY <1>2, <3>2
    <3>3. QED
      BY <1>7, <3>1, <3>2
  <2>3. ASSUME NEW a \in Addrs, f.mode[a] = "dir", tw2[a] = None, NEW p \in Linking(f, S2, a)
        PROVE  p[2] \in Dots
    <3>1. tw[a] = None
      BY <1>7, <2>3
    <3>2. CASE p \in Linking(f, S, a)
      BY <1>5, <2>3, <3>1, <3>2 DEF Reached
    <3>3. CASE p \notin Linking(f, S, a)
      <4>1. a = i /\ p = <<d, n>>
        BY <1>2, <3>3
      <4>2. n \in Dots
        BY <1>4, <2>3, <3>1, <4>1
      <4>3. QED
        BY <4>1, <4>2
    <3>4. QED
      BY <3>2, <3>3
  <2>4. QED
    BY <2>1, <2>2, <2>3 DEF Reached
<1>14. LostAndFound(f, m, tw2, None, S2, Addrs)
  <2>1. SUFFICES ASSUME LostFound \in DOMAIN f.ents[Root]
                 PROVE  /\ f.mode[f.ents[Root][LostFound].to] = "dir"
                        /\ <<Root, LostFound>> \in S2 => tw2[f.ents[Root][LostFound].to] # None
    BY DEF LostAndFound
  <2>2. /\ f.mode[f.ents[Root][LostFound].to] = "dir"
        /\ <<Root, LostFound>> \in S => tw[f.ents[Root][LostFound].to] # None
    BY <1>5, <2>1 DEF LostAndFound
  <2>3. f.ents[Root][LostFound].to \in Addrs
    BY <1>4, <1>5, <2>1 DEF GoodFs, GoodEnts
  <2>4. CASE <<Root, LostFound>> = <<d, n>>
    <3>1. d = Root /\ n = LostFound /\ i = f.ents[Root][LostFound].to
      BY <2>4 DEF Points
    <3>2. n \notin Dots
      BY <3>1, NamesApart DEF Dots
    <3>3. tw2[i] # None
      BY <1>4, <2>2, <3>1, <3>2
    <3>4. QED
      BY <2>2, <3>1, <3>3
  <2>5. CASE <<Root, LostFound>> # <<d, n>>
    BY <1>1, <1>7, <2>2, <2>3, <2>5
  <2>6. QED
    BY <2>4, <2>5
<1>15. NothingLost(f, tw2, None)
  BY <1>5, <1>7 DEF NothingLost, GoodNames
<1>16. QED
  BY <1>1, <1>3, <1>5, <1>6, <1>8, <1>10, <1>11, <1>12, <1>13, <1>14, <1>15 DEF Whole
-----------------------------------------------------------------------------
(* What is so of the new state, taken apart and put together.              *)
LEMMA KeptNext ==
  ASSUME Whole(fs', links', treewalk_parent', dotdot_parent', lf_dip', Visible', Open', declined'),
         BeforePass3', AtRecord'
  PROVE  LinksKept'
<1>1. GoodFs(fs') => GoodFs(fs)'
  BY DEF GoodFs, GoodEnts
<1>2. GoodLinks(links') => GoodLinks(links)'
  BY DEF GoodLinks
<1>3. GoodNames(fs') => GoodNames(fs)'
  BY DEF GoodNames
<1>4. GoodCounts(links') => GoodCounts(links)'
  BY DEF GoodCounts
<1>5. Records(fs', links', treewalk_parent', lf_dip', Open') =>
      Records(fs, links, treewalk_parent, lf_dip, Open)'
  BY DEF Records
<1>6. Counts(fs', links', treewalk_parent', lf_dip', Visible', declined') =>
      Counts(fs, links, treewalk_parent, lf_dip, Visible, declined)'
  BY DEF Counts, Trusted, Ghost, Counted, Linking, Points
<1>7. FreeUnlinked(fs', links', Visible', declined') => FreeUnlinked(fs, links, Visible, declined)'
  BY DEF FreeUnlinked, Linking, Points
<1>8. DotDots(fs', links', treewalk_parent', dotdot_parent', lf_dip', Visible', Open', declined') =>
      DotDots(fs, links, treewalk_parent, dotdot_parent, lf_dip, Visible, Open, declined)'
  BY DEF DotDots, InLf, Points, Ghost
<1>9. Reached(fs', treewalk_parent', Visible', Open') => Reached(fs, treewalk_parent, Visible, Open)'
  BY DEF Reached, Linking, Points
<1>10. LostAndFound(fs', links', treewalk_parent', lf_dip', Visible', Open') =>
       LostAndFound(fs, links, treewalk_parent, lf_dip, Visible, Open)'
  BY DEF LostAndFound, Linking, Points
<1>11. NothingLost(fs', treewalk_parent', lf_dip') => NothingLost(fs, treewalk_parent, lf_dip)'
  BY DEF NothingLost, InLf
<1>12. QED
  BY <1>1, <1>2, <1>3, <1>4, <1>5, <1>6, <1>7, <1>8, <1>9, <1>10, <1>11 DEF LinksKept, Whole

(* What comes next in a tree, in its order.                                *)
LEMMA MinIsLeast ==
  ASSUME NEW S, S \subseteq Addrs, S # {}
  PROVE  Min(S) \in S /\ \A y \in S : Min(S) <= y
<1>1. Addrs \subseteq Nat
  BY DirLinksAssumption DEF Addrs
<1>2. QED
  BY <1>1, HasLeast DEF Min

LEMMA NextAfter ==
  ASSUME NEW tree, tree \subseteq Addrs, NEW a
  PROVE  \/ NextOf(tree, a) = None /\ \A b \in tree : ~(b > a)
         \/ /\ NextOf(tree, a) \in tree /\ NextOf(tree, a) > a
            /\ \A b \in tree : b > a => NextOf(tree, a) <= b
<1>1. Following(tree, a) \subseteq Addrs
  BY DEF Following
<1>2. CASE Following(tree, a) = {}
  BY <1>2 DEF NextOf, Following
<1>3. CASE Following(tree, a) # {}
  <2>1. NextOf(tree, a) \in Following(tree, a) /\ \A b \in Following(tree, a) : NextOf(tree, a) <= b
    BY <1>1, <1>3, MinIsLeast DEF NextOf
  <2>2. QED
    BY <2>1 DEF Following
<1>4. QED
  BY <1>2, <1>3

(* pass2 comes to the next entry of the directory ...                      *)
LEMMA EntrySeen ==
  ASSUME LinksKept, IInv, NEW n \in Names, InPass2(n)
  PROVE  \E S : /\ S \subseteq Pairs /\ Swept(fs, Visible, S) /\ <<at, n>> \notin S
                /\ Visible' = S \cup {<<at, n>>}
<1>1. /\ pc = "pass2" /\ pc' = pc /\ at \in Addrs /\ at' = at /\ name' = n
      /\ n \in Later /\ \A m \in Later : n <= m
  BY DEF InPass2, IInv
<1>2. name \in Names \cup {0}
  BY <1>1 DEF LinksKept, BeforePass3
<1>3. Addrs \subseteq Nat \ {0} /\ None = 0 /\ Names \subseteq Nat
  BY DirLinksAssumption DEF Addrs, None, Names, Dot, DotDot, LostFound, Plain, LostName
<1>4. \A p \in Pairs : p \in Visible <=> p[1] < at \/ (p[1] = at /\ p[2] <= name)
  BY <1>1, <1>3 DEF Visible, Seen
<1>5. \A p \in Pairs : p \in Visible' <=> p[1] < at \/ (p[1] = at /\ p[2] <= n)
  BY <1>1, <1>3 DEF Visible, Seen
<1>6. \A p \in Pairs : p[1] \in Addrs /\ p[2] \in Names /\ p = <<p[1], p[2]>>
  BY PairIs
<1>7. <<at, n>> \in Pairs /\ n > name
  BY <1>1 DEF Pairs, Later
<1>8. Visible \subseteq Pairs /\ Visible' \subseteq Pairs
  BY DEF Visible
<1> DEFINE S == Visible' \ {<<at, n>>}
<1>9. Visible' = S \cup {<<at, n>>}
  <2>1. <<at, n>> \in Visible'
    BY <1>1, <1>3, <1>5, <1>7
  <2>2. QED
    BY <2>1
<1>10. Visible \subseteq S
  <2>1. ASSUME NEW p \in Visible PROVE p \in Visible' /\ p # <<at, n>>
    <3>1. p \in Pairs /\ p[1] \in Nat /\ p[2] \in Nat /\ n \in Nat /\ name \in Nat /\ at \in Nat
      BY <1>1, <1>2, <1>3, <1>6, <1>8
    <3>2. p[1] < at \/ (p[1] = at /\ p[2] <= name)
      BY <1>4, <3>1
    <3>3. p[1] < at \/ (p[1] = at /\ p[2] < n)
      BY <1>7, <3>1, <3>2
    <3>4. p # <<at, n>>
      BY <3>1, <3>3
    <3>5. QED
      BY <1>5, <3>1, <3>3, <3>4
  <2>2. QED
    BY <2>1
<1>11. ASSUME NEW p \in S \ Visible PROVE p[2] \notin DOMAIN fs.ents[p[1]]
  <2>1. p \in Pairs /\ p[1] \in Nat /\ p[2] \in Nat /\ n \in Nat /\ name \in Nat /\ at \in Nat
    BY <1>1, <1>2, <1>3, <1>6, <1>8
  <2>2. p[1] < at \/ (p[1] = at /\ p[2] <= n)
    BY <1>5, <2>1
  <2>3. p[1] = at /\ p[2] <= n /\ ~(p[2] <= name)
    BY <1>4, <2>1, <2>2
  <2>4. p[2] # n
    BY <1>6, <2>1, <2>3
  <2>5. p[2] \notin Later
    BY <1>1, <2>1, <2>3, <2>4
  <2>6. QED
    BY <2>1, <2>3, <2>5 DEF Later
<1>12. Swept(fs, Visible, S)
  BY <1>8, <1>10, <1>11 DEF Swept
<1>13. QED
  BY <1>8, <1>9, <1>12

(* ... or there is none, and it goes on to the next directory.             *)
LEMMA RestSeen ==
  ASSUME LinksKept, IInv, pc = "pass2", pc' = pc, at # None, Later = {},
         at' = NextOf(links.dirtree, at), name' = 0
  PROVE  Swept(fs, Visible, Visible')
<1>1. at \in Addrs /\ links.dirtree \subseteq Addrs
  BY DEF IInv, GoodLinks
<1>2. name \in Names \cup {0} /\ \A i \in Addrs : fs.mode[i] = "dir" => i \in links.dirtree
  BY DEF LinksKept, BeforePass3, Whole, Records
<1>3. Addrs \subseteq Nat \ {0} /\ None = 0 /\ Names \subseteq Nat \ {0}
  BY DirLinksAssumption DEF Addrs, None, Names, Dot, DotDot, LostFound, Plain, LostName
<1>4. \A p \in Pairs : p \in Visible <=> p[1] < at \/ (p[1] = at /\ p[2] <= name)
  BY <1>1, <1>3 DEF Visible, Seen
<1>5. \A p \in Pairs : p[1] \in Addrs /\ p[2] \in Names /\ p = <<p[1], p[2]>>
  BY PairIs
<1>6. Visible \subseteq Pairs /\ Visible' \subseteq Pairs
  BY DEF Visible
<1>7. \/ at' = None /\ \A b \in links.dirtree : ~(b > at)
      \/ at' \in Addrs /\ at' > at /\ \A b \in links.dirtree : b > at => at' <= b
  BY <1>1, NextAfter
<1>8. \A p \in Pairs : p \in Visible' <=> at' = None \/ p[1] < at'
  <2>1. \A p \in Pairs : ~(p[2] <= 0)
    BY <1>3, <1>5
  <2>2. QED
    BY <2>1 DEF Visible, Seen
<1>9. Visible \subseteq Visible'
  <2>1. ASSUME NEW p \in Visible PROVE p \in Visible'
    <3>1. p \in Pairs /\ p[1] \in Nat /\ at \in Nat
      BY <1>1, <1>3, <1>5, <1>6
    <3>2. p[1] <= at
      BY <1>4, <3>1
    <3>3. at' = None \/ (at' \in Nat /\ at' > at)
      BY <1>3, <1>7
    <3>4. at' = None \/ p[1] < at'
      BY <3>1, <3>2, <3>3
    <3>5. QED
      BY <1>8, <3>1, <3>4
  <2>2. QED
    BY <2>1
<1>10. ASSUME NEW p \in Visible' \ Visible
       PROVE  fs.mode[p[1]] # "dir" \/ p[2] \notin DOMAIN fs.ents[p[1]]
  <2>1. /\ p \in Pairs /\ p[1] \in Addrs /\ p[1] \in Nat /\ p[2] \in Nat /\ name \in Nat /\ at \in Nat
    BY <1>1, <1>2, <1>3, <1>5, <1>6
  <2>2. ~(p[1] < at \/ (p[1] = at /\ p[2] <= name))
    BY <1>4, <2>1
  <2>3. CASE p[1] = at
    BY <2>1, <2>2, <2>3 DEF Later
  <2>4. CASE p[1] # at
    <3>1. p[1] > at
      BY <2>1, <2>2, <2>4
    <3>2. at' = None \/ p[1] < at'
      BY <1>8, <2>1
    <3>3. p[1] \notin links.dirtree
      <4>1. CASE at' = None /\ \A b \in links.dirtree : ~(b > at)
        BY <3>1, <4>1
      <4>2. CASE at' \in Addrs /\ at' > at /\ \A b \in links.dirtree : b > at => at' <= b
        <5>1. at' \in Nat /\ p[1] < at'
          BY <1>3, <3>2, <4>2
        <5>2. ~(at' <= p[1])
          BY <2>1, <5>1
        <5>3. QED
          BY <3>1, <4>2, <5>2
      <4>3. QED
        BY <1>7, <4>1, <4>2
    <3>4. QED
      BY <1>2, <2>1, <3>3
  <2>5. QED
    BY <2>3, <2>4
<1>11. QED
  BY <1>6, <1>9, <1>10 DEF Swept
-----------------------------------------------------------------------------
(* pass2: what can come of an entry.                                       *)
NukesEntry(n) == Nuke(n)
LeavesEntry(n) == LET i == fs.ents[at][n].to IN Leave /\ i \in declined' /\ fs.mode[i] # "dir"
CountsEntry(n) ==
    LET i == fs.ents[at][n].to IN
    /\ Count(i) /\ (fs.mode[i] = "free" => i \in declined')
    /\ \/ n = DotDot /\ dotdot_parent' = [dotdot_parent EXCEPT ![at] = i] /\ i \in links.dirtree
       \/ UNCHANGED dotdot_parent /\ (n = DotDot => i \in declined' /\ fs.mode[i] # "dir")
    /\ \/ UNCHANGED treewalk_parent /\ (n \in Dots \/ fs.mode[i] # "dir" \/ treewalk_parent[i] # None)
       \/ /\ treewalk_parent' = [treewalk_parent EXCEPT ![i] = at]
          /\ treewalk_parent[i] = None /\ n \notin Dots /\ fs.mode[i] = "dir"

LEMMA InPass2Facts ==
  ASSUME LinksKept, IInv, NEW n \in Names, InPass2(n)
  PROVE  /\ pc = "pass2" /\ pc' = pc /\ at' = at /\ at \in Addrs /\ name' = n /\ lf_dip' = None /\ checked' = {}
         /\ Whole(fs, links, treewalk_parent, dotdot_parent, None, Visible, Addrs, declined)
         /\ at \in links.dirtree /\ n \in DOMAIN fs.ents[at]
         /\ fs.ents[at][n].to \in Addrs /\ Points(fs, at, n, fs.ents[at][n].to)
<1>1. /\ pc = "pass2" /\ pc' = pc /\ at' = at /\ at \in Addrs /\ name' = n /\ at # None
      /\ UNCHANGED <<lf_dip, checked>> /\ n \in DOMAIN fs.ents[at]
  BY DEF InPass2, IInv, Later
<1>2. lf_dip = None /\ checked = {}
  BY <1>1 DEF LinksKept, BeforePass3
<1>3. Open = Addrs
  BY <1>1, <1>2 DEF Open
<1>4. Whole(fs, links, treewalk_parent, dotdot_parent, None, Visible, Addrs, declined)
  BY <1>2, <1>3 DEF LinksKept
<1>5. at \in links.dirtree
  BY <1>1 DEF LinksKept, AtRecord
<1>6. fs.mode[at] = "dir"
  BY <1>1, <1>4, <1>5 DEF Whole, Records
<1>7. fs.ents[at][n].to \in Addrs
  BY <1>1 DEF IInv, GoodFs, GoodEnts
<1>8. QED
  BY <1>1, <1>2, <1>4, <1>5, <1>6, <1>7 DEF Points

LEMMA DentryOutcome ==
  ASSUME LinksKept, IInv, NEW n \in Names, Dentry(n)
  PROVE  /\ InPass2(n) /\ declined \subseteq declined' /\ declined' \subseteq declined \cup {fs.ents[at][n].to}
         /\ NukesEntry(n) \/ LeavesEntry(n) \/ CountsEntry(n)
<1>1. PICK i : i = fs.ents[at][n].to
  OBVIOUS
<1>2. InPass2(n)
  BY DEF Dentry, DentryToNoInode, DentryWrongFormal, DentryToSingle, DentryToMulti, DentryDot,
         DentryDotDot, DentryToDir
<1>3. /\ pc = "pass2" /\ at \in Addrs /\ i \in Addrs /\ n \in DOMAIN fs.ents[at]
      /\ Whole(fs, links, treewalk_parent, dotdot_parent, None, Visible, Addrs, declined)
      /\ Points(fs, at, n, i)
  BY <1>1, <1>2, InPass2Facts
<1>4. /\ i \in links.nlink1map => fs.mode[i] = "file"
      /\ i \in links.inodetree => fs.mode[i] = "file" \/ i \in declined
      /\ n = DotDot => fs.mode[i] # "file"
  BY <1>1, <1>3 DEF LinksKept, BeforePass3
<1>5. i \in links.inodetree \/ i \in links.nlink1map => fs.mode[i] # "dir"
  BY <1>3, RootIsAddr DEF Whole, Records
<1>6. n = Dot => i = at /\ fs.mode[i] = "dir"
  BY <1>3 DEF Whole, GoodNames, Points
<1>7. declined \subseteq declined' /\ declined' \subseteq declined \cup {i}
  BY <1>1 DEF Dentry, DentryToNoInode, DentryWrongFormal, DentryToSingle, DentryToMulti, DentryDot,
         DentryDotDot, DentryToDir, Query, NoQuery
<1>8. CASE DentryToNoInode(n)
  <2>1. \/ Nuke(n)
        \/ i \in declined' /\ Leave
        \/ i \in declined' /\ Count(i) /\ UNCHANGED <<treewalk_parent, dotdot_parent>>
    BY <1>1, <1>8 DEF DentryToNoInode, Query
  <2>2. fs.mode[i] = "free"
    BY <1>1, <1>8 DEF DentryToNoInode
  <2>3. QED
    BY <1>1, <1>2, <1>7, <2>1, <2>2 DEF NukesEntry, LeavesEntry, CountsEntry
<1>9. CASE DentryWrongFormal(n)
  BY <1>1, <1>2, <1>7, <1>9 DEF DentryWrongFormal, NukesEntry
<1>10. CASE DentryToSingle(n)
  <2>1. /\ i \in links.nlink1map
        /\ \/ Count(i) /\ UNCHANGED <<treewalk_parent, dotdot_parent>>
           \/ i \in declined' /\ Leave
           \/ Nuke(n)
    BY <1>1, <1>10 DEF DentryToSingle, Query
  <2>2. QED
    BY <1>1, <1>2, <1>4, <1>7, <2>1 DEF NukesEntry, LeavesEntry, CountsEntry
<1>11. CASE DentryToMulti(n)
  <2>1. i \in links.inodetree /\ Count(i) /\ UNCHANGED <<treewalk_parent, dotdot_parent>>
    BY <1>1, <1>11 DEF DentryToMulti
  <2>2. QED
    BY <1>1, <1>2, <1>4, <1>5, <1>7, <2>1 DEF CountsEntry
<1>12. CASE DentryDot(n)
  <2>1. n = Dot /\ Count(i) /\ UNCHANGED <<treewalk_parent, dotdot_parent>>
    BY <1>1, <1>12 DEF DentryDot
  <2>2. n # DotDot /\ n \in Dots
    BY <2>1, NamesApart DEF Dots
  <2>3. QED
    BY <1>1, <1>2, <1>6, <1>7, <2>1, <2>2 DEF CountsEntry
<1>13. CASE DentryDotDot(n)
  <2>1. /\ n = DotDot /\ Count(i) /\ UNCHANGED treewalk_parent /\ i \in links.dirtree /\ fs.mode[i] = "dir"
        /\ dotdot_parent' = [dotdot_parent EXCEPT ![at] = i]
    BY <1>1, <1>13 DEF DentryDotDot
  <2>2. n \in Dots
    BY <2>1 DEF Dots
  <2>3. QED
    BY <1>1, <1>2, <1>7, <2>1, <2>2 DEF CountsEntry
<1>14. CASE DentryToDir(n)
  <2>1. /\ n \notin Dots /\ n # DotDot /\ fs.mode[i] = "dir" /\ UNCHANGED dotdot_parent
        /\ \/ treewalk_parent[i] = None /\ treewalk_parent' = [treewalk_parent EXCEPT ![i] = at] /\ Count(i)
           \/ /\ treewalk_parent[i] # None /\ UNCHANGED treewalk_parent
              /\ (fs' = Without(at, n) /\ UNCHANGED links) \/ Count(i)
    BY <1>1, <1>14 DEF DentryToDir, Dots
  <2>2. QED
    BY <1>1, <1>2, <1>7, <2>1 DEF CountsEntry, NukesEntry, Nuke
<1>15. QED
  BY <1>8, <1>9, <1>10, <1>11, <1>12, <1>13, <1>14 DEF Dentry

LEMMA Pass2Keeps ==
  ASSUME pc' = "pass2", at' \in links'.dirtree \cup {None}, lf_dip' = None, checked' = {}, name' \in Names \cup {0},
         Whole(fs', links', treewalk_parent', dotdot_parent', None, Visible', Addrs, declined'),
         \A i \in Addrs :
            /\ i \in links'.nlink1map => fs'.mode[i] = "file"
            /\ i \in links'.inodetree => fs'.mode[i] = "file" \/ i \in declined'
            /\ DotDot \in DOMAIN fs'.ents[i] => fs'.mode[fs'.ents[i][DotDot].to] # "file"
  PROVE  LinksKept'
<1>1. Open' = Addrs
  BY DEF Open
<1>2. Whole(fs', links', treewalk_parent', dotdot_parent', lf_dip', Visible', Open', declined')
  BY <1>1
<1>3. BeforePass3'
  BY DEF BeforePass3
<1>4. AtRecord'
  BY DEF AtRecord, Passes
<1>5. QED
  BY <1>2, <1>3, <1>4, KeptNext
-----------------------------------------------------------------------------
LEMMA IncrMaps ==
  ASSUME NEW l, GoodLinks(l), NEW i \in Addrs
  PROVE  /\ IncrLinkCount(l, i).nlink1map \subseteq l.nlink1map
         /\ IncrLinkCount(l, i).inodetree \subseteq l.inodetree \cup (IF i \in l.dirtree THEN {} ELSE {i})
<1>1. PICK m : m = IncrLinkCount(l, i)
  OBVIOUS
<1>2. CASE i \in l.outdated
  <2>1. m = l
    BY <1>1, <1>2 DEF IncrLinkCount
  <2>2. QED
    BY <1>1, <2>1
<1>3. CASE i \notin l.outdated /\ i \in l.dirtree \union l.inodetree
  <2>1. m.inodetree = l.inodetree /\ m.nlink1map = l.nlink1map
    BY <1>1, <1>3 DEF GoodLinks, LinkFields, IncrLinkCount
  <2>2. QED
    BY <1>1, <2>1
<1>4. CASE i \notin l.outdated /\ i \notin l.dirtree \union l.inodetree /\ i \notin l.clink1map
  <2>1. m.inodetree = l.inodetree /\ m.nlink1map = l.nlink1map
    BY <1>1, <1>4 DEF GoodLinks, LinkFields, IncrLinkCount
  <2>2. QED
    BY <1>1, <2>1
<1>5. CASE i \notin l.outdated /\ i \notin l.dirtree \union l.inodetree /\ i \in l.clink1map
  <2>1. m = MovedToInodetree(l, i)
    BY <1>1, <1>5 DEF IncrLinkCount
  <2>2. m.inodetree = l.inodetree \cup {i} /\ m.nlink1map = l.nlink1map \ {i}
    BY <2>1 DEF GoodLinks, LinkFields, MovedToInodetree
  <2>3. QED
    BY <1>1, <1>5, <2>2
<1>6. QED
  BY <1>2, <1>3, <1>4, <1>5

LEMMA DentryKeeps ==
  ASSUME LinksKept, IInv, NEW n \in Names, Dentry(n)
  PROVE  LinksKept'
<1>1. PICK i : i = fs.ents[at][n].to
  OBVIOUS
<1>2. /\ InPass2(n) /\ declined \subseteq declined'
      /\ NukesEntry(n) \/ LeavesEntry(n) \/ CountsEntry(n)
  BY DentryOutcome
<1>3. /\ pc' = "pass2" /\ pc = "pass2" /\ at' = at /\ at \in Addrs /\ name' = n /\ lf_dip' = None
      /\ checked' = {}
      /\ Whole(fs, links, treewalk_parent, dotdot_parent, None, Visible, Addrs, declined)
      /\ at \in links.dirtree /\ i \in Addrs /\ Points(fs, at, n, i)
  BY <1>1, <1>2, InPass2Facts
<1>4. \A a \in Addrs :
        /\ a \in links.nlink1map => fs.mode[a] = "file"
        /\ a \in links.inodetree => fs.mode[a] = "file" \/ a \in declined
        /\ DotDot \in DOMAIN fs.ents[a] => fs.mode[fs.ents[a][DotDot].to] # "file"
  BY <1>3 DEF LinksKept, BeforePass3
<1>5. PICK S : /\ S \subseteq Pairs /\ Swept(fs, Visible, S) /\ <<at, n>> \notin S
               /\ Visible' = S \cup {<<at, n>>}
  BY <1>2, EntrySeen
<1>6. Whole(fs, links, treewalk_parent, dotdot_parent, None, S, Addrs, declined')
  <2>1. Whole(fs, links, treewalk_parent, dotdot_parent, None, S, Addrs, declined)
    BY <1>3, <1>5, WholeSwept
  <2>2. QED
    BY <1>2, <2>1, WholeShrinks
<1>7. GoodFs(fs) /\ GoodLinks(links)
  BY DEF IInv
<1>8. CASE NukesEntry(n)
  <2>1. fs' = Without(at, n) /\ UNCHANGED <<links, treewalk_parent, dotdot_parent>>
    BY <1>8 DEF NukesEntry, Nuke
  <2>2. Removed(fs, fs', at, n) /\ GoodFs(fs')
    BY <1>3, <1>7, <2>1, WithoutRemoves, WithoutGood
  <2>3. Whole(fs', links', treewalk_parent', dotdot_parent', None, Visible', Addrs, declined')
    BY <1>3, <1>5, <1>6, <2>1, <2>2, WholeNuked
  <2>4. ASSUME NEW a \in Addrs, DotDot \in DOMAIN fs'.ents[a]
        PROVE  fs'.mode[fs'.ents[a][DotDot].to] # "file"
    <3>1. DotDot \in DOMAIN fs.ents[a] /\ fs'.ents[a][DotDot] = fs.ents[a][DotDot] /\ fs'.mode = fs.mode
      BY <2>2, <2>4 DEF Removed
    <3>2. QED
      BY <1>4, <3>1
  <2>5. \A a \in Addrs :
          /\ a \in links'.nlink1map => fs'.mode[a] = "file"
          /\ a \in links'.inodetree => fs'.mode[a] = "file" \/ a \in declined'
    BY <1>2, <1>4, <2>1, <2>2 DEF Removed
  <2>6. at' \in links'.dirtree \cup {None} /\ name' \in Names \cup {0}
    BY <1>3, <2>1
  <2>7. QED
    BY <1>3, <2>3, <2>4, <2>5, <2>6, Pass2Keeps
<1>9. CASE LeavesEntry(n)
  <2>1. /\ UNCHANGED <<fs, links, treewalk_parent, dotdot_parent>>
        /\ i \in declined' /\ fs.mode[i] # "dir"
    BY <1>1, <1>9 DEF LeavesEntry, Leave
  <2>2. Whole(fs', links', treewalk_parent', dotdot_parent', None, Visible', Addrs, declined')
    BY <1>3, <1>5, <1>6, <2>1, WholeLeft
  <2>3. \A a \in Addrs :
          /\ a \in links'.nlink1map => fs'.mode[a] = "file"
          /\ a \in links'.inodetree => fs'.mode[a] = "file" \/ a \in declined'
          /\ DotDot \in DOMAIN fs'.ents[a] => fs'.mode[fs'.ents[a][DotDot].to] # "file"
    BY <1>2, <1>4, <2>1
  <2>4. at' \in links'.dirtree \cup {None} /\ name' \in Names \cup {0}
    BY <1>3, <2>1
  <2>5. QED
    BY <1>3, <2>2, <2>3, <2>4, Pass2Keeps
<1>10. CASE CountsEntry(n)
  <2>1. /\ links' = IncrLinkCount(links, i) /\ fs' = fs /\ (fs.mode[i] = "free" => i \in declined')
        /\ \/ n = DotDot /\ dotdot_parent' = [dotdot_parent EXCEPT ![at] = i] /\ i \in links.dirtree
           \/ dotdot_parent' = dotdot_parent /\ (n = DotDot => i \in declined' /\ fs.mode[i] # "dir")
        /\ \/ /\ treewalk_parent' = treewalk_parent
              /\ (n \in Dots \/ fs.mode[i] # "dir" \/ treewalk_parent[i] # None)
           \/ /\ treewalk_parent' = [treewalk_parent EXCEPT ![i] = at]
              /\ treewalk_parent[i] = None /\ n \notin Dots /\ fs.mode[i] = "dir"
    BY <1>1, <1>10 DEF CountsEntry, Count
  <2>2. DOMAIN treewalk_parent = Addrs
    BY DEF IInv
  <2>3. Whole(fs', links', treewalk_parent', dotdot_parent', None, Visible', Addrs, declined')
    BY <1>3, <1>5, <1>6, <2>1, <2>2, WholeCounted
  <2>4. /\ links'.nlink1map \subseteq links.nlink1map /\ links'.dirtree = links.dirtree
        /\ links'.inodetree \subseteq links.inodetree \cup (IF i \in links.dirtree THEN {} ELSE {i})
    BY <1>3, <1>7, <2>1, IncrMaps, IncrCounts DEF SameTrees, Whole
  <2>5. i \notin links.dirtree => fs.mode[i] = "file" \/ i \in declined'
    BY <1>3, <2>1 DEF Whole, Records, GoodNames, Modes
  <2>6. \A a \in Addrs :
          /\ a \in links'.nlink1map => fs'.mode[a] = "file"
          /\ a \in links'.inodetree => fs'.mode[a] = "file" \/ a \in declined'
          /\ DotDot \in DOMAIN fs'.ents[a] => fs'.mode[fs'.ents[a][DotDot].to] # "file"
    BY <1>2, <1>4, <2>1, <2>4, <2>5
  <2>7. at' \in links'.dirtree \cup {None} /\ name' \in Names \cup {0}
    BY <1>3, <2>4
  <2>8. QED
    BY <1>3, <2>3, <2>6, <2>7, Pass2Keeps
<1>11. QED
  BY <1>2, <1>8, <1>9, <1>10

LEMMA EndOfDirKeeps == ASSUME LinksKept, IInv, EndOfDir PROVE LinksKept'
<1>1. /\ pc = "pass2" /\ pc' = pc /\ at # None /\ Later = {} /\ at' = NextOf(links.dirtree, at) /\ name' = 0
      /\ UNCHANGED <<treewalk_parent, dotdot_parent, checked, lf_dip>>
  BY DEF EndOfDir, dirinfo
<1>2. Swept(fs, Visible, Visible')
  BY <1>1, RestSeen
<1>3. at \in Addrs /\ GoodFs(fs) /\ GoodLinks(links)
  BY <1>1 DEF IInv
<1>4. lf_dip = None /\ checked = {}
  BY <1>1 DEF LinksKept, BeforePass3
<1>5. Open = Addrs
  BY <1>1, <1>4 DEF Open
<1>6. Whole(fs, links, treewalk_parent, dotdot_parent, None, Visible, Addrs, declined)
  BY <1>4, <1>5 DEF LinksKept
<1>7. \/ UNCHANGED <<fs, links>>
      \/ Dot \notin DOMAIN fs.ents[at] /\ fs' = With(fs, at, Dot, at) /\ links' = IncrLinkCount(links, at)
  BY DEF EndOfDir
<1>8. declined \subseteq declined'
  BY DEF EndOfDir, Query, NoQuery
<1>9. at \in links.dirtree /\ fs.mode[at] = "dir"
  BY <1>1, <1>3, <1>6 DEF LinksKept, AtRecord, Whole, Records
<1>10. at' \in links.dirtree \cup {None}
  BY <1>1, <1>3, NextAfter DEF GoodLinks
<1>11. \A a \in Addrs :
        /\ a \in links.nlink1map => fs.mode[a] = "file"
        /\ a \in links.inodetree => fs.mode[a] = "file" \/ a \in declined
        /\ DotDot \in DOMAIN fs.ents[a] => fs.mode[fs.ents[a][DotDot].to] # "file"
  BY <1>1 DEF LinksKept, BeforePass3
<1>12. Visible' \subseteq Pairs
  BY DEF Visible
<1>13. Whole(fs, links, treewalk_parent, dotdot_parent, None, Visible', Addrs, declined')
  <2>1. Whole(fs, links, treewalk_parent, dotdot_parent, None, Visible', Addrs, declined)
    BY <1>2, <1>6, WholeSwept
  <2>2. QED
    BY <1>8, <2>1, WholeShrinks
<1>14. CASE UNCHANGED <<fs, links>>
  <2>1. Whole(fs', links', treewalk_parent', dotdot_parent', None, Visible', Addrs, declined')
    BY <1>1, <1>13, <1>14
  <2>2. \A a \in Addrs :
          /\ a \in links'.nlink1map => fs'.mode[a] = "file"
          /\ a \in links'.inodetree => fs'.mode[a] = "file" \/ a \in declined'
          /\ DotDot \in DOMAIN fs'.ents[a] => fs'.mode[fs'.ents[a][DotDot].to] # "file"
    BY <1>8, <1>11, <1>14
  <2>3. QED
    BY <1>1, <1>4, <1>10, <1>14, <2>1, <2>2, Pass2Keeps
<1>15. CASE /\ Dot \notin DOMAIN fs.ents[at] /\ fs' = With(fs, at, Dot, at)
            /\ links' = IncrLinkCount(links, at)
  <2>1. Entered(fs, fs', at, Dot, at)
    BY <1>3, <1>15, WithEnters
  <2>2. <<at, Dot>> \in Visible'
    <3>1. /\ at' = None \/ at < at'
          /\ Dot \in Names
      <4>1. Addrs \subseteq Nat \ {0} /\ None = 0
        BY DirLinksAssumption DEF Addrs, None
      <4>2. at' = None \/ at' > at
        BY <1>1, <1>3, NextAfter DEF GoodLinks
      <4>3. at' = None \/ at' \in Addrs
        BY <1>3, <1>10 DEF GoodLinks
      <4>4. QED
        BY <1>3, <4>1, <4>2, <4>3, NamesApart
    <3>2. QED
      BY <1>3, <3>1 DEF Visible, Seen, Pairs
  <2>3. Enterable(fs, links, treewalk_parent, None, Addrs, at, Dot, at)
    BY <1>3, <1>9, NamesApart DEF Enterable, Dots
  <2>4. Whole(fs', links', treewalk_parent', dotdot_parent', None, Visible', Addrs, declined')
    BY <1>1, <1>3, <1>12, <1>13, <1>15, <2>1, <2>2, <2>3, NamesApart, WholeEntered
  <2>5. /\ links'.nlink1map \subseteq links.nlink1map /\ links'.dirtree = links.dirtree
        /\ links'.inodetree \subseteq links.inodetree
    BY <1>3, <1>6, <1>9, <1>15, IncrMaps, IncrCounts DEF SameTrees, Whole
  <2>6. ASSUME NEW a \in Addrs
        PROVE  /\ a \in links'.nlink1map => fs'.mode[a] = "file"
               /\ a \in links'.inodetree => fs'.mode[a] = "file" \/ a \in declined'
               /\ DotDot \in DOMAIN fs'.ents[a] => fs'.mode[fs'.ents[a][DotDot].to] # "file"
    <3>1. fs'.mode = fs.mode
      BY <2>1 DEF Entered
    <3>2. DotDot \in DOMAIN fs'.ents[a] =>
            DotDot \in DOMAIN fs.ents[a] /\ fs'.ents[a][DotDot] = fs.ents[a][DotDot]
      BY <2>1, NamesApart DEF Entered
    <3>3. QED
      BY <1>8, <1>11, <2>5, <3>1, <3>2
  <2>7. QED
    BY <1>1, <1>4, <1>10, <2>4, <2>5, <2>6, Pass2Keeps
<1>16. QED
  BY <1>7, <1>14, <1>15
-----------------------------------------------------------------------------
(* pass3.  All entries have been come to.                                  *)
LEMMA AllSeen ==
  /\ pc # "pass2" \/ at = None => Visible = Pairs
  /\ pc' # "pass2" => Visible' = Pairs
  BY DEF Visible, Seen

LEMMA Pass3Keeps ==
  ASSUME pc' = "pass3", at' = None \/ (at' \in links'.dirtree /\ di' \in links'.dirtree),
         Whole(fs', links', treewalk_parent', dotdot_parent', lf_dip', Pairs, Addrs \ checked', declined')
  PROVE  LinksKept'
<1>1. Open' = Addrs \ checked' /\ Visible' = Pairs
  BY AllSeen DEF Open
<1>2. Whole(fs', links', treewalk_parent', dotdot_parent', lf_dip', Visible', Open', declined')
  BY <1>1
<1>3. BeforePass3' /\ AtRecord'
  BY DEF BeforePass3, AtRecord, Passes
<1>4. QED
  BY <1>2, <1>3, KeptNext

LEMMA InPass3Facts ==
  ASSUME LinksKept, IInv, InPass3
  PROVE  /\ pc' = "pass3" /\ at \in links.dirtree /\ di \in links.dirtree /\ di \in Addrs
         /\ treewalk_parent' = treewalk_parent
         /\ Whole(fs, links, treewalk_parent, dotdot_parent, lf_dip, Pairs, Addrs \ checked, declined)
         /\ GoodLinks(links) /\ GoodFs(fs)
         /\ NextDir => at' \in links.dirtree \cup {None} /\ di' = at'
<1>1. pc = "pass3" /\ at # None /\ UNCHANGED <<pc, treewalk_parent>>
  BY DEF InPass3
<1>2. Open = Addrs \ checked /\ Visible = Pairs
  BY <1>1, AllSeen DEF Open
<1>3. at \in links.dirtree /\ di \in links.dirtree /\ di \in Addrs
  BY <1>1 DEF LinksKept, AtRecord, IInv
<1>4. NextOf(links.dirtree, at) \in links.dirtree \cup {None}
  BY NextAfter DEF IInv, GoodLinks
<1>5. QED
  BY <1>1, <1>2, <1>3, <1>4 DEF LinksKept, IInv, NextDir

(* A directory that pass2 found in another was found in a directory.       *)
LEMMA ReachedFromDir ==
  ASSUME NEW f, NEW l, NEW tw, NEW dd, NEW lf, NEW S, NEW O, NEW D, S \subseteq Pairs,
         Whole(f, l, tw, dd, lf, S, O, D), NEW a \in Addrs, tw[a] # None
  PROVE  tw[a] \in Addrs /\ f.mode[tw[a]] = "dir" /\ tw[a] \in l.dirtree /\ f.mode[a] = "dir"
         /\ Linking(f, S, a) # {}
<1>1. PICK x \in Names \ Dots : <<tw[a], x>> \in Linking(f, S, a)
  BY DEF Whole, Reached
<1>2. tw[a] \in Addrs /\ f.mode[a] = "dir"
  BY DEF Whole, Reached
<1>3. f.mode[tw[a]] = "dir"
  BY <1>1, LinkingIs DEF Points
<1>4. QED
  BY <1>1, <1>2, <1>3 DEF Whole, Records

(* What is in lost+found by the name it gets there is linked to.           *)
LEMMA InLfLinks ==
  ASSUME NEW f, NEW l, NEW tw, NEW dd, NEW lf, NEW O, NEW D,
         Whole(f, l, tw, dd, lf, Pairs, O, D), NEW a \in Addrs, InLf(f, lf, a)
  PROVE  <<lf, LostName(a)>> \in Linking(f, Pairs, a)
<1>1. lf \in Addrs /\ f.mode[lf] = "dir" /\ LostName(a) \in DOMAIN f.ents[lf]
  BY DEF Whole, LostAndFound, InLf
<1>2. f.ents[lf][LostName(a)].to = a
  BY <1>1 DEF Whole, GoodNames
<1>3. <<lf, LostName(a)>> \in Pairs
  BY <1>1, NamesApart DEF Pairs
<1>4. QED
  BY <1>1, <1>2, <1>3, LinkingIs DEF Points

LEMMA Connected3Keeps == ASSUME LinksKept, IInv, Connected3 PROVE LinksKept'
<1>1. InPass3 /\ NextDir /\ UNCHANGED <<fs, links, checked, dotdot_parent, lf_dip, declined>>
  BY DEF Connected3, NoQuery
<1>2. QED
  BY <1>1, InPass3Facts, Pass3Keeps

LEMMA ParentsAgree3Keeps == ASSUME LinksKept, IInv, ParentsAgree3 PROVE LinksKept'
<1>1. /\ InPass3 /\ UNCHANGED <<fs, links, dotdot_parent, lf_dip, at, declined>>
      /\ Treewalk # None /\ checked' = checked \union {di} /\ di' = Treewalk
  BY DEF ParentsAgree3, NoQuery, Mark, HasParent
<1>2. /\ pc' = "pass3" /\ at \in links.dirtree /\ di \in Addrs /\ treewalk_parent' = treewalk_parent
      /\ Whole(fs, links, treewalk_parent, dotdot_parent, lf_dip, Pairs, Addrs \ checked, declined)
  BY <1>1, InPass3Facts
<1>3. di' \in links.dirtree
  BY <1>1, <1>2, ReachedFromDir DEF Treewalk
<1>4. Whole(fs', links', treewalk_parent', dotdot_parent', lf_dip', Pairs, Addrs \ checked', declined')
  <2>1. Addrs \ checked' \subseteq Addrs \ checked
    BY <1>1
  <2>2. QED
    BY <1>1, <1>2, <2>1, WholeShrinks
<1>5. QED
  BY <1>1, <1>2, <1>3, <1>4, Pass3Keeps

LEMMA AttachDotDotKeeps == ASSUME LinksKept, IInv, AttachDotDot PROVE LinksKept'
<1>1. PICK d, i, old, O, l2 :
        /\ d = di /\ i = Treewalk /\ old = DotDotParent /\ O = Addrs \ checked
        /\ l2 = IF old # None THEN DecrLinkCount(links, old) ELSE links
  OBVIOUS
<1>2. /\ InPass3 /\ UNCHANGED <<lf_dip, at, declined>> /\ i # None /\ d \notin checked \union {Root}
      /\ fs' = With(fs, d, DotDot, i) /\ links' = IncrLinkCount(l2, i)
      /\ dotdot_parent' = [dotdot_parent EXCEPT ![d] = i]
      /\ checked' = checked \union {d} /\ di' = i
  BY <1>1 DEF AttachDotDot, NoQuery, Mark, HasParent
<1>3. /\ pc' = "pass3" /\ at \in links.dirtree /\ d \in Addrs /\ treewalk_parent' = treewalk_parent
      /\ Whole(fs, links, treewalk_parent, dotdot_parent, lf_dip, Pairs, O, declined)
      /\ GoodFs(fs)
  BY <1>1, <1>2, InPass3Facts
<1>4. i = treewalk_parent[d] /\ old = dotdot_parent[d]
  BY <1>1 DEF Treewalk, DotDotParent
<1>5. i \in Addrs /\ fs.mode[i] = "dir" /\ i \in links.dirtree /\ fs.mode[d] = "dir"
  BY <1>2, <1>3, <1>4, ReachedFromDir
<1>6. d \in O /\ d # lf_dip
  BY <1>1, <1>2, <1>3, RootIsAddr DEF Whole, LostAndFound
<1>7. Entered(fs, fs', d, DotDot, i)
  BY <1>2, <1>3, WithEnters
<1>8. <<d, DotDot>> \in Pairs
  BY <1>3, NamesApart DEF Pairs
<1>9. Enterable(fs, links, treewalk_parent, lf_dip, O, d, DotDot, i)
  BY <1>2, <1>4, <1>5, <1>6, NamesApart DEF Enterable, Dots
<1>10. /\ old \in links.dirtree \cup {None}
       /\ old # None => Points(fs, d, DotDot, old)
       /\ old = None /\ DotDot \in DOMAIN fs.ents[d] =>
            Ghost(fs, treewalk_parent, lf_dip, declined, fs.ents[d][DotDot].to)
  BY <1>3, <1>4, <1>5, <1>6, <1>8 DEF Whole, DotDots
<1>11. GoodLinks(links) /\ GoodCounts(links) /\ Records(fs, links, treewalk_parent, lf_dip, O)
  BY <1>3 DEF Whole
<1>12. old # None => old \in Addrs
  BY <1>10, <1>11 DEF GoodLinks
<1>13. GoodLinks(l2) /\ GoodCounts(l2) /\ SameTrees(links, l2) /\ SameRest(links, l2)
  BY <1>1, <1>11, <1>12, DecrCounts DEF SameTrees, SameRest
<1>14. Records(fs, l2, treewalk_parent, lf_dip, O)
  BY <1>11, <1>13, SameRecords DEF SameRest
<1>15. ASSUME NEW k \in Addrs, Trusted(fs, links, treewalk_parent, lf_dip, declined, k)
       PROVE  Counted(l2, k) = IF k = dotdot_parent[d] THEN Counted(links, k) - 1 ELSE Counted(links, k)
  <2>1. Counted(links, k) \in Nat
    BY <1>11, CountedIsNat
  <2>2. k = old => Counted(links, k) > 0
    <3>1. SUFFICES ASSUME k = old PROVE Counted(links, k) > 0
      OBVIOUS
    <3>2. <<d, DotDot>> \in Linking(fs, Pairs, k)
      BY <1>8, <1>10, <3>1, LinkingIs, RootIsAddr
    <3>3. Counted(links, k) = Cardinality(Linking(fs, Pairs, k)) /\ IsFiniteSet(Linking(fs, Pairs, k))
      BY <1>3, <1>15, LinkingFinite DEF Whole, Counts
    <3>4. Cardinality(Linking(fs, Pairs, k)) # 0
      BY <3>2, <3>3, FS_EmptySet
    <3>5. QED
      BY <2>1, <3>3, <3>4
  <2>3. CASE old = None
    BY <1>1, <1>4, <2>3, RootIsAddr
  <2>4. CASE old # None
    <3>1. Counted(l2, k) = IF k = old /\ Counted(links, k) > 0 THEN Counted(links, k) - 1 ELSE Counted(links, k)
      BY <1>1, <1>11, <1>12, <2>4, DecrCounts
    <3>2. QED
      BY <1>4, <2>2, <3>1
  <2>5. QED
    BY <2>3, <2>4
<1>16. Whole(fs', links', treewalk_parent, dotdot_parent', lf_dip, Pairs, O, declined)
  BY <1>2, <1>3, <1>4, <1>5, <1>7, <1>8, <1>9, <1>10, <1>13, <1>14, <1>15, WholeDotDot
<1>17. Whole(fs', links', treewalk_parent', dotdot_parent', lf_dip', Pairs, Addrs \ checked', declined')
  <2>1. Addrs \ checked' \subseteq O
    BY <1>1, <1>2
  <2>2. QED
    BY <1>2, <1>3, <1>16, <2>1, WholeShrinks
<1>18. links'.dirtree = links.dirtree
  <2>1. SameTrees(l2, links')
    BY <1>2, <1>5, <1>13, IncrCounts
  <2>2. QED
    BY <1>13, <2>1 DEF SameTrees
<1>19. QED
  BY <1>2, <1>3, <1>5, <1>17, <1>18, Pass3Keeps
-----------------------------------------------------------------------------
(* An unlinked directory of zero size has no entry but its own.            *)
LEMMA UnlinkedIsBare ==
  ASSUME LinksKept, IInv, InPass3, NEW d, d = di, d \notin checked \cup {Root}, ~HasParent
  PROVE  /\ treewalk_parent[d] = None /\ fs.mode[d] = "dir" /\ d # lf_dip
         /\ d \in fs.empty => DOMAIN fs.ents[d] \subseteq {Dot}
<1>1. PICK O : O = Addrs \ checked
  OBVIOUS
<1>2. /\ d \in Addrs /\ d \in links.dirtree
      /\ Whole(fs, links, treewalk_parent, dotdot_parent, lf_dip, Pairs, O, declined)
  BY <1>1, InPass3Facts
<1>3. treewalk_parent[d] = None
  BY <1>2, ReachedFromDir DEF HasParent, Treewalk, InUse
<1>4. d \in O /\ fs.mode[d] = "dir" /\ d # lf_dip
  BY <1>1, <1>2, RootIsAddr DEF Whole, Records, LostAndFound
<1>5. ~InLf(fs, lf_dip, d)
  <2>1. SUFFICES ASSUME InLf(fs, lf_dip, d) PROVE FALSE
    OBVIOUS
  <2>2. <<lf_dip, LostName(d)>> \in Linking(fs, Pairs, d)
    BY <1>2, <2>1, InLfLinks
  <2>3. LostName(d) \in Dots
    BY <1>2, <1>3, <1>4, <2>2 DEF Whole, Reached
  <2>4. QED
    BY <1>2, <2>3, NamesApart
<1>6. d \in fs.empty => DOMAIN fs.ents[d] \subseteq {Dot}
  BY <1>2, <1>3, <1>4, <1>5 DEF Whole, NothingLost
<1>7. QED
  BY <1>3, <1>4, <1>6

LEMMA RemoveUnlinkedKeeps == ASSUME LinksKept, IInv, RemoveUnlinked PROVE LinksKept'
<1>1. PICK d, O : d = di /\ O = Addrs \ checked
  OBVIOUS
<1>2. /\ InPass3 /\ UNCHANGED <<links, dotdot_parent, lf_dip, declined>> /\ NextDir
      /\ d \notin checked \union {Root} /\ d \in fs.empty /\ ~HasParent
      /\ fs' = [fs EXCEPT !.mode[d] = "free"] /\ checked' = checked \union {d}
  BY <1>1 DEF RemoveUnlinked, NoQuery, Mark
<1>3. /\ pc' = "pass3" /\ d \in Addrs /\ treewalk_parent' = treewalk_parent
      /\ Whole(fs, links, treewalk_parent, dotdot_parent, lf_dip, Pairs, O, declined)
      /\ at' \in links.dirtree \cup {None} /\ di' = at'
  BY <1>1, <1>2, InPass3Facts
<1>4. /\ treewalk_parent[d] = None /\ fs.mode[d] = "dir" /\ d # lf_dip
      /\ DOMAIN fs.ents[d] \subseteq {Dot}
  BY <1>1, <1>2, UnlinkedIsBare
<1>5. Whole(fs', links, treewalk_parent, dotdot_parent, lf_dip, Pairs, O \ {d}, declined)
  BY <1>2, <1>3, <1>4, WholeFreed
<1>6. O \ {d} = Addrs \ checked'
  BY <1>1, <1>2
<1>7. QED
  BY <1>2, <1>3, <1>5, <1>6, Pass3Keeps

(* What the additions to lost+found do to the trees.                       *)
LEMMA IncrTrees ==
  ASSUME NEW l, GoodLinks(l), NEW i \in Addrs
  PROVE  /\ IncrLinkCount(l, i).dirtree = l.dirtree /\ l.inodetree \subseteq IncrLinkCount(l, i).inodetree
         /\ i \in l.dirtree \/ i \notin l.clink1map => IncrLinkCount(l, i).nlink1map = l.nlink1map
         /\ i \in l.dirtree => IncrLinkCount(l, i).clink1map = l.clink1map
<1>1. PICK m : m = IncrLinkCount(l, i)
  OBVIOUS
<1>2. CASE i \in l.outdated
  <2>1. m = l
    BY <1>1, <1>2 DEF IncrLinkCount
  <2>2. QED
    BY <1>1, <2>1
<1>3. CASE i \notin l.outdated /\ i \in l.dirtree \union l.inodetree
  <2>1. /\ m.dirtree = l.dirtree /\ m.inodetree = l.inodetree
        /\ m.nlink1map = l.nlink1map /\ m.clink1map = l.clink1map
    BY <1>1, <1>3 DEF GoodLinks, LinkFields, IncrLinkCount
  <2>2. QED
    BY <1>1, <2>1
<1>4. CASE i \notin l.outdated /\ i \notin l.dirtree \union l.inodetree /\ i \notin l.clink1map
  <2>1. m.dirtree = l.dirtree /\ m.inodetree = l.inodetree /\ m.nlink1map = l.nlink1map
    BY <1>1, <1>4 DEF GoodLinks, LinkFields, IncrLinkCount
  <2>2. QED
    BY <1>1, <1>4, <2>1
<1>5. CASE i \notin l.outdated /\ i \notin l.dirtree \union l.inodetree /\ i \in l.clink1map
  <2>1. m.dirtree = l.dirtree /\ m.inodetree = l.inodetree \cup {i}
    <3>1. m = MovedToInodetree(l, i)
      BY <1>1, <1>5 DEF IncrLinkCount
    <3>2. QED
      BY <3>1 DEF GoodLinks, LinkFields, MovedToInodetree
  <2>2. QED
    BY <1>1, <1>5, <2>1
<1>6. QED
  BY <1>2, <1>3, <1>4, <1>5

LEMMA DecrTrees ==
  ASSUME NEW l, GoodLinks(l), NEW i
  PROVE  /\ DecrLinkCount(l, i).dirtree = l.dirtree /\ DecrLinkCount(l, i).inodetree = l.inodetree
         /\ DecrLinkCount(l, i).nlink1map = l.nlink1map
  BY DEF GoodLinks, LinkFields, DecrLinkCount

LEMMA WithLfTrees ==
  ASSUME GoodLinks(links), LfPossible, IInv, Root \in links.dirtree
  PROVE  /\ GoodLinks(LinksWithLf)
         /\ links.dirtree \subseteq LinksWithLf.dirtree /\ links.inodetree \subseteq LinksWithLf.inodetree
         /\ LinksWithLf.nlink1map = links.nlink1map /\ LinksWithLf.clink1map = links.clink1map
<1>1. PICK synced : synced = [links EXCEPT !.di_nlink[Root] = FsWithLf.nlink[Root]]
  OBVIOUS
<1>2. PICK ins : ins = IF Lf \in links.dirtree
                       THEN [synced EXCEPT !.outdated = @ \union {Lf}]
                       ELSE [synced EXCEPT !.dirtree = @ \union {Lf}, !.di_nlink[Lf] = 0,
                                           !.counted_links[Lf] = 0]
  OBVIOUS
<1>3. /\ DOMAIN synced = LinkFields /\ synced.dirtree = links.dirtree /\ synced.inodetree = links.inodetree
      /\ synced.nlink1map = links.nlink1map /\ synced.clink1map = links.clink1map
  BY <1>1 DEF GoodLinks, LinkFields
<1>4. /\ DOMAIN ins = LinkFields /\ ins.dirtree = links.dirtree \cup {Lf} /\ ins.inodetree = links.inodetree
      /\ ins.nlink1map = links.nlink1map /\ ins.clink1map = links.clink1map
  BY <1>2, <1>3 DEF LinkFields
<1>5. GoodLinks(ins) /\ Lf \in Addrs
  BY <1>4, LfIsAddr DEF GoodLinks
<1>6. PICK a : a = IncrLinkCount(ins, Lf)
  OBVIOUS
<1>7. GoodLinks(a) /\ a.dirtree = ins.dirtree /\ ins.inodetree \subseteq a.inodetree
      /\ a.nlink1map = ins.nlink1map /\ a.clink1map = ins.clink1map
  BY <1>4, <1>5, <1>6, IncrTrees, IncrGood
<1>8. PICK b : b = IncrLinkCount(a, Lf)
  OBVIOUS
<1>9. GoodLinks(b) /\ b.dirtree = ins.dirtree /\ ins.inodetree \subseteq b.inodetree
      /\ b.nlink1map = ins.nlink1map /\ b.clink1map = ins.clink1map
  BY <1>4, <1>5, <1>7, <1>8, IncrTrees, IncrGood
<1>10. PICK c : c = IncrLinkCount(b, Root)
  OBVIOUS
<1>11. c.dirtree = ins.dirtree /\ ins.inodetree \subseteq c.inodetree
       /\ c.nlink1map = ins.nlink1map /\ c.clink1map = ins.clink1map
  BY <1>4, <1>9, <1>10, IncrTrees, RootIsAddr
<1>12. LinksWithLf \in {links, synced, c}
  BY <1>1, <1>2, <1>6, <1>8, <1>10 DEF LinksWithLf
<1>13. QED
  BY <1>3, <1>4, <1>11, <1>12, LinksWithLfGood

LEMMA AddedTrees ==
  ASSUME IInv, LfPossible, Root \in links.dirtree, NEW i \in Addrs,
         fs.mode[i] = "dir" => i \in links.dirtree
  PROVE  /\ links.dirtree \subseteq LinksAdded(i).dirtree /\ links.inodetree \subseteq LinksAdded(i).inodetree
         /\ Lf \in LinksWithLf.dirtree /\ i \notin links.clink1map =>
              LinksAdded(i).nlink1map = links.nlink1map
<1>1. PICK w : w = LinksWithLf
  OBVIOUS
<1>2. GoodLinks(w) /\ links.dirtree \subseteq w.dirtree /\ links.inodetree \subseteq w.inodetree
      /\ w.nlink1map = links.nlink1map /\ w.clink1map = links.clink1map
  BY <1>1, WithLfTrees DEF IInv
<1>3. PICK un : un = IF UndoesDotDot(i) THEN DecrLinkCount(w, OldParent(i)) ELSE w
  OBVIOUS
<1>4. GoodLinks(un) /\ un.dirtree = w.dirtree /\ un.inodetree = w.inodetree /\ un.nlink1map = w.nlink1map
  BY <1>2, <1>3, DecrTrees, DecrGood
<1>5. PICK sy : sy = IF DotDotUndone(i)
                     THEN [un EXCEPT !.di_nlink[OldParent(i)] = FsWithLf.nlink[OldParent(i)] - 1] ELSE un
  OBVIOUS
<1>6. GoodLinks(sy) /\ sy.dirtree = w.dirtree /\ sy.inodetree = w.inodetree /\ sy.nlink1map = w.nlink1map
  BY <1>4, <1>5 DEF GoodLinks, LinkFields
<1>7. PICK a : a = IncrLinkCount(sy, i)
  OBVIOUS
<1>8. GoodLinks(a) /\ a.dirtree = w.dirtree /\ w.inodetree \subseteq a.inodetree
  BY <1>6, <1>7, IncrTrees, IncrGood
<1>9. PICK b : b = IncrLinkCount(a, Lf)
  OBVIOUS
<1>10. b.dirtree = w.dirtree /\ w.inodetree \subseteq b.inodetree
  BY <1>8, <1>9, IncrTrees, LfIsAddr
<1>11. PICK c : c = IncrLinkCount(w, i)
  OBVIOUS
<1>12. /\ c.dirtree = w.dirtree /\ w.inodetree \subseteq c.inodetree
       /\ i \notin links.clink1map => c.nlink1map = w.nlink1map
  BY <1>2, <1>11, IncrTrees
<1>13. LinksAdded(i) = IF i = Lf THEN w ELSE IF fs.mode[i] = "dir" THEN b ELSE c
  BY <1>1, <1>3, <1>5, <1>7, <1>9, <1>11 DEF LinksAdded, LinksAttached
<1>14. fs.mode[i] = "dir" /\ Lf \in w.dirtree => b.nlink1map = w.nlink1map
  <2>1. SUFFICES ASSUME fs.mode[i] = "dir", Lf \in w.dirtree PROVE b.nlink1map = w.nlink1map
    OBVIOUS
  <2>2. a.nlink1map = w.nlink1map
    BY <1>2, <1>6, <1>7, <2>1, IncrTrees
  <2>3. QED
    BY <1>8, <1>9, <2>1, <2>2, IncrTrees, LfIsAddr
<1>15. QED
  BY <1>1, <1>2, <1>10, <1>12, <1>13, <1>14

(* add_inode_to_lf, and the directories that are out of pass3's way.       *)
LEMMA WholeAdded ==
  ASSUME LfPossible, NEW tw, NEW O, NEW D, Whole(fs, links, tw, dotdot_parent, lf_dip, Pairs, O, D),
         NEW i \in Addrs, i # Lf => fs.mode[i] # "free" /\ Loose(fs, D, i)
  PROVE  Whole(FsAdded(i), LinksAdded(i), tw, dotdot_parent, Lf, Pairs, (O \ {Lf}) \ {i}, D)
<1>1. CASE i = Lf
  <2>1. Whole(FsWithLf, LinksWithLf, tw, dotdot_parent, Lf, Pairs, O \ {Lf}, D)
    BY WholeWithLf
  <2>2. FsAdded(i) = FsWithLf /\ LinksAdded(i) = LinksWithLf /\ (O \ {Lf}) \ {i} = O \ {Lf}
    BY <1>1 DEF FsAdded, LinksAdded
  <2>3. QED
    BY <2>1, <2>2
<1>2. CASE i # Lf
  <2>1. FsAdded(i) = FsAttached(i) /\ LinksAdded(i) = LinksAttached(i)
    BY <1>2 DEF FsAdded, LinksAdded
  <2>2. QED
    BY <1>2, <2>1, WholeAttached
<1>3. QED
  BY <1>1, <1>2

LEMMA AttachUnlinkedKeeps == ASSUME LinksKept, IInv, AttachUnlinked PROVE LinksKept'
<1>1. PICK d, O : d = di /\ O = Addrs \ checked
  OBVIOUS
<1>2. /\ InPass3 /\ UNCHANGED dotdot_parent /\ NextDir /\ d \notin checked \union {Root} /\ ~HasParent
      /\ \/ /\ LfPossible /\ fs' = FsAdded(d) /\ links' = LinksAdded(d) /\ lf_dip' = Lf
            /\ checked' = checked \union {d, Lf}
         \/ checked' = checked \union {d} /\ UNCHANGED <<fs, links, lf_dip>>
  BY <1>1 DEF AttachUnlinked, Mark
<1>3. declined \subseteq declined'
  BY DEF AttachUnlinked, Query
<1>4. /\ pc' = "pass3" /\ d \in Addrs /\ treewalk_parent' = treewalk_parent /\ d \in links.dirtree
      /\ Whole(fs, links, treewalk_parent, dotdot_parent, lf_dip, Pairs, O, declined)
      /\ at' \in links.dirtree \cup {None} /\ di' = at'
  BY <1>1, <1>2, InPass3Facts
<1>5. treewalk_parent[d] = None
  BY <1>1, <1>2, <1>4, ReachedFromDir DEF HasParent, Treewalk, InUse
<1>6. d \in O /\ fs.mode[d] = "dir"
  BY <1>1, <1>2, <1>4 DEF Whole, Records
<1>7. CASE checked' = checked \union {d} /\ UNCHANGED <<fs, links, lf_dip>>
  <2>1. Addrs \ checked' \subseteq O
    BY <1>1, <1>7
  <2>2. Whole(fs', links', treewalk_parent', dotdot_parent', lf_dip', Pairs, Addrs \ checked', declined')
    BY <1>2, <1>3, <1>4, <1>7, <2>1, WholeShrinks
  <2>3. QED
    BY <1>4, <1>7, <2>2, Pass3Keeps
<1>8. CASE /\ LfPossible /\ fs' = FsAdded(d) /\ links' = LinksAdded(d) /\ lf_dip' = Lf
           /\ checked' = checked \union {d, Lf}
  <2>1. Loose(fs, declined, d)
    <3>1. ASSUME NEW a \in Addrs, <<a, LostName(d)>> \in Linking(fs, Pairs, d) PROVE FALSE
      <4>1. LostName(d) \in Dots
        BY <1>4, <1>5, <1>6, <3>1 DEF Whole, Reached
      <4>2. QED
        BY <1>4, <4>1, NamesApart
    <3>2. QED
      BY <3>1 DEF Loose
  <2>2. Whole(FsAdded(d), LinksAdded(d), treewalk_parent, dotdot_parent, Lf, Pairs, (O \ {Lf}) \ {d}, declined)
    BY <1>4, <1>6, <1>8, <2>1, WholeAdded
  <2>3. Addrs \ checked' \subseteq (O \ {Lf}) \ {d}
    BY <1>1, <1>8
  <2>4. Whole(FsAdded(d), LinksAdded(d), treewalk_parent, dotdot_parent, Lf, Pairs, Addrs \ checked', declined')
    BY <1>3, <2>2, <2>3, WholeShrinks
  <2>5. Whole(fs', links', treewalk_parent', dotdot_parent', lf_dip', Pairs, Addrs \ checked', declined')
    BY <1>2, <1>4, <1>8, <2>4
  <2>6. links.dirtree \subseteq links'.dirtree
    BY <1>4, <1>8, AddedTrees DEF Whole, Records
  <2>7. QED
    BY <1>4, <2>5, <2>6, Pass3Keeps
<1>9. QED
  BY <1>2, <1>7, <1>8
-----------------------------------------------------------------------------
(* pass4, and after.                                                       *)
LEMMA Pass4Keeps ==
  ASSUME pc' \notin {"pass2", "pass3"}, AtRecord',
         Whole(fs', links', treewalk_parent', dotdot_parent', lf_dip', Pairs, {}, declined')
  PROVE  LinksKept'
<1>1. Open' = {} /\ Visible' = Pairs
  BY AllSeen DEF Open
<1>2. Whole(fs', links', treewalk_parent', dotdot_parent', lf_dip', Visible', Open', declined')
  BY <1>1
<1>3. BeforePass3'
  BY DEF BeforePass3
<1>4. QED
  BY <1>2, <1>3, KeptNext

LEMMA InPass4Facts ==
  ASSUME LinksKept, IInv, InPass4At
  PROVE  /\ pc \in {"pass4_inodes", "pass4_dirs", "pass4_nlink1"} /\ pc' = pc /\ at \in Addrs /\ at \in ListOf(pc)
         /\ treewalk_parent' = treewalk_parent /\ dotdot_parent' = dotdot_parent
         /\ Whole(fs, links, treewalk_parent, dotdot_parent, lf_dip, Pairs, {}, declined)
         /\ at' \in ListOf(pc) \cup {None} /\ GoodLinks(links) /\ GoodFs(fs)
<1>1. /\ pc \in {"pass4_inodes", "pass4_dirs", "pass4_nlink1"} /\ at # None
      /\ at' = NextOf(ListOf(pc), at) /\ UNCHANGED <<pc, treewalk_parent, dotdot_parent>>
  BY DEF InPass4At, InPass4
<1>2. Open = {} /\ Visible = Pairs
  BY <1>1, AllSeen DEF Open
<1>3. GoodLinks(links) /\ GoodFs(fs) /\ at \in Addrs
  BY <1>1 DEF IInv
<1>4. ListOf(pc) \subseteq Addrs /\ at \in ListOf(pc)
  BY <1>1, <1>3 DEF ListOf, GoodLinks, LinksKept, AtRecord
<1>5. at' \in ListOf(pc) \cup {None}
  BY <1>1, <1>4, NextAfter
<1>6. QED
  BY <1>1, <1>2, <1>3, <1>4, <1>5 DEF LinksKept

(* The lists are the same or longer, and at goes on in its own.            *)
LEMMA AtRecordKeeps ==
  ASSUME pc' = pc, pc \in {"pass4_inodes", "pass4_dirs", "pass4_nlink1"}, at' \in ListOf(pc) \cup {None},
         pc = "pass4_dirs" => links.dirtree \subseteq links'.dirtree,
         pc = "pass4_inodes" => links.inodetree \subseteq links'.inodetree,
         pc = "pass4_nlink1" => links.nlink1map \subseteq links'.nlink1map
  PROVE  AtRecord'
  BY DEF AtRecord, ListOf, Passes

(* Nothing links to what pass4 finds unlinked, unless it was left so.      *)
LEMMA UnlinkedHere ==
  ASSUME LinksKept, IInv, InPass4At, IsUnlinked, InUse(at)
  PROVE  \/ /\ at = lf_dip /\ fs.mode[at] = "dir"
            /\ at \in fs.empty => treewalk_parent[at] # None /\ Linking(fs, Pairs, at) = {}
         \/ /\ at # lf_dip /\ fs.mode[at] = "dir" /\ Linking(fs, Pairs, at) = {}
         \/ /\ at # lf_dip /\ fs.mode[at] = "file" /\ (at \in declined \/ Linking(fs, Pairs, at) = {})
<1>1. /\ pc \in {"pass4_inodes", "pass4_dirs", "pass4_nlink1"} /\ at \in Addrs /\ at \in ListOf(pc)
      /\ Whole(fs, links, treewalk_parent, dotdot_parent, lf_dip, Pairs, {}, declined)
  BY InPass4Facts
<1>2. fs.mode[at] \in {"dir", "file"}
  BY <1>1 DEF Whole, GoodNames, Modes, InUse
<1>3. Trusted(fs, links, treewalk_parent, lf_dip, declined, at) /\ Counted(links, at) = 0 =>
        Linking(fs, Pairs, at) = {}
  <2>1. SUFFICES ASSUME Trusted(fs, links, treewalk_parent, lf_dip, declined, at), Counted(links, at) = 0
                 PROVE  Linking(fs, Pairs, at) = {}
    OBVIOUS
  <2>2. Cardinality(Linking(fs, Pairs, at)) = 0 /\ IsFiniteSet(Linking(fs, Pairs, at))
    BY <1>1, <2>1, LinkingFinite DEF Whole, Counts
  <2>3. QED
    BY <2>2, FS_EmptySet
<1>4. /\ links.outdated \subseteq {lf_dip}
      /\ fs.mode[at] = "file" => at \notin links.dirtree
      /\ fs.mode[at] = "dir" => at \in links.dirtree
      /\ at \in links.nlink1map => at \notin links.inodetree
      /\ (at \in links.inodetree \/ at \in links.nlink1map) /\ fs.mode[at] = "dir" =>
            at = lf_dip /\ treewalk_parent[at] = None
  BY <1>1 DEF Whole, Records, GoodCounts
<1>5. lf_dip # None => /\ fs.mode[lf_dip] = "dir"
                       /\ lf_dip \in links.outdated => treewalk_parent[lf_dip] = None
                       /\ treewalk_parent[lf_dip] = None => lf_dip \notin fs.empty
  BY <1>1 DEF Whole, LostAndFound
<1>6. at # None
  BY <1>1, RootIsAddr
<1>7. CASE fs.mode[at] = "file"
  <2>1. at # lf_dip /\ at \notin links.dirtree /\ at \notin links.outdated
    BY <1>4, <1>5, <1>6, <1>7
  <2>2. Counted(links, at) = 0
    <3>1. CASE pc = "pass4_inodes"
      BY <1>1, <3>1 DEF ListOf, IsUnlinked, Counted
    <3>2. CASE pc = "pass4_nlink1"
      BY <1>1, <1>4, <2>1, <3>2 DEF ListOf, IsUnlinked, Counted
    <3>3. CASE pc = "pass4_dirs"
      BY <1>1, <2>1, <3>3 DEF ListOf
    <3>4. QED
      BY <1>1, <3>1, <3>2, <3>3
  <2>3. at \notin declined => Trusted(fs, links, treewalk_parent, lf_dip, declined, at)
    BY <1>7, <2>1 DEF Trusted, Ghost
  <2>4. QED
    BY <1>3, <1>7, <2>1, <2>2, <2>3
<1>8. CASE fs.mode[at] = "dir"
  <2>1. pc = "pass4_dirs" => Counted(links, at) = 0
    BY <1>1 DEF ListOf, IsUnlinked, Counted
  <2>2. pc # "pass4_dirs" => at = lf_dip /\ treewalk_parent[at] = None
    BY <1>1, <1>4, <1>8 DEF ListOf
  <2>3. CASE at = lf_dip
    <3>1. SUFFICES ASSUME at \in fs.empty
                   PROVE  treewalk_parent[at] # None /\ Linking(fs, Pairs, at) = {}
      BY <1>8, <2>3
    <3>2. treewalk_parent[at] # None /\ at \notin links.outdated
      BY <1>5, <1>6, <2>3, <3>1
    <3>3. Trusted(fs, links, treewalk_parent, lf_dip, declined, at)
      BY <1>8, <3>2 DEF Trusted, Ghost
    <3>4. QED
      BY <1>3, <2>1, <2>2, <3>2, <3>3
  <2>4. CASE at # lf_dip
    <3>1. Trusted(fs, links, treewalk_parent, lf_dip, declined, at)
      BY <1>4, <1>8, <2>4 DEF Trusted, Ghost
    <3>2. QED
      BY <1>3, <1>8, <2>1, <2>2, <2>4, <3>1
  <2>5. QED
    BY <2>3, <2>4
<1>9. QED
  BY <1>2, <1>7, <1>8

LEMMA LinkCountRightKeeps == ASSUME LinksKept, IInv, LinkCountRight \/ UnlinkedIsFree PROVE LinksKept'
<1>1. InPass4At /\ UNCHANGED <<fs, links, lf_dip, declined>>
  BY DEF LinkCountRight, UnlinkedIsFree, NoQuery
<1>2. AtRecord'
  BY <1>1, InPass4Facts, AtRecordKeeps
<1>3. QED
  BY <1>1, <1>2, InPass4Facts, Pass4Keeps

LEMMA HandleInconsistKeeps == ASSUME LinksKept, IInv, HandleInconsist PROVE LinksKept'
<1>1. PICK k : k = links.counted_links[at]
  OBVIOUS
<1>2. /\ InPass4At /\ UNCHANGED lf_dip
      /\ \/ fs' = [fs EXCEPT !.nlink[at] = k] /\ links' = [links EXCEPT !.di_nlink[at] = k]
         \/ UNCHANGED <<fs, links>>
  BY <1>1 DEF HandleInconsist
<1>3. declined \subseteq declined'
  BY DEF HandleInconsist, Query
<1>4. /\ pc \in {"pass4_inodes", "pass4_dirs", "pass4_nlink1"} /\ pc' = pc
      /\ treewalk_parent' = treewalk_parent /\ dotdot_parent' = dotdot_parent
      /\ Whole(fs, links, treewalk_parent, dotdot_parent, lf_dip, Pairs, {}, declined)
      /\ at' \in ListOf(pc) \cup {None} /\ GoodLinks(links)
  BY <1>2, InPass4Facts
<1>5. Whole(fs, links, treewalk_parent, dotdot_parent, lf_dip, Pairs, {}, declined')
  BY <1>3, <1>4, WholeShrinks
<1>6. Whole(fs', links', treewalk_parent, dotdot_parent, lf_dip, Pairs, {}, declined')
  <2>1. CASE fs' = [fs EXCEPT !.nlink[at] = k] /\ links' = [links EXCEPT !.di_nlink[at] = k]
    <3>1. PICK g, m : g = fs' /\ m = links'
      OBVIOUS
    <3>2. Whole(fs, m, treewalk_parent, dotdot_parent, lf_dip, Pairs, {}, declined')
      BY <1>5, <2>1, <3>1, WholeSync
    <3>3. Whole(g, m, treewalk_parent, dotdot_parent, lf_dip, Pairs, {}, declined')
      BY <2>1, <3>1, <3>2, WholeNlink
    <3>4. QED
      BY <3>1, <3>3
  <2>2. QED
    BY <1>2, <1>5, <2>1
<1>7. links'.dirtree = links.dirtree /\ links'.inodetree = links.inodetree /\ links'.nlink1map = links.nlink1map
  BY <1>2, <1>4 DEF GoodLinks, LinkFields
<1>8. AtRecord'
  BY <1>4, <1>7, AtRecordKeeps
<1>9. QED
  BY <1>2, <1>4, <1>6, <1>8, Pass4Keeps

LEMMA ClearedIsBare ==
  ASSUME LinksKept, IInv, InPass4At, IsUnlinked, InUse(at), at \in fs.empty
  PROVE  /\ treewalk_parent[at] = None /\ at # lf_dip
         /\ \/ fs.mode[at] = "dir" /\ DOMAIN fs.ents[at] \subseteq {Dot}
            \/ fs.mode[at] = "file" /\ (at \in declined \/ Linking(fs, Pairs, at) = {})
<1>1. PICK d : d = at
  OBVIOUS
<1>2. /\ d \in Addrs
      /\ Whole(fs, links, treewalk_parent, dotdot_parent, lf_dip, Pairs, {}, declined)
  BY <1>1, InPass4Facts
<1>3. \/ /\ d = lf_dip /\ fs.mode[d] = "dir" /\ treewalk_parent[d] # None /\ Linking(fs, Pairs, d) = {}
      \/ /\ d # lf_dip /\ fs.mode[d] = "dir" /\ Linking(fs, Pairs, d) = {}
      \/ /\ d # lf_dip /\ fs.mode[d] = "file" /\ (d \in declined \/ Linking(fs, Pairs, d) = {})
  BY <1>1, UnlinkedHere
<1>4. treewalk_parent[d] # None => fs.mode[d] = "dir" /\ Linking(fs, Pairs, d) # {}
  BY <1>2, ReachedFromDir
<1>5. treewalk_parent[d] = None /\ d # lf_dip
  BY <1>3, <1>4
<1>6. ASSUME fs.mode[d] = "dir" PROVE DOMAIN fs.ents[d] \subseteq {Dot}
  <2>1. Linking(fs, Pairs, d) = {}
    BY <1>3, <1>6
  <2>2. ~InLf(fs, lf_dip, d)
    BY <1>2, <2>1, InLfLinks
  <2>3. ~(d = Root /\ lf_dip # None /\ treewalk_parent[lf_dip] = None)
    BY <1>2, <2>1 DEF Whole, LostAndFound
  <2>4. QED
    BY <1>1, <1>2, <1>5, <1>6, <2>2, <2>3 DEF Whole, NothingLost
<1>7. QED
  BY <1>1, <1>3, <1>5, <1>6

LEMMA ClearUnlinkedKeeps == ASSUME LinksKept, IInv, ClearUnlinked PROVE LinksKept'
<1>1. PICK d : d = at
  OBVIOUS
<1>2. /\ InPass4At /\ IsUnlinked /\ InUse(at) /\ d \in fs.empty
      /\ fs' = [fs EXCEPT !.mode[d] = "free"] /\ UNCHANGED <<links, lf_dip, declined>>
  BY <1>1 DEF ClearUnlinked, NoQuery
<1>3. /\ pc \in {"pass4_inodes", "pass4_dirs", "pass4_nlink1"} /\ pc' = pc /\ d \in Addrs
      /\ treewalk_parent' = treewalk_parent /\ dotdot_parent' = dotdot_parent
      /\ Whole(fs, links, treewalk_parent, dotdot_parent, lf_dip, Pairs, {}, declined)
      /\ at' \in ListOf(pc) \cup {None}
  BY <1>1, <1>2, InPass4Facts
<1>4. /\ treewalk_parent[d] = None /\ d # lf_dip
      /\ \/ fs.mode[d] = "dir" /\ DOMAIN fs.ents[d] \subseteq {Dot}
         \/ fs.mode[d] = "file" /\ (d \in declined \/ Linking(fs, Pairs, d) = {})
  BY <1>1, <1>2, ClearedIsBare
<1>5. Whole(fs', links, treewalk_parent, dotdot_parent, lf_dip, Pairs, {} \ {d}, declined)
  BY <1>2, <1>3, <1>4, WholeFreed
<1>6. {} \ {d} = {}
  OBVIOUS
<1>7. AtRecord'
  BY <1>2, <1>3, AtRecordKeeps
<1>8. QED
  BY <1>2, <1>3, <1>5, <1>6, <1>7, Pass4Keeps

LEMMA RelinkUnlinkedKeeps == ASSUME LinksKept, IInv, RelinkUnlinked PROVE LinksKept'
<1>1. PICK i, k : i = at /\ k = CountOf(LinksAdded(at))
  OBVIOUS
<1>2. /\ InPass4At /\ IsUnlinked /\ InUse(at)
      /\ \/ /\ LfPossible /\ links' = LinksAdded(i) /\ lf_dip' = Lf
            /\ fs' = [FsAdded(i) EXCEPT !.nlink[i] = k]
         \/ UNCHANGED <<fs, links, lf_dip>>
  BY <1>1 DEF RelinkUnlinked
<1>3. declined \subseteq declined'
  BY DEF RelinkUnlinked, Query
<1>4. /\ pc \in {"pass4_inodes", "pass4_dirs", "pass4_nlink1"} /\ pc' = pc /\ i \in Addrs /\ i \in ListOf(pc)
      /\ treewalk_parent' = treewalk_parent /\ dotdot_parent' = dotdot_parent
      /\ Whole(fs, links, treewalk_parent, dotdot_parent, lf_dip, Pairs, {}, declined)
      /\ at' \in ListOf(pc) \cup {None}
  BY <1>1, <1>2, InPass4Facts
<1>5. CASE UNCHANGED <<fs, links, lf_dip>>
  <2>1. Whole(fs, links, treewalk_parent, dotdot_parent, lf_dip, Pairs, {}, declined')
    BY <1>3, <1>4, WholeShrinks
  <2>2. AtRecord'
    BY <1>4, <1>5, AtRecordKeeps
  <2>3. QED
    BY <1>4, <1>5, <2>1, <2>2, Pass4Keeps
<1>6. CASE /\ LfPossible /\ links' = LinksAdded(i) /\ lf_dip' = Lf
           /\ fs' = [FsAdded(i) EXCEPT !.nlink[i] = k]
  <2>1. fs.mode[i] # "free"
    BY <1>1, <1>2 DEF InUse
  <2>2. i # Lf => Loose(fs, declined, i)
    <3>1. SUFFICES ASSUME i # Lf, fs.mode[i] = "dir" \/ i \notin declined
                   PROVE  Linking(fs, Pairs, i) = {}
      BY DEF Loose
    <3>2. i # lf_dip
      BY <1>4, <3>1, RootIsAddr DEF Lf
    <3>3. QED
      BY <1>1, <1>2, <3>1, <3>2, UnlinkedHere
  <2>3. Whole(FsAdded(i), LinksAdded(i), treewalk_parent, dotdot_parent, Lf, Pairs, ({} \ {Lf}) \ {i}, declined)
    BY <1>4, <1>6, <2>1, <2>2, WholeAdded
  <2>4. Whole(FsAdded(i), LinksAdded(i), treewalk_parent, dotdot_parent, Lf, Pairs, {}, declined')
    BY <1>3, <2>3, WholeShrinks
  <2>5. Whole(fs', links', treewalk_parent', dotdot_parent', lf_dip', Pairs, {}, declined')
    BY <1>4, <1>6, <2>4, WholeNlink
  <2>6. Root \in links.dirtree /\ (fs.mode[i] = "dir" => i \in links.dirtree)
    BY <1>4 DEF Whole, Records
  <2>7. Lf \in LinksWithLf.dirtree
    <3>1. Lf \in Addrs /\ \E O : Whole(FsWithLf, LinksWithLf, treewalk_parent, dotdot_parent, Lf, Pairs, O, declined)
      BY <1>4, <1>6, WholeWithLf
    <3>2. QED
      BY <3>1, RootIsAddr DEF Whole, LostAndFound, Records
  <2>8. /\ links.dirtree \subseteq links'.dirtree /\ links.inodetree \subseteq links'.inodetree
        /\ i \notin links.clink1map => links'.nlink1map = links.nlink1map
    BY <1>4, <1>6, <2>6, <2>7, AddedTrees
  <2>9. pc = "pass4_nlink1" => i \notin links.clink1map
    BY <1>1, <1>2 DEF IsUnlinked
  <2>10. AtRecord'
    BY <1>4, <2>8, <2>9, AtRecordKeeps
  <2>11. QED
    BY <1>4, <2>5, <2>10, Pass4Keeps
<1>7. QED
  BY <1>2, <1>5, <1>6
-----------------------------------------------------------------------------
(* From one pass to the next.                                              *)
LEMMA StartsAt ==
  ASSUME IInv, NEW p, Start(p), p \in Passes \ {"pass2"}, links' = links
  PROVE  pc' = p /\ AtRecord'
<1>1. pc' = p /\ at' = NextOf(ListOf(p), 0) /\ (p = "pass3" => di' = at')
  BY DEF Start, FirstOf
<1>2. ListOf(p) \subseteq Addrs
  BY DEF ListOf, IInv, GoodLinks
<1>3. at' \in ListOf(p) \cup {None}
  BY <1>1, <1>2, NextAfter
<1>4. QED
  BY <1>1, <1>3 DEF AtRecord, ListOf, Passes

(* pass3 is begun only once pass2 has run to its end.                      *)
LEMMA BetweenStarts ==
  ASSUME LeavePass \/ EndPass \/ ExitWithoutLf, LinksKept, "pass2" \notin cut'
  PROVE  \E p \in Passes \ {"pass2"} : Start(p) /\ (p = "pass3" => pc = "pass2")
<1>1. pc \in Passes
  BY DEF LinksKept, AtRecord
<1>2. CASE ExitWithoutLf
  BY <1>2 DEF ExitWithoutLf, Passes
<1>3. CASE (LeavePass \/ EndPass) /\ pc \in {"pass2", "pass3", "pass4_inodes", "pass4_dirs", "pass4_nlink1"}
  BY <1>3 DEF LeavePass, EndPass, AfterThis, Passes, InPass4
<1>4. QED
  BY <1>1, <1>2, <1>3 DEF LeavePass, EndPass, Passes

LEMMA BetweenKeeps ==
  ASSUME LinksInv, IInv, LeavePass \/ EndPass \/ ExitWithoutLf
  PROVE  LinksInv'
<1>1. SUFFICES ASSUME "pass2" \notin cut' PROVE LinksKept'
  BY DEF LinksInv
<1>2. cut \subseteq cut' /\ UNCHANGED <<links, treewalk_parent, dotdot_parent, checked, lf_dip>>
  BY DEF LeavePass, EndPass, ExitWithoutLf, dirinfo
<1>3. LinksKept
  BY <1>1, <1>2 DEF LinksInv
<1>4. declined \subseteq declined'
  BY DEF LeavePass, EndPass, ExitWithoutLf, Query
<1>5. PICK a, k : fs' = fs \/ fs' = [fs EXCEPT !.nlink[a] = k]
  BY DEF LeavePass, EndPass, ExitWithoutLf, AdjustedLf
<1>6. pc = "pass2" => at = None
  <2>1. LeavePass => pc # "pass2"
    BY <1>1 DEF LeavePass, ThisPass, InPass4
  <2>2. ExitWithoutLf => pc # "pass2"
    BY DEF ExitWithoutLf, InNeedOfLf, InPass4
  <2>3. QED
    BY <2>1, <2>2 DEF EndPass
<1>7. PICK p \in Passes \ {"pass2"} : Start(p) /\ (p = "pass3" => pc = "pass2")
  BY <1>1, <1>3, BetweenStarts
<1>8. pc' = p /\ AtRecord'
  BY <1>2, <1>7, StartsAt
<1>9. Visible = Pairs /\ Visible' = Pairs
  BY <1>6, <1>7, <1>8, AllSeen DEF Passes
<1>10. Open' \subseteq Open
  BY <1>2, <1>7, <1>8 DEF Open
<1>11. Whole(fs, links, treewalk_parent, dotdot_parent, lf_dip, Pairs, Open', declined')
  BY <1>3, <1>4, <1>9, <1>10, WholeShrinks DEF LinksKept
<1>12. Whole(fs', links', treewalk_parent', dotdot_parent', lf_dip', Visible', Open', declined')
  BY <1>2, <1>5, <1>9, <1>11, WholeNlink
<1>13. BeforePass3'
  BY <1>7, <1>8 DEF BeforePass3
<1>14. QED
  BY <1>8, <1>12, <1>13, KeptNext

LEMMA SameKeeps ==
  ASSUME LinksInv, UNCHANGED <<fs, links, dirinfo, lf_dip, pc, at, di, name, cut, declined>>
  PROVE  LinksInv'
<1>1. SUFFICES ASSUME "pass2" \notin cut PROVE LinksKept'
  BY DEF LinksInv
<1>2. LinksKept
  BY <1>1 DEF LinksInv
<1>3. Visible' = Visible /\ Open' = Open
  BY DEF Visible, Seen, Open, dirinfo
<1>4. BeforePass3' /\ AtRecord'
  BY <1>2 DEF LinksKept, BeforePass3, AtRecord, dirinfo
<1>5. Whole(fs', links', treewalk_parent', dotdot_parent', lf_dip', Visible', Open', declined')
  BY <1>2, <1>3 DEF LinksKept, dirinfo
<1>6. QED
  BY <1>4, <1>5, KeptNext

LEMMA PassesKeepCut ==
  ASSUME Pass2 \/ Pass3 \/ Pass4
  PROVE  cut' = cut
<1>1. Pass2 => cut' = cut
  BY DEF Pass2, Dentry, DentryToNoInode, DentryWrongFormal, DentryToSingle, DentryToMulti, DentryDot,
         DentryDotDot, DentryToDir, InPass2, EndOfDir
<1>2. Pass3 => cut' = cut
  BY DEF Pass3, Connected3, ParentsAgree3, AttachDotDot, RemoveUnlinked, AttachUnlinked, Mark, InPass3
<1>3. Pass4 => cut' = cut
  BY DEF Pass4, LinkCountRight, HandleInconsist, UnlinkedIsFree, ClearUnlinked, RelinkUnlinked, InPass4At
<1>4. QED
  BY <1>1, <1>2, <1>3

LEMMA LinksNext == IInv /\ LinksInv /\ [Next]_vars => LinksInv'
<1> SUFFICES ASSUME IInv, LinksInv, [Next]_vars PROVE LinksInv'
  OBVIOUS
<1>1. CASE Pass2 \/ Pass3 \/ Pass4
  <2>1. SUFFICES ASSUME "pass2" \notin cut PROVE LinksKept'
    BY <1>1, PassesKeepCut DEF LinksInv
  <2>2. LinksKept
    BY <2>1 DEF LinksInv
  <2>3. CASE Pass2
    BY <2>2, <2>3, DentryKeeps, EndOfDirKeeps DEF Pass2
  <2>4. CASE Pass3
    BY <2>2, <2>4, Connected3Keeps, ParentsAgree3Keeps, AttachDotDotKeeps, RemoveUnlinkedKeeps,
       AttachUnlinkedKeeps DEF Pass3
  <2>5. CASE Pass4
    BY <2>2, <2>5, LinkCountRightKeeps, HandleInconsistKeeps, ClearUnlinkedKeeps, RelinkUnlinkedKeeps DEF Pass4
  <2>6. QED
    BY <1>1, <2>3, <2>4, <2>5
<1>2. CASE LeavePass \/ EndPass \/ ExitWithoutLf
  BY <1>2, BetweenKeeps
<1>3. CASE (\E choice \in {"skip", "abort"} : Interrupt(choice)) \/ UNCHANGED vars
  <2>1. UNCHANGED <<fs, links, dirinfo, lf_dip, pc, at, di, name, cut, declined>>
    BY <1>3 DEF Interrupt, vars
  <2>2. QED
    BY <2>1, SameKeeps
<1>4. QED
  BY <1>1, <1>2, <1>3 DEF Next, Fsck

(* The run begins with nothing counted and nothing come to.                *)
LEMMA LinksInit == Init => LinksInv
<1> SUFFICES ASSUME Init PROVE LinksKept
  BY DEF LinksInv
<1>1. GoodImage(fs) /\ AsFound(fs) /\ IInv /\ fs \in Images
  BY DirLinksAssumption, InitGood DEF Init
<1>2. Root \in Addrs /\ None \notin Addrs
  BY RootIsAddr
<1>3. /\ pc = "pass2" /\ at = Root /\ name = 0 /\ checked = {} /\ lf_dip = None /\ declined = {}
      /\ links = NewLinks(fs)
      /\ treewalk_parent = [a \in Addrs |-> None] /\ dotdot_parent = [a \in Addrs |-> None]
  BY DEF Init
<1>4. Visible = {} /\ Open = Addrs
  <2>1. Addrs \subseteq Nat \ {0} /\ Names \subseteq Nat \ {0} /\ Root = 1 /\ None = 0
    BY DirLinksAssumption DEF Addrs, Names, Dot, DotDot, LostFound, Plain, LostName, Root, None
  <2>2. \A a \in Addrs, n \in Names : ~(a < Root) /\ ~(n <= 0) /\ Root # None
    BY <2>1
  <2>3. \A p \in Pairs : p \notin Visible
    BY <1>3, <2>2, PairIs DEF Visible, Seen
  <2>4. QED
    BY <1>3, <2>3 DEF Visible, Open
<1>5. \A i : Linking(fs, {}, i) = {}
  BY DEF Linking
<1>6. /\ links.dirtree = { a \in Addrs : fs.mode[a] = "dir" } /\ links.clink1map = {} /\ links.outdated = {}
      /\ links.inodetree = { a \in Addrs : fs.mode[a] = "file" /\ fs.nlink[a] # 1 }
      /\ links.nlink1map = { a \in Addrs : fs.mode[a] = "file" /\ fs.nlink[a] = 1 }
      /\ links.counted_links = [a \in Addrs |-> 0]
  BY <1>3 DEF NewLinks
<1>7. GoodFs(fs) /\ GoodLinks(links)
  BY <1>1 DEF IInv
<1>8. GoodNames(fs)
  BY <1>1 DEF GoodImage, AsFound, GoodNames
<1>9. GoodCounts(links)
  BY <1>6 DEF GoodCounts
<1>10. Records(fs, links, treewalk_parent, lf_dip, Addrs)
  BY <1>1, <1>2, <1>6 DEF Records, GoodImage
<1>11. Counts(fs, links, treewalk_parent, lf_dip, {}, declined)
  <2>1. \A i \in Addrs : Counted(links, i) = 0
    BY <1>6 DEF Counted
  <2>2. Cardinality({}) = 0
    BY FS_EmptySet
  <2>3. QED
    BY <1>5, <2>1, <2>2 DEF Counts
<1>12. FreeUnlinked(fs, links, {}, declined) /\ Reached(fs, treewalk_parent, {}, Addrs)
  BY <1>3, <1>5 DEF FreeUnlinked, Reached
<1>13. DotDots(fs, links, treewalk_parent, dotdot_parent, lf_dip, {}, Addrs, declined)
  BY <1>3 DEF DotDots
<1>14. LostAndFound(fs, links, treewalk_parent, lf_dip, {}, Addrs)
  BY <1>1, <1>3 DEF LostAndFound, AsFound
<1>15. NothingLost(fs, treewalk_parent, lf_dip)
  BY <1>1 DEF NothingLost, AsFound
<1>16. BeforePass3
  BY <1>1, <1>3, <1>6 DEF BeforePass3, GoodImage
<1>17. AtRecord
  BY <1>1, <1>2, <1>3, <1>6 DEF AtRecord, GoodImage, Passes
<1>18. QED
  BY <1>3, <1>4, <1>7, <1>8, <1>9, <1>10, <1>11, <1>12, <1>13, <1>14, <1>15, <1>16, <1>17 DEF LinksKept, Whole

-----------------------------------------------------------------------------
LEMMA LinksAlways == Spec => [](IInv /\ LinksInv)
  BY InitGood, NextGood, LinksInit, LinksNext, PTL DEF Spec

LEMMA LinkingIsLinksTo == ASSUME GoodFs(fs), GoodNames(fs), NEW i PROVE Linking(fs, Pairs, i) = LinksTo(i)
<1>1. ASSUME NEW p \in Linking(fs, Pairs, i) PROVE p \in LinksTo(i)
  <2>1. p[1] \in DirsInUse /\ p[2] \in { n \in DOMAIN fs.ents[p[1]] : fs.ents[p[1]][n].to = i }
        /\ p = <<p[1], p[2]>>
    BY <1>1, PairIs DEF Linking, Points, DirsInUse
  <2>2. p \in {p[1]} \X { n \in DOMAIN fs.ents[p[1]] : fs.ents[p[1]][n].to = i }
    BY <2>1
  <2>3. QED
    BY <2>1, <2>2 DEF LinksTo
<1>2. ASSUME NEW p \in LinksTo(i) PROVE p \in Linking(fs, Pairs, i)
  <2>1. PICK d \in DirsInUse : p \in {d} \X { n \in DOMAIN fs.ents[d] : fs.ents[d][n].to = i }
    BY DEF LinksTo
  <2>2. d \in Addrs /\ fs.mode[d] = "dir" /\ p[1] = d /\ p[2] \in DOMAIN fs.ents[d]
        /\ fs.ents[d][p[2]].to = i /\ p = <<p[1], p[2]>>
    BY <2>1 DEF DirsInUse
  <2>3. p \in Pairs
    BY <2>2 DEF Pairs, GoodNames
  <2>4. QED
    BY <2>2, <2>3 DEF Linking, Points
<1>3. QED
  BY <1>1, <1>2

(* After a pass2 that ran to its end, what is counted of a dinode is the   *)
(* number of links there are to it, whatever was removed, given a new ".." *)
(* or put in lost+found since: for every file system of any size.          *)
THEOREM CountsStayLinks == Spec => []CountsAreLinks
<1>1. IInv /\ LinksInv => CountsAreLinks
  <2> SUFFICES ASSUME IInv, LinksInv, pc # "pass2", "pass2" \notin cut,
                      NEW i \in Addrs \ declined, InUse(i), i \notin links.outdated
               PROVE  Counted(links, i) = Cardinality(LinksTo(i))
    BY DEF CountsAreLinks
  <2>1. Whole(fs, links, treewalk_parent, dotdot_parent, lf_dip, Pairs, Open, declined)
    BY AllSeen DEF LinksInv, LinksKept
  <2>2. Trusted(fs, links, treewalk_parent, lf_dip, declined, i)
    BY DEF Trusted, Ghost, InUse
  <2>3. Counted(links, i) = Cardinality(Linking(fs, Pairs, i))
    BY <2>1, <2>2 DEF Whole, Counts
  <2>4. QED
    BY <2>1, <2>3, LinkingIsLinksTo DEF Whole
<1>2. QED
  BY <1>1, LinksAlways, PTL

-----------------------------------------------------------------------------
(* Each directory is held by its parent alone: one pass3 has come to by    *)
(* the directory its ".." names, one it has still to come to by the one it *)
(* was reached from.                                                       *)
HeldAt(f, a) ==
    /\ DotDot \in DOMAIN f.ents[a]
    /\ \E n \in Names \ Dots : Points(f, f.ents[a][DotDot].to, n, a)
    /\ \A d \in Addrs : \A n \in Names \ Dots : Points(f, d, n, a) => d = f.ents[a][DotDot].to

HeldOpen(f, tw, S, O, D) == \A a \in O \ D :
    f.mode[a] = "dir" => \A p \in Linking(f, S, a) : p[2] \in Dots \/ p[1] = tw[a]
HeldClosed(f, lf, C, D) == \A a \in Addrs :
    a \in C /\ a \notin D /\ f.mode[a] = "dir" /\ a # Root /\ a # lf => HeldAt(f, a)

(* pass3 leaves no directory behind it unmarked.                           *)
WalkDone ==
    /\ pc = "pass3" /\ at # None => di = at \/ at \in checked
    /\ pc # "pass2" /\ "pass3" \notin cut =>
          \A d \in links.dirtree : (pc = "pass3" => at = None \/ d < at) => d \in checked \cup {Root}

HeldKept ==
    /\ HeldOpen(fs, treewalk_parent, Visible, Open, declined)
    /\ HeldClosed(fs, lf_dip, checked, declined) /\ WalkDone
HeldInv == "pass2" \notin cut => HeldKept

(* A step that changes neither who holds a directory nor its "..".         *)
SameHold(f, f2, b) ==
    /\ \A d \in Addrs : \A n \in Names \ Dots : Points(f2, d, n, b) <=> Points(f, d, n, b)
    /\ DotDot \in DOMAIN f.ents[b] =>
          DotDot \in DOMAIN f2.ents[b] /\ f2.ents[b][DotDot].to = f.ents[b][DotDot].to

LEMMA HeldSame ==
  ASSUME NEW f, NEW f2, NEW b \in Addrs, GoodFs(f), SameHold(f, f2, b), HeldAt(f, b)
  PROVE  HeldAt(f2, b)
<1>1. PICK d : d = f.ents[b][DotDot].to /\ d \in Addrs
  BY DEF HeldAt, GoodFs, GoodEnts
<1>2. DotDot \in DOMAIN f2.ents[b] /\ f2.ents[b][DotDot].to = d
  BY <1>1 DEF HeldAt, SameHold
<1>3. \A n \in Names \ Dots : Points(f2, d, n, b) <=> Points(f, d, n, b)
  BY <1>1 DEF SameHold
<1>4. \E n \in Names \ Dots : Points(f2, d, n, b)
  BY <1>1, <1>3 DEF HeldAt
<1>5. \A c \in Addrs : \A n \in Names \ Dots : Points(f2, c, n, b) => c = d
  BY <1>1 DEF HeldAt, SameHold
<1>6. QED
  BY <1>2, <1>4, <1>5 DEF HeldAt

LEMMA ClosedSame ==
  ASSUME NEW f, NEW f2, NEW lf, NEW lf2, NEW C, NEW D, NEW D2, GoodFs(f),
         HeldClosed(f, lf, C, D), D \subseteq D2,
         \A b \in Addrs : b \in C /\ b \notin D2 /\ f2.mode[b] = "dir" /\ b # Root /\ b # lf2 =>
            f.mode[b] = "dir" /\ b # lf /\ SameHold(f, f2, b)
  PROVE  HeldClosed(f2, lf2, C, D2)
<1>1. ASSUME NEW b \in Addrs, b \in C, b \notin D2, f2.mode[b] = "dir", b # Root, b # lf2 PROVE HeldAt(f2, b)
  <2>1. f.mode[b] = "dir" /\ b # lf /\ SameHold(f, f2, b) /\ b \notin D
    BY <1>1
  <2>2. HeldAt(f, b)
    BY <1>1, <2>1 DEF HeldClosed
  <2>3. QED
    BY <2>1, <2>2, HeldSame
<1>2. QED
  BY <1>1 DEF HeldClosed

LEMMA NothingChanged ==
  ASSUME NEW f, NEW f2, f2.mode = f.mode, f2.ents = f.ents
  PROVE  /\ \A d, n, k : Points(f2, d, n, k) <=> Points(f, d, n, k)
         /\ \A S, k : Linking(f2, S, k) = Linking(f, S, k)
         /\ \A b : SameHold(f, f2, b)
<1>1. \A d, n, k : Points(f2, d, n, k) <=> Points(f, d, n, k)
  BY DEF Points
<1>2. \A b : SameHold(f, f2, b)
  BY <1>1 DEF SameHold
<1>3. \A S, k : Linking(f2, S, k) = Linking(f, S, k)
  BY <1>1 DEF Linking
<1>4. QED
  BY <1>1, <1>2, <1>3

(* A ".." put in a directory is another's business only when it is its own. *)
LEMMA EnteredHold ==
  ASSUME NEW f, NEW f2, NEW d \in Addrs, NEW n \in Names, NEW i, Entered(f, f2, d, n, i), f.mode[d] = "dir",
         NEW b \in Addrs, n \in Dots \/ (b # i /\ (n \in DOMAIN f.ents[d] => f.ents[d][n].to # b)),
         b = d => n # DotDot
  PROVE  SameHold(f, f2, b)
<1>1. ASSUME NEW c \in Addrs, NEW m \in Names \ Dots PROVE Points(f2, c, m, b) <=> Points(f, c, m, b)
  <2>1. Points(f2, c, m, b) <=> IF c = d /\ m = n THEN b = i ELSE Points(f, c, m, b)
    BY EnteredPoints
  <2>2. CASE c = d /\ m = n
    <3>1. b # i /\ ~Points(f, c, m, b)
      BY <2>2 DEF Points
    <3>2. QED
      BY <2>1, <2>2, <3>1
  <2>3. QED
    BY <2>1, <2>2
<1>2. DotDot \in DOMAIN f.ents[b] =>
        DotDot \in DOMAIN f2.ents[b] /\ f2.ents[b][DotDot].to = f.ents[b][DotDot].to
  <2>1. CASE b = d
    BY <2>1, NamesApart DEF Entered, Dots
  <2>2. CASE b # d
    BY <2>2 DEF Entered
  <2>3. QED
    BY <2>1, <2>2
<1>3. QED
  BY <1>1, <1>2 DEF SameHold

(* What has no entry but its own may go.                                   *)
LEMMA FreedHold ==
  ASSUME NEW f, GoodFs(f), GoodNames(f), NEW d \in Addrs, f.mode[d] = "dir" => DOMAIN f.ents[d] \subseteq {Dot}, NEW b \in Addrs
  PROVE  SameHold(f, [f EXCEPT !.mode[d] = "free"], b)
<1>1. PICK g : g = [f EXCEPT !.mode[d] = "free"]
  OBVIOUS
<1>2. g.ents = f.ents /\ g.mode = [f.mode EXCEPT ![d] = "free"]
  BY <1>1 DEF GoodFs, FsFields
<1>3. g.mode[d] = "free" /\ \A a \in Addrs \ {d} : g.mode[a] = f.mode[a]
  BY <1>2 DEF GoodNames
<1>4. ASSUME NEW c \in Addrs, NEW m \in Names \ Dots PROVE Points(g, c, m, b) <=> Points(f, c, m, b)
  <2>1. CASE c = d
    <3>1. ~Points(g, c, m, b)
      BY <1>3, <2>1 DEF Points
    <3>2. ~Points(f, c, m, b)
      BY <2>1 DEF Points, Dots
    <3>3. QED
      BY <3>1, <3>2
  <2>2. CASE c # d
    BY <1>2, <1>3, <2>2 DEF Points
  <2>3. QED
    BY <2>1, <2>2
<1>5. QED
  BY <1>1, <1>2, <1>4 DEF SameHold

-----------------------------------------------------------------------------
(* lost+found: who holds what changes only for what is put in it.          *)
LEMMA WithLfHold ==
  ASSUME LfPossible, GoodFs(fs), GoodNames(fs), NEW b \in Addrs, b # Lf
  PROVE  FsWithLf.mode[b] = fs.mode[b] /\ SameHold(fs, FsWithLf, b)
<1>1. PICK f : f = FsWithLf
  OBVIOUS
<1>2. CASE ~LfMissing
  <2>1. f = fs
    BY <1>1, <1>2 DEF FsWithLf
  <2>2. QED
    BY <1>1, <2>1, NothingChanged
<1>3. CASE LfMissing
  <2>1. PICK L : L = Lf
    OBVIOUS
  <2>2. L \in Addrs /\ fs.mode[L] = "free" /\ (fs.mode[Root] = "free" => L = Root) /\ Made(fs, f, L)
    BY <1>1, <1>3, <2>1, WithLfMade
  <2>3. LostFound \notin DOMAIN fs.ents[Root]
    BY <1>3 DEF LfMissing
  <2>4. ASSUME NEW c \in Addrs, NEW m \in Names \ Dots PROVE Points(f, c, m, b) <=> Points(fs, c, m, b)
    <3>1. m # Dot /\ m # DotDot /\ b # L
      BY <2>1 DEF Dots
    <3>2. QED
      BY <2>2, <2>3, <3>1, MadePoints
  <2>5. DotDot \in DOMAIN fs.ents[b] =>
          DotDot \in DOMAIN f.ents[b] /\ f.ents[b][DotDot].to = fs.ents[b][DotDot].to
    BY <2>1, <2>2 DEF Made
  <2>6. f.mode[b] = fs.mode[b]
    BY <2>1, <2>2 DEF Made, GoodNames
  <2>7. QED
    BY <1>1, <2>4, <2>5, <2>6 DEF SameHold
<1>4. QED
  BY <1>2, <1>3

LEMMA SameHoldTwice ==
  ASSUME NEW f, NEW g, NEW h, NEW b, SameHold(f, g, b), SameHold(g, h, b)
  PROVE  SameHold(f, h, b)
  BY DEF SameHold

LEMMA AddedHold ==
  ASSUME LfPossible, NEW tw, NEW O, NEW D, Whole(fs, links, tw, dotdot_parent, lf_dip, Pairs, O, D),
         NEW i \in Addrs, i # Lf, fs.mode[i] # "free"
  PROVE  /\ Lf \in Addrs
         /\ \A b \in Addrs \ {Lf} : FsAdded(i).mode[b] = fs.mode[b] /\ (b # i => SameHold(fs, FsAdded(i), b))
         /\ fs.mode[i] = "dir" => DotDot \in DOMAIN FsAdded(i).ents[i] /\ FsAdded(i).ents[i][DotDot].to = Lf
         /\ \A d \in Addrs, n \in Names \ Dots :
               Points(FsAdded(i), d, n, i) <=> Points(fs, d, n, i) \/ (d = Lf /\ n = LostName(i))
<1>1. PICK L : L = Lf
  OBVIOUS
<1>2. PICK f : f = FsWithLf
  OBVIOUS
<1>3. PICK h : h = FsAdded(i)
  OBVIOUS
<1>4. PICK l : l = LinksWithLf
  OBVIOUS
<1>5. L \in Addrs /\ Whole(f, l, tw, dotdot_parent, L, Pairs, O \ {L}, D) /\ L # None
  BY <1>1, <1>2, <1>4, WholeWithLf, RootIsAddr
<1>6. GoodFs(f) /\ GoodNames(f) /\ f.mode[L] = "dir" /\ GoodFs(fs) /\ GoodNames(fs)
  BY <1>5 DEF Whole, LostAndFound
<1>7. \A b \in Addrs \ {L} : f.mode[b] = fs.mode[b] /\ SameHold(fs, f, b)
  BY <1>1, <1>2, <1>6, WithLfHold
<1>8. LostName(i) \in Names /\ LostName(i) \notin Dots /\ DotDot \in Names /\ DotDot \in Dots
  BY NamesApart DEF Dots
<1>9. PICK fa : fa = With(f, L, LostName(i), i)
  OBVIOUS
<1>10. Entered(f, fa, L, LostName(i), i) /\ GoodFs(fa)
  BY <1>5, <1>6, <1>9, WithEnters, WithGood
<1>11. fa.mode = f.mode
  BY <1>10 DEF Entered
<1>12. \A b \in Addrs \ {L, i} : SameHold(f, fa, b)
  <2>1. ASSUME NEW b \in Addrs \ {L, i} PROVE SameHold(f, fa, b)
    <3>1. LostName(i) \in DOMAIN f.ents[L] => f.ents[L][LostName(i)].to # b
      BY <1>5, <1>6 DEF GoodNames
    <3>2. QED
      BY <1>5, <1>6, <1>8, <1>10, <3>1, EnteredHold
  <2>2. QED
    BY <2>1
<1>13. \A d \in Addrs, n \in Names \ Dots : Points(fa, d, n, i) <=> Points(f, d, n, i) \/ (d = L /\ n = LostName(i))
  BY <1>5, <1>6, <1>10, EnteredPoints
<1>14. \A d \in Addrs, n \in Names \ Dots : Points(f, d, n, i) <=> Points(fs, d, n, i)
  BY <1>1, <1>7 DEF SameHold
<1>15. CASE fs.mode[i] # "dir"
  <2>1. h = fa
    BY <1>1, <1>2, <1>3, <1>9, <1>15 DEF FsAdded, FsAttached
  <2>2. \A b \in Addrs \ {L} : h.mode[b] = fs.mode[b] /\ (b # i => SameHold(fs, h, b))
    BY <1>7, <1>11, <1>12, <2>1, SameHoldTwice
  <2>3. QED
    BY <1>1, <1>3, <1>5, <1>13, <1>14, <1>15, <2>1, <2>2
<1>16. CASE fs.mode[i] = "dir"
  <2> DEFINE less == IF DotDotUndone(i) /\ OldParent(i) # i
                     THEN [fa EXCEPT !.nlink[OldParent(i)] = @ - 1] ELSE fa
  <2>1. PICK fl : fl = less
    OBVIOUS
  <2>2. fl.mode = fa.mode /\ fl.ents = fa.ents /\ fl.empty = fa.empty /\ GoodFs(fl)
    BY <1>10, <2>1 DEF GoodFs, FsFields
  <2>3. h = With(fl, i, DotDot, L)
    BY <1>1, <1>2, <1>3, <1>9, <1>16, <2>1 DEF FsAdded, FsAttached
  <2> HIDE DEF less
  <2>4. Entered(fa, h, i, DotDot, L)
    BY <1>5, <2>2, <2>3, WithEnters, EnteredSame
  <2>5. fa.mode[i] = "dir" /\ h.mode = fa.mode
    BY <1>1, <1>7, <1>11, <1>16, <2>4 DEF Entered
  <2>6. \A b \in Addrs \ {i} : SameHold(fa, h, b)
    BY <1>8, <2>4, <2>5, EnteredHold
  <2>7. \A b \in Addrs \ {L} : h.mode[b] = fs.mode[b] /\ (b # i => SameHold(fs, h, b))
    <3>1. ASSUME NEW b \in Addrs \ {L}, b # i PROVE SameHold(fs, h, b)
      <4>1. SameHold(fs, f, b) /\ SameHold(f, fa, b) /\ SameHold(fa, h, b)
        BY <1>7, <1>12, <2>6, <3>1
      <4>2. QED
        BY <4>1, SameHoldTwice
    <3>2. QED
      BY <1>7, <1>11, <2>5, <3>1
  <2>8. \A d \in Addrs, n \in Names \ Dots : Points(h, d, n, i) <=> Points(fa, d, n, i)
    <3>1. ASSUME NEW d \in Addrs, NEW n \in Names \ Dots PROVE Points(h, d, n, i) <=> Points(fa, d, n, i)
      <4>1. n # DotDot
        BY <1>8
      <4>2. QED
        BY <2>4, <2>5, <4>1, EnteredPoints
    <3>2. QED
      BY <3>1
  <2>9. DotDot \in DOMAIN h.ents[i] /\ h.ents[i][DotDot].to = L
    BY <2>4 DEF Entered
  <2>10. QED
    BY <1>1, <1>3, <1>5, <1>13, <1>14, <2>7, <2>8, <2>9
<1>17. QED
  BY <1>15, <1>16

-----------------------------------------------------------------------------
(* The steps.  pass2:                                                      *)
LEMMA HeldNext ==
  ASSUME HeldOpen(fs', treewalk_parent', Visible', Open', declined'),
         HeldClosed(fs', lf_dip', checked', declined'), WalkDone'
  PROVE  HeldKept'
<1>1. HeldOpen(fs', treewalk_parent', Visible', Open', declined') =>
      HeldOpen(fs, treewalk_parent, Visible, Open, declined)'
  BY DEF HeldOpen, Linking, Points
<1>2. HeldClosed(fs', lf_dip', checked', declined') => HeldClosed(fs, lf_dip, checked, declined)'
  BY DEF HeldClosed, HeldAt, Points
<1>3. QED
  BY <1>1, <1>2 DEF HeldKept

LEMMA OpenGrows ==
  ASSUME NEW f, NEW f2, NEW tw, NEW tw2, NEW S, NEW S2, NEW O, NEW O2, NEW D, NEW D2,
         D \subseteq D2, O2 \subseteq O, HeldOpen(f, tw, S, O, D),
         \A a \in O2 \ D2 : f2.mode[a] = "dir" =>
            /\ f.mode[a] = "dir"
            /\ \A p \in Linking(f2, S2, a) :
                  p[2] \in Dots \/ (p \in Linking(f, S, a) /\ tw2[a] = tw[a]) \/ p[1] = tw2[a]
  PROVE  HeldOpen(f2, tw2, S2, O2, D2)
<1>1. ASSUME NEW a \in O2 \ D2, f2.mode[a] = "dir", NEW p \in Linking(f2, S2, a), p[2] \notin Dots
      PROVE  p[1] = tw2[a]
  <2>1. a \in O \ D /\ f.mode[a] = "dir"
    BY <1>1
  <2>2. p \in Linking(f, S, a) => p[1] = tw[a]
    BY <1>1, <2>1 DEF HeldOpen
  <2>3. QED
    BY <1>1, <2>2
<1>2. QED
  BY <1>1 DEF HeldOpen

(* A directory that has been found in another is not counted in a second   *)
(* unless the answer was no.                                               *)
LEMMA DentryHolds ==
  ASSUME LinksKept, IInv, NEW n \in Names, Dentry(n), NEW i, i = fs.ents[at][n].to
  PROVE  \/ NukesEntry(n)
         \/ /\ fs' = fs /\ treewalk_parent' = treewalk_parent
            /\ n \in Dots \/ fs.mode[i] # "dir" \/ i \in declined'
         \/ /\ fs' = fs /\ treewalk_parent' = [treewalk_parent EXCEPT ![i] = at]
            /\ treewalk_parent[i] = None /\ n \notin Dots
<1>1. InPass2(n)
  BY DEF Dentry, DentryToNoInode, DentryWrongFormal, DentryToSingle, DentryToMulti, DentryDot,
         DentryDotDot, DentryToDir
<1>2. pc = "pass2" /\ i \in Addrs
  BY <1>1, InPass2Facts
<1>3. /\ i \in links.nlink1map => fs.mode[i] = "file"
      /\ i \in links.inodetree => fs.mode[i] = "file" \/ i \in declined
  BY <1>2 DEF LinksKept, BeforePass3
<1>4. declined \subseteq declined'
  BY DentryOutcome
<1>5. CASE DentryToNoInode(n)
  BY <1>5 DEF DentryToNoInode, NukesEntry, Leave, Count
<1>6. CASE DentryWrongFormal(n)
  BY <1>6 DEF DentryWrongFormal, NukesEntry
<1>7. CASE DentryToSingle(n)
  <2>1. i \in links.nlink1map
    BY <1>7 DEF DentryToSingle
  <2>2. NukesEntry(n) \/ (fs' = fs /\ treewalk_parent' = treewalk_parent)
    BY <1>7 DEF DentryToSingle, NukesEntry, Leave, Count
  <2>3. QED
    BY <1>3, <2>1, <2>2
<1>8. CASE DentryToMulti(n)
  <2>1. i \in links.inodetree /\ fs' = fs /\ treewalk_parent' = treewalk_parent
    BY <1>8 DEF DentryToMulti, Count
  <2>2. QED
    BY <1>3, <1>4, <2>1
<1>9. CASE DentryDot(n)
  BY <1>9 DEF DentryDot, Count, Dots
<1>10. CASE DentryDotDot(n)
  BY <1>10 DEF DentryDotDot, Count, Dots
<1>11. CASE DentryToDir(n)
  BY <1>11 DEF DentryToDir, Count, Dots, Query, NukesEntry, Nuke
<1>12. QED
  BY <1>5, <1>6, <1>7, <1>8, <1>9, <1>10, <1>11 DEF Dentry

LEMMA DentryHeld ==
  ASSUME LinksKept, HeldKept, IInv, NEW n \in Names, Dentry(n)
  PROVE  HeldKept'
<1>1. PICK i, S1, tw, D : i = fs.ents[at][n].to /\ S1 = Visible' /\ tw = treewalk_parent' /\ D = declined'
  OBVIOUS
<1>2. /\ InPass2(n) /\ declined \subseteq declined'
  BY DentryOutcome
<1>3. /\ pc' = "pass2" /\ pc = "pass2" /\ at \in Addrs /\ lf_dip' = None /\ checked' = {}
      /\ Whole(fs, links, treewalk_parent, dotdot_parent, None, Visible, Addrs, declined)
      /\ i \in Addrs /\ Points(fs, at, n, i)
  BY <1>1, <1>2, InPass2Facts
<1>4. PICK S : /\ S \subseteq Pairs /\ Swept(fs, Visible, S) /\ <<at, n>> \notin S
               /\ S1 = S \cup {<<at, n>>}
  BY <1>1, <1>2, EntrySeen
<1>5. Open' = Addrs /\ Open = Addrs
  BY <1>3 DEF Open, LinksKept, BeforePass3
<1>6. HeldOpen(fs, treewalk_parent, Visible, Addrs, declined)
  BY <1>5 DEF HeldKept
<1>7. \A a, p : p \in Linking(fs, S1, a) => p \in Linking(fs, Visible, a) \/ (p = <<at, n>> /\ a = i)
  <2>1. ASSUME NEW a, NEW p \in Linking(fs, S1, a), p # <<at, n>> PROVE p \in Linking(fs, Visible, a)
    <3>1. p \in S /\ Points(fs, p[1], p[2], a)
      BY <1>4, <2>1 DEF Linking
    <3>2. p \in Visible
      BY <1>4, <3>1 DEF Swept, Points
    <3>3. QED
      BY <3>1, <3>2 DEF Linking
  <2>2. ASSUME NEW a, <<at, n>> \in Linking(fs, S1, a) PROVE a = i
    BY <1>1, <2>2 DEF Linking, Points
  <2>3. QED
    BY <2>1, <2>2
<1>8. treewalk_parent[i] = None /\ fs.mode[i] = "dir" => \A p \in Linking(fs, Visible, i) : p[2] \in Dots
  BY <1>3 DEF Whole, Reached
<1>9. HeldOpen(fs', tw, S1, Addrs, D)
  <2>1. CASE NukesEntry(n)
    <3>1. fs' = Without(at, n) /\ tw = treewalk_parent /\ GoodFs(fs)
      BY <1>1, <2>1 DEF NukesEntry, Nuke, IInv
    <3>2. Removed(fs, fs', at, n)
      BY <1>3, <3>1, WithoutRemoves
    <3>3. \A a, p : p \in Linking(fs', S1, a) => p \in Linking(fs, S1, a) /\ p # <<at, n>>
      <4>1. S1 \subseteq Pairs
        BY <1>1 DEF Visible
      <4>2. ASSUME NEW a, NEW p \in Linking(fs', S1, a) PROVE p \in Linking(fs, S1, a) /\ p # <<at, n>>
        <5>1. p \in S1 /\ p[1] \in Addrs /\ Points(fs', p[1], p[2], a)
          BY <4>1, <4>2, PairIs DEF Linking
        <5>2. ~(p[1] = at /\ p[2] = n) /\ Points(fs, p[1], p[2], a)
          BY <1>3, <3>2, <5>1 DEF Removed, Points
        <5>3. QED
          BY <5>1, <5>2 DEF Linking
      <4>3. QED
        BY <4>2
    <3>4. fs'.mode = fs.mode
      BY <3>2 DEF Removed
    <3>5. QED
      BY <1>1, <1>2, <1>6, <1>7, <3>1, <3>3, <3>4, OpenGrows
  <2>2. CASE /\ fs' = fs /\ tw = treewalk_parent
             /\ n \in Dots \/ fs.mode[i] # "dir" \/ i \in D
    <3>1. ASSUME NEW a \in Addrs \ D, fs.mode[a] = "dir", NEW p \in Linking(fs, S1, a)
          PROVE  p[2] \in Dots \/ p \in Linking(fs, Visible, a)
      <4>1. p = <<at, n>> /\ a = i => p[2] \in Dots
        BY <2>2, <3>1
      <4>2. QED
        BY <1>7, <3>1, <4>1
    <3>2. QED
      BY <1>1, <1>2, <1>6, <2>2, <3>1, OpenGrows
  <2>3. CASE /\ fs' = fs /\ tw = [treewalk_parent EXCEPT ![i] = at]
             /\ treewalk_parent[i] = None /\ n \notin Dots
    <3>1. tw[i] = at /\ \A a \in Addrs : a # i => tw[a] = treewalk_parent[a]
      BY <1>3, <2>3 DEF IInv
    <3>2. ASSUME NEW a \in Addrs \ D, fs.mode[a] = "dir", NEW p \in Linking(fs, S1, a)
          PROVE  \/ p[2] \in Dots \/ (p \in Linking(fs, Visible, a) /\ tw[a] = treewalk_parent[a])
                 \/ p[1] = tw[a]
      <4>1. CASE a = i
        <5>1. p = <<at, n>> => p[1] = tw[a]
          BY <3>1, <4>1
        <5>2. QED
          BY <1>7, <1>8, <2>3, <3>2, <4>1, <5>1
      <4>2. CASE a # i
        BY <1>7, <3>1, <3>2, <4>2
      <4>3. QED
        BY <4>1, <4>2
    <3>3. declined \subseteq D
      BY <1>1, <1>2
    <3>4. HeldOpen(fs, tw, S1, Addrs, D)
      BY <1>6, <3>2, <3>3, OpenGrows
    <3>5. QED
      BY <2>3, <3>4
  <2>4. QED
    BY <1>1, <2>1, <2>2, <2>3, DentryHolds
<1>10. HeldClosed(fs', lf_dip', checked', declined')
  BY <1>3 DEF HeldClosed
<1>11. WalkDone'
  BY <1>3 DEF WalkDone
<1>12. QED
  BY <1>1, <1>5, <1>9, <1>10, <1>11, HeldNext

LEMMA EndOfDirHeld == ASSUME LinksKept, HeldKept, IInv, EndOfDir PROVE HeldKept'
<1>1. /\ pc = "pass2" /\ pc' = pc /\ at # None /\ Later = {} /\ at' = NextOf(links.dirtree, at) /\ name' = 0
      /\ UNCHANGED <<treewalk_parent, checked, lf_dip>>
      /\ fs' = fs \/ fs' = With(fs, at, Dot, at)
  BY DEF EndOfDir, dirinfo
<1>2. PICK S1 : S1 = Visible' /\ S1 \subseteq Pairs
  BY DEF Visible
<1>3. Swept(fs, Visible, S1)
  BY <1>1, <1>2, RestSeen
<1>4. at \in Addrs /\ GoodFs(fs) /\ checked = {}
  BY <1>1 DEF IInv, LinksKept, BeforePass3
<1>5. Open' = Addrs /\ Open = Addrs
  BY <1>1, <1>4 DEF Open
<1>6. fs.mode[at] = "dir"
  BY <1>1, <1>4, <1>5 DEF LinksKept, AtRecord, Whole, Records
<1>7. declined \subseteq declined'
  BY DEF EndOfDir, Query, NoQuery
<1>8. \A a, p : p \in Linking(fs, S1, a) => p \in Linking(fs, Visible, a)
  BY <1>3 DEF Linking, Swept, Points
<1>9. fs'.mode = fs.mode /\ \A a, p : p \in Linking(fs', S1, a) => p[2] \in Dots \/ p \in Linking(fs, S1, a)
  <2>1. CASE fs' = fs
    BY <2>1
  <2>2. CASE fs' = With(fs, at, Dot, at)
    <3>1. Entered(fs, fs', at, Dot, at)
      BY <1>4, <2>2, WithEnters
    <3>2. ASSUME NEW a, NEW p \in Linking(fs', S1, a), p[2] \notin Dots PROVE p \in Linking(fs, S1, a)
      <4>1. p \in S1 /\ p[1] \in Addrs /\ Points(fs', p[1], p[2], a)
        BY <1>2, <3>2, PairIs DEF Linking
      <4>2. p[2] # Dot
        BY <3>2 DEF Dots
      <4>3. Points(fs, p[1], p[2], a)
        BY <1>4, <1>6, <3>1, <4>1, <4>2, EnteredPoints
      <4>4. QED
        BY <4>1, <4>3 DEF Linking
    <3>3. QED
      BY <3>1, <3>2 DEF Entered
  <2>3. QED
    BY <1>1, <2>1, <2>2
<1>10. HeldOpen(fs', treewalk_parent', S1, Addrs, declined')
  <2>1. HeldOpen(fs, treewalk_parent, Visible, Addrs, declined)
    BY <1>5 DEF HeldKept
  <2>2. QED
    BY <1>1, <1>7, <1>8, <1>9, <2>1, OpenGrows
<1>11. HeldClosed(fs', lf_dip', checked', declined')
  BY <1>1, <1>4 DEF HeldClosed
<1>12. WalkDone'
  BY <1>1 DEF WalkDone
<1>13. QED
  BY <1>2, <1>5, <1>10, <1>11, <1>12, HeldNext

-----------------------------------------------------------------------------
(* pass3:                                                                  *)
LEMMA WalkGoesOn ==
  ASSUME LinksKept, WalkDone, IInv, InPass3, NextDir, checked \subseteq checked', di \in checked' \cup {Root},
         links'.dirtree \subseteq links.dirtree \cup checked'
  PROVE  WalkDone'
<1>1. /\ pc = "pass3" /\ pc' = pc /\ cut' = cut /\ at \in Addrs /\ at # None
      /\ at' = NextOf(links.dirtree, at) /\ di' = at'
  BY DEF InPass3, NextDir, IInv
<1>2. links.dirtree \subseteq Addrs
  BY DEF IInv, GoodLinks
<1>3. Addrs \subseteq Nat
  BY DirLinksAssumption DEF Addrs
<1>4. at \in checked' \cup {Root}
  BY <1>1 DEF WalkDone
<1>5. ASSUME "pass3" \notin cut, NEW d \in links'.dirtree, at' = None \/ d < at' PROVE d \in checked' \cup {Root}
  <2>1. CASE d \notin links.dirtree
    BY <1>5, <2>1
  <2>2. CASE d \in links.dirtree
    <3>1. PICK x, y : x = at' /\ y = at /\ y \in Nat /\ d \in Nat
      BY <1>1, <1>2, <1>3, <2>2
    <3>2. d < at \/ d = at
      <4>1. x = None => ~(d > y)
        BY <1>1, <1>2, <2>2, <3>1, NextAfter, RootIsAddr
      <4>2. x # None => x \in Nat /\ (d > y => x <= d)
        BY <1>1, <1>2, <1>3, <2>2, <3>1, NextAfter
      <4>3. x = None \/ d < x
        BY <1>5, <3>1
      <4>4. d < y \/ d = y
        BY <3>1, <4>1, <4>2, <4>3
      <4>5. QED
        BY <3>1, <4>4
    <3>3. d < at => d \in checked \cup {Root}
      BY <1>1, <1>5, <2>2 DEF WalkDone
    <3>4. QED
      BY <1>4, <3>2, <3>3
  <2>3. QED
    BY <2>1, <2>2
<1>6. QED
  BY <1>1, <1>5 DEF WalkDone

LEMMA WalkClimbs ==
  ASSUME WalkDone, InPass3, at' = at, checked' = checked \cup {di}, links'.dirtree = links.dirtree
  PROVE  WalkDone'
<1>1. pc = "pass3" /\ pc' = pc /\ cut' = cut
  BY DEF InPass3
<1>2. QED
  BY <1>1 DEF WalkDone

LEMMA Pass3Held ==
  ASSUME InPass3, WalkDone', HeldOpen(fs', treewalk_parent', Pairs, Addrs \ checked', declined'),
         HeldClosed(fs', lf_dip', checked', declined')
  PROVE  HeldKept'
<1>1. Open' = Addrs \ checked' /\ Visible' = Pairs
  BY AllSeen DEF Open, InPass3
<1>2. QED
  BY <1>1, HeldNext

LEMMA InPass3Held ==
  ASSUME LinksKept, HeldKept, IInv, InPass3
  PROVE  /\ HeldOpen(fs, treewalk_parent, Pairs, Addrs \ checked, declined)
         /\ HeldClosed(fs, lf_dip, checked, declined) /\ WalkDone /\ treewalk_parent' = treewalk_parent
         /\ Whole(fs, links, treewalk_parent, dotdot_parent, lf_dip, Pairs, Addrs \ checked, declined)
         /\ GoodFs(fs) /\ GoodNames(fs) /\ di \in Addrs
<1>1. pc = "pass3"
  BY DEF InPass3
<1>2. Open = Addrs \ checked /\ Visible = Pairs
  BY <1>1, AllSeen DEF Open
<1>3. QED
  BY <1>2, InPass3Facts DEF HeldKept, Whole

LEMMA PointsIsLinking ==
  ASSUME NEW f, NEW d \in Addrs, NEW n \in Names, NEW i
  PROVE  Points(f, d, n, i) <=> <<d, n>> \in Linking(f, Pairs, i)
  BY LinkingIs DEF Pairs

(* A directory whose ".." goes to where it was reached from is held there. *)
LEMMA HeldFromOpen ==
  ASSUME NEW f, NEW f2, NEW tw, NEW O, NEW D, Reached(f, tw, Pairs, O), HeldOpen(f, tw, Pairs, O, D),
         NEW a \in Addrs, a \in O, a \notin D, tw[a] # None,
         DotDot \in DOMAIN f2.ents[a], f2.ents[a][DotDot].to = tw[a],
         \A d \in Addrs : \A n \in Names \ Dots : Points(f2, d, n, a) <=> Points(f, d, n, a)
  PROVE  HeldAt(f2, a)
<1>1. PICK n \in Names \ Dots : <<tw[a], n>> \in Linking(f, Pairs, a)
  BY DEF Reached
<1>2. f.mode[a] = "dir" /\ tw[a] \in Addrs
  BY DEF Reached
<1>3. Points(f2, tw[a], n, a)
  BY <1>1, <1>2, PointsIsLinking
<1>4. ASSUME NEW d \in Addrs, NEW m \in Names \ Dots, Points(f2, d, m, a) PROVE d = tw[a]
  <2>1. PICK p : p = <<d, m>>
    OBVIOUS
  <2>2. p \in Linking(f, Pairs, a) /\ p[1] = d /\ p[2] = m
    BY <1>4, <2>1, PointsIsLinking
  <2>3. p[2] \in Dots \/ p[1] = tw[a]
    BY <1>2, <2>2 DEF HeldOpen
  <2>4. QED
    BY <2>2, <2>3
<1>5. QED
  BY <1>3, <1>4 DEF HeldAt

LEMMA ClosedMore ==
  ASSUME NEW f, NEW lf, NEW C, NEW D, HeldClosed(f, lf, C, D), NEW d,
         f.mode[d] = "dir" /\ d \notin D /\ d # Root /\ d # lf => HeldAt(f, d)
  PROVE  HeldClosed(f, lf, C \cup {d}, D)
  BY DEF HeldClosed

LEMMA Connected3Held == ASSUME LinksKept, HeldKept, IInv, Connected3 PROVE HeldKept'
<1>1. /\ InPass3 /\ NextDir /\ UNCHANGED <<fs, links, checked, lf_dip, declined>>
      /\ di \in checked \union {Root}
  BY DEF Connected3, NoQuery
<1>2. WalkDone'
  BY <1>1, InPass3Held, WalkGoesOn
<1>3. QED
  BY <1>1, <1>2, InPass3Held, Pass3Held

LEMMA ParentsAgree3Held == ASSUME LinksKept, HeldKept, IInv, ParentsAgree3 PROVE HeldKept'
<1>1. PICK d, O : d = di /\ O = Addrs \ checked
  OBVIOUS
<1>2. /\ InPass3 /\ UNCHANGED <<fs, links, lf_dip, at, declined>> /\ d \notin checked
      /\ treewalk_parent[d] # None /\ dotdot_parent[d] = treewalk_parent[d] /\ checked' = checked \union {d}
  BY <1>1 DEF ParentsAgree3, NoQuery, Mark, HasParent, Treewalk, DotDotParent
<1>3. /\ HeldOpen(fs, treewalk_parent, Pairs, O, declined) /\ treewalk_parent' = treewalk_parent
      /\ HeldClosed(fs, lf_dip, checked, declined) /\ WalkDone /\ d \in Addrs
      /\ Whole(fs, links, treewalk_parent, dotdot_parent, lf_dip, Pairs, O, declined)
  BY <1>1, <1>2, InPass3Held
<1>4. WalkDone'
  BY <1>1, <1>2, <1>3, WalkClimbs
<1>5. HeldOpen(fs, treewalk_parent, Pairs, Addrs \ checked', declined)
  BY <1>1, <1>2, <1>3 DEF HeldOpen
<1>6. d \in O /\ d # lf_dip /\ <<d, DotDot>> \in Pairs
  BY <1>1, <1>2, <1>3, RootIsAddr, NamesApart DEF Whole, LostAndFound, Pairs
<1>7. fs.mode[d] = "dir" => Points(fs, d, DotDot, treewalk_parent[d])
  BY <1>2, <1>3, <1>6 DEF Whole, DotDots
<1>8. ASSUME fs.mode[d] = "dir", d \notin declined PROVE HeldAt(fs, d)
  <2>1. DotDot \in DOMAIN fs.ents[d] /\ fs.ents[d][DotDot].to = treewalk_parent[d]
    BY <1>7, <1>8 DEF Points
  <2>2. Reached(fs, treewalk_parent, Pairs, O)
    BY <1>3 DEF Whole
  <2>3. QED
    BY <1>2, <1>3, <1>6, <1>8, <2>1, <2>2, HeldFromOpen
<1>9. HeldClosed(fs, lf_dip, checked \cup {d}, declined)
  BY <1>3, <1>8, ClosedMore
<1>10. QED
  BY <1>2, <1>3, <1>4, <1>5, <1>9, Pass3Held

LEMMA AttachDotDotHeld == ASSUME LinksKept, HeldKept, IInv, AttachDotDot PROVE HeldKept'
<1>1. PICK d, O, tw : d = di /\ O = Addrs \ checked /\ tw = treewalk_parent
  OBVIOUS
<1>2. /\ InPass3 /\ UNCHANGED <<lf_dip, at, declined>> /\ d \notin checked
      /\ tw[d] # None /\ fs' = With(fs, d, DotDot, tw[d]) /\ checked' = checked \union {d}
  BY <1>1 DEF AttachDotDot, NoQuery, Mark, HasParent, Treewalk
<1>3. /\ HeldOpen(fs, tw, Pairs, O, declined) /\ treewalk_parent' = tw
      /\ HeldClosed(fs, lf_dip, checked, declined) /\ WalkDone /\ d \in Addrs
      /\ Whole(fs, links, tw, dotdot_parent, lf_dip, Pairs, O, declined)
      /\ GoodFs(fs) /\ GoodNames(fs)
  BY <1>1, <1>2, InPass3Held
<1>4. tw[d] \in Addrs /\ fs.mode[d] = "dir" /\ Reached(fs, tw, Pairs, O)
  BY <1>2, <1>3 DEF Whole, Reached
<1>5. links'.dirtree = links.dirtree
  <2>1. PICK l2 : l2 = IF DotDotParent # None THEN DecrLinkCount(links, DotDotParent) ELSE links
    OBVIOUS
  <2>2. links' = IncrLinkCount(l2, tw[d])
    BY <1>1, <2>1 DEF AttachDotDot, Treewalk
  <2>3. GoodLinks(l2) /\ l2.dirtree = links.dirtree
    BY <2>1, DecrTrees, DecrGood DEF IInv
  <2>4. QED
    BY <1>4, <2>2, <2>3, IncrTrees
<1>6. WalkDone'
  BY <1>1, <1>2, <1>3, <1>5, WalkClimbs
<1>7. Entered(fs, fs', d, DotDot, tw[d])
  BY <1>2, <1>3, WithEnters
<1>8. DotDot \in Names /\ DotDot \in Dots
  BY NamesApart DEF Dots
<1>9. \A a \in Addrs, c \in Addrs, m \in Names \ Dots : Points(fs', c, m, a) <=> Points(fs, c, m, a)
  <2>1. ASSUME NEW a \in Addrs, NEW c \in Addrs, NEW m \in Names \ Dots
        PROVE  Points(fs', c, m, a) <=> Points(fs, c, m, a)
    <3>1. m # DotDot
      BY <1>8
    <3>2. QED
      BY <1>3, <1>4, <1>7, <3>1, EnteredPoints
  <2>2. QED
    BY <2>1
<1>10. \A a \in Addrs \ {d} : SameHold(fs, fs', a)
  BY <1>3, <1>4, <1>7, <1>8, EnteredHold
<1>11. fs'.mode = fs.mode /\ DotDot \in DOMAIN fs'.ents[d] /\ fs'.ents[d][DotDot].to = tw[d]
  BY <1>7 DEF Entered
<1>12. HeldOpen(fs', tw, Pairs, Addrs \ checked', declined)
  <2>1. ASSUME NEW a \in Addrs, NEW p \in Linking(fs', Pairs, a)
        PROVE  p[2] \in Dots \/ p \in Linking(fs, Pairs, a)
    <3>1. p \in Pairs /\ p[1] \in Addrs /\ p[2] \in Names /\ Points(fs', p[1], p[2], a)
      BY <2>1, PairIs DEF Linking
    <3>2. p[2] \notin Dots => Points(fs, p[1], p[2], a)
      BY <1>9, <3>1
    <3>3. QED
      BY <3>1, <3>2 DEF Linking
  <2>2. Addrs \ checked' \subseteq O /\ Addrs \ checked' \subseteq Addrs
    BY <1>1, <1>2
  <2>3. QED
    BY <1>3, <1>11, <2>1, <2>2, OpenGrows
<1>13. HeldClosed(fs', lf_dip, checked, declined)
  <2>1. \A b \in Addrs : b \in checked => b # d
    BY <1>2
  <2>2. QED
    BY <1>3, <1>10, <1>11, <2>1, ClosedSame
<1>14. d \notin declined => HeldAt(fs', d)
  <2>1. d \in O
    BY <1>1, <1>2, <1>3
  <2>2. QED
    BY <1>2, <1>3, <1>4, <1>9, <1>11, <2>1, HeldFromOpen
<1>15. HeldClosed(fs', lf_dip, checked \cup {d}, declined)
  BY <1>13, <1>14, ClosedMore
<1>16. QED
  BY <1>2, <1>3, <1>6, <1>12, <1>15, Pass3Held

(* The dirtree gets no record but that of lost+found.                      *)
LEMMA AddedDirs ==
  ASSUME IInv, LfPossible, Root \in links.dirtree, NEW i \in Addrs
  PROVE  LinksAdded(i).dirtree \subseteq links.dirtree \cup {Lf}
<1>1. PICK w : w = LinksWithLf
  OBVIOUS
<1>2. GoodLinks(w) /\ w.dirtree \subseteq links.dirtree \cup {Lf}
  <2>1. PICK synced : synced = [links EXCEPT !.di_nlink[Root] = FsWithLf.nlink[Root]]
    OBVIOUS
  <2>2. PICK ins : ins = IF Lf \in links.dirtree
                         THEN [synced EXCEPT !.outdated = @ \union {Lf}]
                         ELSE [synced EXCEPT !.dirtree = @ \union {Lf}, !.di_nlink[Lf] = 0,
                                             !.counted_links[Lf] = 0]
    OBVIOUS
  <2>3. GoodLinks(synced) /\ synced.dirtree = links.dirtree
    BY <2>1 DEF IInv, GoodLinks, LinkFields
  <2>4. GoodLinks(ins) /\ ins.dirtree \subseteq links.dirtree \cup {Lf}
    BY <2>2, <2>3, LfIsAddr DEF GoodLinks, LinkFields
  <2>5. PICK a : a = IncrLinkCount(ins, Lf)
    OBVIOUS
  <2>6. GoodLinks(a) /\ a.dirtree = ins.dirtree
    BY <2>4, <2>5, LfIsAddr, IncrTrees, IncrGood
  <2>7. PICK b : b = IncrLinkCount(a, Lf)
    OBVIOUS
  <2>8. GoodLinks(b) /\ b.dirtree = ins.dirtree
    BY <2>6, <2>7, LfIsAddr, IncrTrees, IncrGood
  <2>9. PICK c : c = IncrLinkCount(b, Root)
    OBVIOUS
  <2>10. c.dirtree = ins.dirtree
    BY <2>8, <2>9, RootIsAddr, IncrTrees
  <2>11. w \in {links, synced, c}
    BY <1>1, <2>1, <2>2, <2>5, <2>7, <2>9 DEF LinksWithLf
  <2>12. QED
    BY <1>1, <2>3, <2>4, <2>10, <2>11, WithLfTrees DEF IInv
<1>3. PICK un : un = IF UndoesDotDot(i) THEN DecrLinkCount(w, OldParent(i)) ELSE w
  OBVIOUS
<1>4. GoodLinks(un) /\ un.dirtree = w.dirtree
  BY <1>2, <1>3, DecrTrees, DecrGood
<1>5. PICK sy : sy = IF DotDotUndone(i)
                     THEN [un EXCEPT !.di_nlink[OldParent(i)] = FsWithLf.nlink[OldParent(i)] - 1] ELSE un
  OBVIOUS
<1>6. GoodLinks(sy) /\ sy.dirtree = w.dirtree
  BY <1>4, <1>5 DEF GoodLinks, LinkFields
<1>7. PICK a : a = IncrLinkCount(sy, i)
  OBVIOUS
<1>8. GoodLinks(a) /\ a.dirtree = w.dirtree
  BY <1>6, <1>7, IncrTrees, IncrGood
<1>9. PICK b, c : b = IncrLinkCount(a, Lf) /\ c = IncrLinkCount(w, i)
  OBVIOUS
<1>10. b.dirtree = w.dirtree /\ c.dirtree = w.dirtree
  BY <1>2, <1>8, <1>9, IncrTrees, LfIsAddr
<1>11. LinksAdded(i) = IF i = Lf THEN w ELSE IF fs.mode[i] = "dir" THEN b ELSE c
  BY <1>1, <1>3, <1>5, <1>7, <1>9 DEF LinksAdded, LinksAttached
<1>12. QED
  BY <1>2, <1>10, <1>11

LEMMA RemoveUnlinkedHeld == ASSUME LinksKept, HeldKept, IInv, RemoveUnlinked PROVE HeldKept'
<1>1. PICK d, O : d = di /\ O = Addrs \ checked
  OBVIOUS
<1>2. /\ InPass3 /\ UNCHANGED <<links, lf_dip, declined>> /\ NextDir
      /\ d \notin checked \cup {Root} /\ ~HasParent /\ d \in fs.empty
      /\ fs' = [fs EXCEPT !.mode[d] = "free"] /\ checked' = checked \union {d}
  BY <1>1 DEF RemoveUnlinked, NoQuery, Mark
<1>3. /\ HeldOpen(fs, treewalk_parent, Pairs, O, declined) /\ treewalk_parent' = treewalk_parent
      /\ HeldClosed(fs, lf_dip, checked, declined) /\ WalkDone /\ d \in Addrs
      /\ GoodFs(fs) /\ GoodNames(fs)
  BY <1>1, <1>2, InPass3Held
<1>4. WalkDone'
  BY <1>1, <1>2, <1>3, WalkGoesOn
<1>5. DOMAIN fs.ents[d] \subseteq {Dot}
  BY <1>1, <1>2, UnlinkedIsBare
<1>6. \A b \in Addrs : SameHold(fs, fs', b)
  BY <1>2, <1>3, <1>5, FreedHold
<1>7. fs'.mode = [fs.mode EXCEPT ![d] = "free"]
  BY <1>2, <1>3 DEF GoodFs, FsFields
<1>8. \A b \in Addrs : fs'.mode[b] = "dir" => fs.mode[b] = "dir" /\ b # d
  BY <1>3, <1>7 DEF GoodNames
<1>9. HeldOpen(fs', treewalk_parent, Pairs, Addrs \ checked', declined)
  <2>1. ASSUME NEW a \in Addrs, NEW p \in Linking(fs', Pairs, a)
        PROVE  p[2] \in Dots \/ p \in Linking(fs, Pairs, a)
    <3>1. p \in Pairs /\ p[1] \in Addrs /\ p[2] \in Names /\ Points(fs', p[1], p[2], a)
      BY <2>1, PairIs DEF Linking
    <3>2. p[2] \notin Dots => Points(fs, p[1], p[2], a)
      BY <1>6, <3>1 DEF SameHold
    <3>3. QED
      BY <3>1, <3>2 DEF Linking
  <2>2. Addrs \ checked' \subseteq O /\ Addrs \ checked' \subseteq Addrs
    BY <1>1, <1>2
  <2>3. QED
    BY <1>3, <1>8, <2>1, <2>2, OpenGrows
<1>10. HeldClosed(fs', lf_dip, checked, declined)
  BY <1>3, <1>6, <1>8, ClosedSame
<1>11. HeldClosed(fs', lf_dip, checked \cup {d}, declined)
  BY <1>3, <1>8, <1>10, ClosedMore
<1>12. QED
  BY <1>2, <1>3, <1>4, <1>9, <1>11, Pass3Held

(* What is put in lost+found is held there; of the rest nothing changes.   *)
LEMMA OpenAdded ==
  ASSUME LfPossible, NEW tw, NEW O, NEW D, Whole(fs, links, tw, dotdot_parent, lf_dip, Pairs, O, D),
         HeldOpen(fs, tw, Pairs, O, D), NEW i \in Addrs, i # Lf => fs.mode[i] # "free",
         NEW O2, O2 \subseteq (Addrs \cap O) \ {i, Lf}
  PROVE  HeldOpen(FsAdded(i), tw, Pairs, O2, D)
<1>1. PICK h : h = FsAdded(i)
  OBVIOUS
<1>2. ASSUME NEW b \in Addrs, b # i, b # Lf PROVE h.mode[b] = fs.mode[b] /\ SameHold(fs, h, b)
  <2>1. CASE i = Lf
    BY <1>1, <1>2, <2>1, WithLfHold DEF FsAdded, Whole
  <2>2. CASE i # Lf
    BY <1>1, <1>2, <2>2, AddedHold
  <2>3. QED
    BY <2>1, <2>2
<1>3. ASSUME NEW a \in O2, NEW p \in Linking(h, Pairs, a)
      PROVE  p[2] \in Dots \/ p \in Linking(fs, Pairs, a)
  <2>1. p \in Pairs /\ p[1] \in Addrs /\ p[2] \in Names /\ Points(h, p[1], p[2], a)
    BY <1>3, PairIs DEF Linking
  <2>2. p[2] \notin Dots => Points(fs, p[1], p[2], a)
    BY <1>2, <2>1 DEF SameHold
  <2>3. QED
    BY <2>1, <2>2 DEF Linking
<1>4. HeldOpen(h, tw, Pairs, O2, D)
  BY <1>2, <1>3, OpenGrows
<1>5. QED
  BY <1>1, <1>4

LEMMA ClosedAdded ==
  ASSUME LfPossible, NEW tw, NEW O, NEW D, Whole(fs, links, tw, dotdot_parent, lf_dip, Pairs, O, D),
         NEW C, HeldClosed(fs, lf_dip, C, D), NEW i \in Addrs, i # Lf => fs.mode[i] # "free",
         i # Lf /\ i # Root /\ i \notin D /\ fs.mode[i] = "dir" /\ i \in C => HeldAt(FsAdded(i), i)
  PROVE  HeldClosed(FsAdded(i), Lf, C \cup {Lf}, D)
<1>1. PICK h : h = FsAdded(i)
  OBVIOUS
<1>2. lf_dip \in {None, Lf} /\ None \notin Addrs /\ GoodFs(fs)
  BY WholeWithLf, RootIsAddr DEF Whole
<1>3. ASSUME NEW b \in Addrs, b # i, b # Lf PROVE h.mode[b] = fs.mode[b] /\ SameHold(fs, h, b)
  <2>1. CASE i = Lf
    BY <1>1, <1>3, <2>1, WithLfHold DEF FsAdded, Whole
  <2>2. CASE i # Lf
    BY <1>1, <1>3, <2>2, AddedHold
  <2>3. QED
    BY <2>1, <2>2
<1>4. ASSUME NEW b \in Addrs, b \in C \cup {Lf}, b \notin D, h.mode[b] = "dir", b # Root, b # Lf
      PROVE  HeldAt(h, b)
  <2>1. CASE b = i
    <3>1. h.mode[b] = fs.mode[b]
      BY <1>1, <1>4, <2>1, AddedHold
    <3>2. QED
      BY <1>1, <1>4, <2>1, <3>1
  <2>2. CASE b # i
    <3>1. fs.mode[b] = "dir" /\ SameHold(fs, h, b) /\ b # lf_dip /\ b \in C
      BY <1>2, <1>3, <1>4, <2>2
    <3>2. HeldAt(fs, b)
      BY <1>4, <3>1 DEF HeldClosed
    <3>3. QED
      BY <1>2, <3>1, <3>2, HeldSame
  <2>3. QED
    BY <2>1, <2>2
<1>5. HeldClosed(h, Lf, C \cup {Lf}, D)
  BY <1>4 DEF HeldClosed
<1>6. QED
  BY <1>1, <1>5

(* What had no holder is held by lost+found once it is put there.          *)
LEMMA HeldInLf ==
  ASSUME LfPossible, NEW tw, NEW O, NEW D, Whole(fs, links, tw, dotdot_parent, lf_dip, Pairs, O, D),
         NEW i \in Addrs, i # Lf, fs.mode[i] = "dir", \A p \in Linking(fs, Pairs, i) : p[2] \in Dots
  PROVE  HeldAt(FsAdded(i), i)
<1>1. PICK h : h = FsAdded(i)
  OBVIOUS
<1>2. /\ Lf \in Addrs /\ DotDot \in DOMAIN h.ents[i] /\ h.ents[i][DotDot].to = Lf
      /\ \A d \in Addrs, n \in Names \ Dots :
            Points(h, d, n, i) <=> Points(fs, d, n, i) \/ (d = Lf /\ n = LostName(i))
  BY <1>1, AddedHold
<1>3. LostName(i) \in Names \ Dots
  BY NamesApart
<1>4. ASSUME NEW d \in Addrs, NEW n \in Names \ Dots PROVE ~Points(fs, d, n, i)
  <2>1. PICK p : p = <<d, n>>
    OBVIOUS
  <2>2. p[2] \notin Dots
    BY <2>1
  <2>3. p \notin Linking(fs, Pairs, i)
    BY <2>2
  <2>4. QED
    BY <2>1, <2>3, PointsIsLinking
<1>5. HeldAt(h, i)
  BY <1>2, <1>3, <1>4 DEF HeldAt
<1>6. QED
  BY <1>1, <1>5

LEMMA AttachUnlinkedHeld == ASSUME LinksKept, HeldKept, IInv, AttachUnlinked PROVE HeldKept'
<1>1. PICK d, O : d = di /\ O = Addrs \ checked
  OBVIOUS
<1>2. /\ InPass3 /\ NextDir /\ d \notin checked \cup {Root} /\ ~HasParent
      /\ \/ /\ LfPossible /\ fs' = FsAdded(d) /\ links' = LinksAdded(d) /\ lf_dip' = Lf
            /\ checked' = checked \union {d, Lf}
         \/ /\ checked' = checked \union {d} /\ UNCHANGED <<fs, links, lf_dip>>
            /\ d \in declined'
  BY <1>1 DEF AttachUnlinked, Mark, Query
<1>3. declined \subseteq declined'
  BY DEF AttachUnlinked, Query
<1>4. /\ HeldOpen(fs, treewalk_parent, Pairs, O, declined) /\ treewalk_parent' = treewalk_parent
      /\ HeldClosed(fs, lf_dip, checked, declined) /\ WalkDone /\ d \in Addrs
      /\ Whole(fs, links, treewalk_parent, dotdot_parent, lf_dip, Pairs, O, declined)
  BY <1>1, <1>2, InPass3Held
<1>5. treewalk_parent[d] = None /\ fs.mode[d] = "dir" /\ d \in O
  BY <1>1, <1>2, <1>4, UnlinkedIsBare
<1>6. CASE /\ checked' = checked \union {d} /\ UNCHANGED <<fs, links, lf_dip>>
           /\ d \in declined'
  <2>1. WalkDone'
    BY <1>1, <1>2, <1>4, <1>6, WalkGoesOn
  <2>2. HeldOpen(fs, treewalk_parent, Pairs, Addrs \ checked', declined')
    BY <1>1, <1>3, <1>4, <1>6 DEF HeldOpen
  <2>3. HeldClosed(fs, lf_dip, checked', declined')
    BY <1>3, <1>4, <1>6 DEF HeldClosed
  <2>4. QED
    BY <1>2, <1>4, <1>6, <2>1, <2>2, <2>3, Pass3Held
<1>7. CASE /\ LfPossible /\ fs' = FsAdded(d) /\ links' = LinksAdded(d) /\ lf_dip' = Lf
           /\ checked' = checked \union {d, Lf}
  <2>1. links'.dirtree \subseteq links.dirtree \cup checked'
    BY <1>4, <1>7, AddedDirs DEF Whole, Records
  <2>2. WalkDone'
    BY <1>1, <1>2, <1>4, <1>7, <2>1, WalkGoesOn
  <2>3. HeldOpen(FsAdded(d), treewalk_parent, Pairs, Addrs \ checked', declined)
    <3>1. Addrs \ checked' \subseteq (Addrs \cap O) \ {d, Lf}
      BY <1>1, <1>7
    <3>2. QED
      BY <1>4, <1>5, <1>7, <3>1, OpenAdded
  <2>4. HeldOpen(fs', treewalk_parent, Pairs, Addrs \ checked', declined')
    BY <1>3, <1>7, <2>3 DEF HeldOpen
  <2>5. \A p \in Linking(fs, Pairs, d) : p[2] \in Dots
    BY <1>4, <1>5 DEF Whole, Reached
  <2>6. d # Lf => HeldAt(FsAdded(d), d)
    BY <1>4, <1>5, <1>7, <2>5, HeldInLf
  <2>7. HeldClosed(FsAdded(d), Lf, checked \cup {Lf}, declined)
    BY <1>4, <1>5, <1>7, <2>6, ClosedAdded
  <2>8. HeldClosed(FsAdded(d), Lf, (checked \cup {Lf}) \cup {d}, declined)
    BY <2>6, <2>7, ClosedMore
  <2>9. HeldClosed(fs', lf_dip', checked', declined')
    <3>1. checked' = (checked \cup {Lf}) \cup {d}
      BY <1>7
    <3>2. QED
      BY <1>3, <1>7, <2>8, <3>1 DEF HeldClosed
  <2>10. QED
    BY <1>2, <1>4, <2>2, <2>4, <2>9, Pass3Held
<1>8. QED
  BY <1>2, <1>6, <1>7

-----------------------------------------------------------------------------
(* pass4:                                                                  *)
LEMMA Pass4Held ==
  ASSUME pc' \notin {"pass2", "pass3"}, WalkDone', HeldClosed(fs', lf_dip', checked', declined')
  PROVE  HeldKept'
<1>1. Open' = {}
  BY DEF Open
<1>2. HeldOpen(fs', treewalk_parent', Visible', Open', declined')
  BY <1>1 DEF HeldOpen
<1>3. QED
  BY <1>2, HeldNext

LEMMA WalkStays ==
  ASSUME WalkDone, InPass4At, checked \subseteq checked', links'.dirtree \subseteq links.dirtree \cup checked'
  PROVE  WalkDone' /\ pc' \notin {"pass2", "pass3"}
<1>1. pc \in {"pass4_inodes", "pass4_dirs", "pass4_nlink1"} /\ pc' = pc /\ cut' = cut
  BY DEF InPass4At, InPass4
<1>2. "pass3" \notin cut => \A d \in links.dirtree : d \in checked \cup {Root}
  BY <1>1 DEF WalkDone
<1>3. "pass3" \notin cut' => \A d \in links'.dirtree : d \in checked' \cup {Root}
  BY <1>1, <1>2
<1>4. QED
  BY <1>1, <1>3 DEF WalkDone

(* The count in the dinode holds nobody.                                   *)
LEMMA CountStepsHeld ==
  ASSUME LinksKept, HeldKept, IInv, LinkCountRight \/ HandleInconsist \/ UnlinkedIsFree
  PROVE  HeldKept'
<1>1. PICK a, k : /\ InPass4At /\ UNCHANGED <<checked, lf_dip>> /\ declined \subseteq declined'
                  /\ \/ fs' = [fs EXCEPT !.nlink[a] = k] /\ links' = [links EXCEPT !.di_nlink[a] = k]
                     \/ UNCHANGED <<fs, links>>
  BY DEF LinkCountRight, HandleInconsist, UnlinkedIsFree, NoQuery, Query
<1>2. GoodFs(fs) /\ GoodLinks(links)
  BY DEF IInv
<1>3. fs'.mode = fs.mode /\ fs'.ents = fs.ents
  BY <1>1, <1>2 DEF GoodFs, FsFields
<1>4. links'.dirtree = links.dirtree
  BY <1>1, <1>2 DEF GoodLinks, LinkFields
<1>5. WalkDone' /\ pc' \notin {"pass2", "pass3"}
  BY <1>1, <1>4, WalkStays DEF HeldKept
<1>6. \A b : SameHold(fs, fs', b)
  BY <1>3, NothingChanged
<1>7. HeldClosed(fs, lf_dip, checked, declined)
  BY DEF HeldKept
<1>8. HeldClosed(fs', lf_dip, checked, declined')
  BY <1>1, <1>2, <1>3, <1>6, <1>7, ClosedSame
<1>9. QED
  BY <1>1, <1>5, <1>8, Pass4Held

LEMMA ClearUnlinkedHeld == ASSUME LinksKept, HeldKept, IInv, ClearUnlinked PROVE HeldKept'
<1>1. PICK d : d = at
  OBVIOUS
<1>2. /\ InPass4At /\ IsUnlinked /\ InUse(at) /\ d \in fs.empty
      /\ fs' = [fs EXCEPT !.mode[d] = "free"] /\ UNCHANGED <<links, checked, lf_dip, declined>>
  BY <1>1 DEF ClearUnlinked, NoQuery
<1>3. d \in Addrs /\ GoodFs(fs) /\ GoodNames(fs)
  BY <1>1, <1>2, InPass4Facts DEF Whole
<1>4. fs.mode[d] = "dir" => DOMAIN fs.ents[d] \subseteq {Dot}
  BY <1>1, <1>2, ClearedIsBare
<1>5. \A b \in Addrs : SameHold(fs, fs', b)
  BY <1>2, <1>3, <1>4, FreedHold
<1>6. fs'.mode = [fs.mode EXCEPT ![d] = "free"]
  BY <1>2, <1>3 DEF GoodFs, FsFields
<1>7. \A b \in Addrs : fs'.mode[b] = "dir" => fs.mode[b] = "dir"
  BY <1>3, <1>6 DEF GoodNames
<1>8. HeldClosed(fs', lf_dip, checked, declined)
  BY <1>3, <1>5, <1>7, ClosedSame DEF HeldKept
<1>9. WalkDone' /\ pc' \notin {"pass2", "pass3"}
  BY <1>2, WalkStays DEF HeldKept
<1>10. QED
  BY <1>2, <1>8, <1>9, Pass4Held

(* What is held is linked, so that only what the walk did not come to, or  *)
(* was not let mend, is put in lost+found here.                            *)
LEMMA HeldIsLinked ==
  ASSUME NEW f, GoodFs(f), NEW a \in Addrs, HeldAt(f, a)
  PROVE  Linking(f, Pairs, a) # {}
<1>1. PICK n \in Names \ Dots : Points(f, f.ents[a][DotDot].to, n, a)
  BY DEF HeldAt
<1>2. f.ents[a][DotDot].to \in Addrs
  BY DEF HeldAt, GoodFs, GoodEnts
<1>3. QED
  BY <1>1, <1>2, PointsIsLinking

LEMMA RelinkUnlinkedHeld == ASSUME LinksKept, HeldKept, IInv, RelinkUnlinked PROVE HeldKept'
<1>1. PICK i, k : i = at /\ k = CountOf(LinksAdded(at))
  OBVIOUS
<1>2. /\ InPass4At /\ IsUnlinked /\ InUse(at)
      /\ \/ /\ LfPossible /\ links' = LinksAdded(i) /\ lf_dip' = Lf /\ checked' = checked \union {Lf}
            /\ fs' = [FsAdded(i) EXCEPT !.nlink[i] = k]
         \/ UNCHANGED <<fs, links, checked, lf_dip>>
  BY <1>1 DEF RelinkUnlinked
<1>3. declined \subseteq declined'
  BY DEF RelinkUnlinked, Query
<1>4. /\ i \in Addrs /\ HeldClosed(fs, lf_dip, checked, declined) /\ WalkDone
      /\ Whole(fs, links, treewalk_parent, dotdot_parent, lf_dip, Pairs, {}, declined)
  BY <1>1, <1>2, InPass4Facts DEF HeldKept
<1>5. CASE UNCHANGED <<fs, links, checked, lf_dip>>
  <2>1. WalkDone' /\ pc' \notin {"pass2", "pass3"}
    BY <1>2, <1>4, <1>5, WalkStays
  <2>2. HeldClosed(fs', lf_dip', checked', declined')
    BY <1>3, <1>4, <1>5 DEF HeldClosed
  <2>3. QED
    BY <2>1, <2>2, Pass4Held
<1>6. CASE /\ LfPossible /\ links' = LinksAdded(i) /\ lf_dip' = Lf /\ checked' = checked \union {Lf}
           /\ fs' = [FsAdded(i) EXCEPT !.nlink[i] = k]
  <2>1. fs.mode[i] # "free"
    BY <1>1, <1>2 DEF InUse
  <2>2. ASSUME i # Lf, i # Root, i \notin declined, fs.mode[i] = "dir", i \in checked
        PROVE  HeldAt(FsAdded(i), i)
    <3>1. i # lf_dip
      BY <1>4, <2>2, RootIsAddr DEF Lf
    <3>2. Linking(fs, Pairs, i) = {}
      BY <1>1, <1>2, <2>2, <3>1, UnlinkedHere
    <3>3. HeldAt(fs, i)
      BY <1>4, <2>2, <3>1 DEF HeldClosed
    <3>4. QED
      BY <1>4, <3>2, <3>3, HeldIsLinked DEF Whole
  <2>3. HeldClosed(FsAdded(i), Lf, checked \cup {Lf}, declined)
    BY <1>4, <1>6, <2>1, <2>2, ClosedAdded
  <2>4. PICK h : h = FsAdded(i) /\ GoodFs(h)
    <3>1. i # Lf => Loose(fs, declined, i)
      <4>1. SUFFICES ASSUME i # Lf, fs.mode[i] = "dir" \/ i \notin declined PROVE Linking(fs, Pairs, i) = {}
        BY DEF Loose
      <4>2. i # lf_dip
        BY <1>4, <4>1, RootIsAddr DEF Lf
      <4>3. QED
        BY <1>1, <1>2, <4>1, <4>2, UnlinkedHere
    <3>2. Whole(FsAdded(i), LinksAdded(i), treewalk_parent, dotdot_parent, Lf, Pairs, ({} \ {Lf}) \ {i}, declined)
      BY <1>4, <1>6, <2>1, <3>1, WholeAdded
    <3>3. QED
      BY <3>2 DEF Whole
  <2>5. fs'.mode = h.mode /\ fs'.ents = h.ents
    BY <1>6, <2>4 DEF GoodFs, FsFields
  <2>6. \A b : SameHold(h, fs', b)
    BY <2>5, NothingChanged
  <2>7. HeldClosed(h, lf_dip', checked', declined)
    BY <1>6, <2>3, <2>4
  <2>8. HeldClosed(fs', lf_dip', checked', declined')
    BY <1>3, <2>4, <2>5, <2>6, <2>7, ClosedSame
  <2>9. links'.dirtree \subseteq links.dirtree \cup checked'
    BY <1>4, <1>6, AddedDirs DEF Whole, Records
  <2>10. WalkDone' /\ pc' \notin {"pass2", "pass3"}
    BY <1>2, <1>4, <1>6, <2>9, WalkStays
  <2>11. QED
    BY <2>8, <2>10, Pass4Held
<1>7. QED
  BY <1>2, <1>5, <1>6

-----------------------------------------------------------------------------
(* From one pass to the next: pass3 has been through the dirtree, or it is *)
(* cut short.                                                              *)
LEMMA WalkStarts ==
  ASSUME IInv, links' = links, at' = NextOf(links.dirtree, 0), di' = at', pc' = "pass3"
  PROVE  WalkDone'
<1>1. links.dirtree \subseteq Addrs /\ Addrs \subseteq Nat \ {0}
  BY DirLinksAssumption DEF IInv, GoodLinks, Addrs
<1>2. ASSUME NEW d \in links.dirtree PROVE at' # None /\ ~(d < at')
  <2>1. PICK x : x = at'
    OBVIOUS
  <2>2. d \in Nat /\ d > 0
    <3>1. d \in Nat \ {0}
      BY <1>1
    <3>2. QED
      BY <3>1
  <2>3. x # None /\ x \in Addrs /\ x <= d
    BY <1>1, <2>1, <2>2, NextAfter, RootIsAddr
  <2>4. QED
    BY <1>1, <2>1, <2>2, <2>3
<1>3. QED
  BY <1>2 DEF WalkDone

LEMMA WalkLeft ==
  ASSUME WalkDone, UNCHANGED <<links, checked>>, LeavePass \/ EndPass \/ ExitWithoutLf,
         pc' # "pass3", pc = "pass2" => at = None, "pass2" \notin cut'
  PROVE  WalkDone'
<1>1. SUFFICES ASSUME "pass3" \notin cut', NEW d \in links.dirtree
               PROVE  d \in checked \cup {Root}
  BY DEF WalkDone
<1>2. cut \subseteq cut'
  BY DEF LeavePass, EndPass, ExitWithoutLf
<1>3. pc # "pass2"
  <2>1. SUFFICES ASSUME pc = "pass2" PROVE FALSE
    OBVIOUS
  <2>2. EndPass
    BY <2>1 DEF LeavePass, ExitWithoutLf, ThisPass, InPass4, InNeedOfLf
  <2>3. pc' = IF fsck_abort THEN "done" ELSE "pass3"
    BY <2>1, <2>2 DEF EndPass, Start, AfterThis
  <2>4. fsck_abort => "pass3" \in cut'
    BY <2>1, <2>2 DEF EndPass, NotRun, LaterPasses
  <2>5. QED
    BY <1>1, <2>3, <2>4
<1>4. CASE pc = "pass3"
  <2>1. LeavePass \/ ExitWithoutLf => "pass3" \in cut'
    BY <1>4 DEF LeavePass, ExitWithoutLf, ThisPass, InPass4
  <2>2. at = None
    BY <1>1, <2>1 DEF EndPass
  <2>3. QED
    BY <1>1, <1>2, <1>4, <2>2 DEF WalkDone
<1>5. CASE pc # "pass3"
  BY <1>1, <1>2, <1>3, <1>5 DEF WalkDone
<1>6. QED
  BY <1>4, <1>5

LEMMA BetweenHeld ==
  ASSUME LinksInv, HeldInv, IInv, LeavePass \/ EndPass \/ ExitWithoutLf
  PROVE  HeldInv'
<1>1. SUFFICES ASSUME "pass2" \notin cut' PROVE HeldKept'
  BY DEF HeldInv
<1>2. cut \subseteq cut' /\ UNCHANGED <<links, treewalk_parent, dotdot_parent, checked, lf_dip>>
  BY DEF LeavePass, EndPass, ExitWithoutLf, dirinfo
<1>3. LinksKept /\ HeldKept
  BY <1>1, <1>2 DEF LinksInv, HeldInv
<1>4. declined \subseteq declined'
  BY DEF LeavePass, EndPass, ExitWithoutLf, Query
<1>5. PICK a, k : fs' = fs \/ fs' = [fs EXCEPT !.nlink[a] = k]
  BY DEF LeavePass, EndPass, ExitWithoutLf, AdjustedLf
<1>6. fs'.mode = fs.mode /\ fs'.ents = fs.ents /\ GoodFs(fs)
  BY <1>5 DEF IInv, GoodFs, FsFields
<1>7. pc = "pass2" => at = None
  BY <1>1 DEF LeavePass, EndPass, ExitWithoutLf, InNeedOfLf, InPass4, ThisPass
<1>8. PICK p \in Passes \ {"pass2"} : Start(p) /\ (p = "pass3" => pc = "pass2")
  BY <1>1, <1>2, <1>3, BetweenStarts
<1>9. pc' = p /\ (p = "pass3" => at' = NextOf(links.dirtree, 0) /\ di' = at')
  BY <1>8 DEF Start, FirstOf, ListOf
<1>10. Visible = Pairs /\ Visible' = Pairs
  BY <1>7, <1>8, <1>9, AllSeen DEF Passes
<1>11. Open' \subseteq Open
  BY <1>2, <1>8, <1>9 DEF Open
<1>12. WalkDone'
  BY <1>1, <1>2, <1>3, <1>7, <1>9, WalkStarts, WalkLeft DEF HeldKept
<1>13. /\ \A S, i : Linking(fs', S, i) = Linking(fs, S, i)
       /\ \A b : SameHold(fs, fs', b)
  BY <1>6, NothingChanged
<1>14. HeldOpen(fs', treewalk_parent', Visible', Open', declined')
  BY <1>2, <1>3, <1>4, <1>6, <1>10, <1>11, <1>13, OpenGrows DEF HeldKept
<1>15. HeldClosed(fs', lf_dip', checked', declined')
  BY <1>2, <1>3, <1>4, <1>6, <1>13, ClosedSame DEF HeldKept
<1>16. QED
  BY <1>12, <1>14, <1>15, HeldNext

LEMMA SameHeld ==
  ASSUME HeldInv, UNCHANGED <<fs, links, dirinfo, lf_dip, pc, at, di, name, cut, declined>>
  PROVE  HeldInv'
<1>1. SUFFICES ASSUME "pass2" \notin cut PROVE HeldKept'
  BY DEF HeldInv
<1>2. Visible' = Visible /\ Open' = Open
  BY DEF Visible, Seen, Open, dirinfo
<1>3. WalkDone'
  BY <1>1 DEF HeldInv, HeldKept, WalkDone, dirinfo
<1>4. /\ HeldOpen(fs', treewalk_parent', Visible', Open', declined')
      /\ HeldClosed(fs', lf_dip', checked', declined')
  BY <1>1, <1>2 DEF HeldInv, HeldKept, dirinfo
<1>5. QED
  BY <1>3, <1>4, HeldNext

LEMMA HoldersNext == IInv /\ LinksInv /\ HeldInv /\ [Next]_vars => HeldInv'
<1> SUFFICES ASSUME IInv, LinksInv, HeldInv, [Next]_vars PROVE HeldInv'
  OBVIOUS
<1>1. CASE Pass2 \/ Pass3 \/ Pass4
  <2>1. SUFFICES ASSUME "pass2" \notin cut PROVE HeldKept'
    BY <1>1, PassesKeepCut DEF HeldInv
  <2>2. LinksKept /\ HeldKept
    BY <2>1 DEF LinksInv, HeldInv
  <2>3. CASE Pass2
    BY <2>2, <2>3, DentryHeld, EndOfDirHeld DEF Pass2
  <2>4. CASE Pass3
    BY <2>2, <2>4, Connected3Held, ParentsAgree3Held, AttachDotDotHeld, RemoveUnlinkedHeld,
       AttachUnlinkedHeld DEF Pass3
  <2>5. CASE Pass4
    BY <2>2, <2>5, CountStepsHeld, ClearUnlinkedHeld, RelinkUnlinkedHeld DEF Pass4
  <2>6. QED
    BY <1>1, <2>3, <2>4, <2>5
<1>2. CASE LeavePass \/ EndPass \/ ExitWithoutLf
  BY <1>2, BetweenHeld
<1>3. CASE (\E choice \in {"skip", "abort"} : Interrupt(choice)) \/ UNCHANGED vars
  <2>1. UNCHANGED <<fs, links, dirinfo, lf_dip, pc, at, di, name, cut, declined>>
    BY <1>3 DEF Interrupt, vars
  <2>2. QED
    BY <2>1, SameHeld
<1>4. QED
  BY <1>1, <1>2, <1>3 DEF Next, Fsck

LEMMA HoldersInit == Init => HeldInv
<1> SUFFICES ASSUME Init PROVE HeldKept
  BY DEF HeldInv
<1>1. pc = "pass2" /\ at = Root /\ name = 0 /\ checked = {} /\ Root # None
  BY RootIsAddr DEF Init
<1>2. Visible = {}
  <2>1. Addrs \subseteq Nat \ {0} /\ Names \subseteq Nat \ {0} /\ Root = 1
    BY DirLinksAssumption DEF Addrs, Names, Dot, DotDot, LostFound, Plain, LostName, Root
  <2>2. \A a \in Addrs, n \in Names : ~(a < Root) /\ ~(n <= 0)
    BY <2>1
  <2>3. \A p \in Pairs : p \notin Visible
    BY <1>1, <2>2, PairIs DEF Visible, Seen
  <2>4. QED
    BY <2>3 DEF Visible
<1>3. HeldOpen(fs, treewalk_parent, {}, Open, declined)
  BY DEF HeldOpen, Linking
<1>4. HeldClosed(fs, lf_dip, {}, declined) /\ WalkDone
  BY <1>1 DEF HeldClosed, WalkDone
<1>5. QED
  BY <1>1, <1>2, <1>3, <1>4 DEF HeldKept

LEMMA HoldersAlways == Spec => [](IInv /\ LinksInv /\ HeldInv)
  BY InitGood, NextGood, LinksInit, LinksNext, HoldersInit, HoldersNext, PTL DEF Spec

(* After pass3, unless it or pass2 was cut short, every directory but the  *)
(* root, lost+found and those a no was said of is held by one directory    *)
(* alone, the one its ".." names: in a file system of any size, whatever   *)
(* was found in it.                                                        *)
THEOREM HeldByParent == Spec => []HeldByItsParent
<1>1. IInv /\ LinksInv /\ HeldInv => HeldByItsParent
  <2> SUFFICES ASSUME IInv, LinksInv, HeldInv, pc \notin {"pass2", "pass3"},
                      cut \cap {"pass2", "pass3"} = {}, NEW b \in DirsInUse \ ({Root, lf_dip} \cup declined)
               PROVE  DotDot \in DOMAIN fs.ents[b] /\ HoldersOf(b) = {fs.ents[b][DotDot].to}
    BY DEF HeldByItsParent
  <2>1. /\ LinksKept /\ HeldKept /\ b \in Addrs /\ fs.mode[b] = "dir"
        /\ b # Root /\ b # lf_dip /\ b \notin declined
    BY DEF LinksInv, HeldInv, DirsInUse
  <2>2. b \in links.dirtree /\ GoodFs(fs) /\ GoodNames(fs)
    BY <2>1 DEF LinksKept, Whole, Records
  <2>3. b \in checked
    BY <2>1, <2>2 DEF HeldKept, WalkDone
  <2>4. HeldAt(fs, b)
    BY <2>1, <2>3 DEF HeldKept, HeldClosed
  <2>5. PICK d \in Addrs : d = fs.ents[b][DotDot].to
    BY <2>1, <2>2, <2>4 DEF HeldAt, GoodFs, GoodEnts
  <2>6. /\ \E n \in Names \ Dots : Points(fs, d, n, b)
        /\ \A c \in Addrs : \A n \in Names \ Dots : Points(fs, c, n, b) => c = d
    BY <2>4, <2>5 DEF HeldAt
  <2>7. HoldersOf(b) = { p[1] : p \in { q \in Linking(fs, Pairs, b) : q[2] \notin Dots } }
    BY <2>2, LinkingIsLinksTo DEF HoldersOf, Dots
  <2>8. d \in HoldersOf(b)
    <3>1. PICK n \in Names \ Dots : Points(fs, d, n, b)
      BY <2>6
    <3>2. PICK p : p = <<d, n>>
      OBVIOUS
    <3>3. p \in Linking(fs, Pairs, b) /\ p[1] = d /\ p[2] \notin Dots
      BY <3>1, <3>2, PointsIsLinking
    <3>4. QED
      BY <2>7, <3>3
  <2>9. ASSUME NEW c \in HoldersOf(b) PROVE c = d
    <3>1. PICK p \in Linking(fs, Pairs, b) : p[2] \notin Dots /\ c = p[1]
      BY <2>7, <2>9
    <3>2. p[1] \in Addrs /\ p[2] \in Names /\ Points(fs, p[1], p[2], b)
      BY <3>1, PairIs DEF Linking
    <3>3. QED
      BY <2>6, <3>1, <3>2
  <2>10. QED
    BY <2>4, <2>5, <2>8, <2>9 DEF HeldAt
<1>2. QED
  BY <1>1, HoldersAlways, PTL

-----------------------------------------------------------------------------
(* The third part: the counts in the dinodes.  di_nlink is what the dinode *)
(* says, or nothing yet, until the list of pass4 that decides its count    *)
(* has come to it; from then on the dinode has what is counted.            *)
Noted(f, l, b) == l.di_nlink[b] \in {0, f.nlink[b]}
Even(f, l, b) == f.nlink[b] = Counted(l, b)

(* The list a dinode is in for good, and if pass4 has been past it there.  *)
Lists == {"pass4_inodes", "pass4_dirs", "pass4_nlink1"}
OwnList(f, l, b) ==
    IF f.mode[b] = "dir" THEN "pass4_dirs" ELSE IF b \in l.inodetree THEN "pass4_inodes" ELSE "pass4_nlink1"
PassesAfter(c) ==
    IF c = "pass4_inodes" THEN {"pass4_dirs", "pass4_nlink1", "done"}
    ELSE IF c = "pass4_dirs" THEN {"pass4_nlink1", "done"} ELSE {"done"}
Passed(a, b) == a = None \/ b < a
Visited(f, l, p, a, b) ==
    p \in PassesAfter(OwnList(f, l, b)) \/ (p = OwnList(f, l, b) /\ Passed(a, b))

InStep(f, l, p, a, b) ==
    IF Visited(f, l, p, a, b) THEN Even(f, l, b) /\ (f.mode[b] = "file" => f.nlink[b] > 0)
    ELSE Noted(f, l, b) \/ (p \notin {"pass2", "pass3"} /\ Even(f, l, b))

(* The dinodes it is about: a directory that was its own parent when it    *)
(* was put in lost+found is not.                                           *)
Minded(f, l, dd, O, D, b) ==
    f.mode[b] # "free" /\ b \notin D /\ b \notin l.outdated /\ (dd[b] # b \/ b \in O)

GoodNumbers(f, l) == f.nlink \in [Addrs -> Nat] /\ DOMAIN l.di_nlink = Addrs
Singles(f, l) == \A b \in Addrs : f.mode[b] = "file" /\ b \in l.nlink1map => f.nlink[b] = 1

(* Every directory pass2 has been through has its ".".                     *)
Dotted(f, D, p, a) == \A d \in Addrs \ D :
    f.mode[d] = "dir" /\ (p # "pass2" \/ Passed(a, d)) => Dot \in DOMAIN f.ents[d]

(* lost+found is put right at the end of a list that has added to it.      *)
NumbersOf(f, l, dd, lf, add, O, D, p, a) ==
    /\ GoodNumbers(f, l) /\ Singles(f, l) /\ Dotted(f, D, p, a)
    /\ add => lf # None /\ p \in Lists
    /\ \A b \in Addrs : Minded(f, l, dd, O, D, b) => InStep(f, l, p, a, b) \/ (b = lf /\ add)

NumbersKept == NumbersOf(fs, links, dotdot_parent, lf_dip, lf_addition, Open, declined, pc, at)
NumbersInv == cut = {} => NumbersKept

-----------------------------------------------------------------------------
(* What is so of the new state, taken apart and put together.              *)
LEMMA NumbersNext ==
  ASSUME NumbersOf(fs', links', dotdot_parent', lf_dip', lf_addition', Open', declined', pc', at')
  PROVE  NumbersKept'
<1>1. GoodNumbers(fs', links') => GoodNumbers(fs, links)'
  BY DEF GoodNumbers
<1>2. Singles(fs', links') => Singles(fs, links)'
  BY DEF Singles
<1>3. Dotted(fs', declined', pc', at') => Dotted(fs, declined, pc, at)'
  BY DEF Dotted, Passed
<1>4. \A b : Minded(fs, links, dotdot_parent, Open, declined, b)' =>
             Minded(fs', links', dotdot_parent', Open', declined', b)
  BY DEF Minded
<1>5. \A b : Visited(fs', links', pc', at', b) <=> Visited(fs, links, pc, at, b)'
  BY DEF Visited, OwnList, PassesAfter, Passed
<1>6. \A b : InStep(fs', links', pc', at', b) => InStep(fs, links, pc, at, b)'
  BY <1>5 DEF InStep, Even, Noted, Counted
<1>7. QED
  BY <1>1, <1>2, <1>3, <1>4, <1>6 DEF NumbersKept, NumbersOf

(* A dinode in step stays so when what is noted or even stays so.          *)
Follows(f, l, f2, l2, b) ==
    (Noted(f, l, b) => Noted(f2, l2, b)) /\ (Even(f, l, b) => Even(f2, l2, b))

LEMMA FollowsTwice ==
  ASSUME NEW f, NEW l, NEW f2, NEW l2, NEW f3, NEW l3, NEW b,
         Follows(f, l, f2, l2, b), Follows(f2, l2, f3, l3, b)
  PROVE  Follows(f, l, f3, l3, b)
  BY DEF Follows

(* Neither the dinode nor its record changes.                              *)
LEMMA FollowsSame ==
  ASSUME NEW f, NEW l, NEW f2, NEW l2, NEW b, f2.nlink[b] = f.nlink[b],
         l2.di_nlink[b] = l.di_nlink[b], Counted(l2, b) = Counted(l, b)
  PROVE  Follows(f, l, f2, l2, b)
  BY DEF Follows, Noted, Even

(* lost+found is made with two links, and the root gets one more.          *)
LEMMA MadeNlink ==
  ASSUME LfPossible, LfMissing, GoodFs(fs), fs.nlink \in [Addrs -> Nat]
  PROVE  /\ FsWithLf.nlink \in [Addrs -> Nat]
         /\ \A b \in Addrs \ {Lf, Root} : FsWithLf.nlink[b] = fs.nlink[b]
         /\ Lf # Root => FsWithLf.nlink[Root] = fs.nlink[Root] + 1
<1>1. PICK L : L = Lf
  OBVIOUS
<1>2. L \in Addrs /\ Root \in Addrs
  BY <1>1, WithLfMade, RootIsAddr
<1>3. PICK base : base = With(fs, Root, LostFound, L)
  OBVIOUS
<1>4. PICK own : own = [n \in {Dot, DotDot} |-> Entry(IF n = Dot THEN L ELSE Root)]
  OBVIOUS
<1>5. PICK g : g = FsWithLf
  OBVIOUS
<1>6. g = [base EXCEPT !.mode[L] = "dir", !.ents[L] = own,
                       !.nlink[L] = 2, !.nlink[Root] = @ + 1, !.empty = @ \ {L}]
  BY <1>1, <1>3, <1>4, <1>5 DEF FsWithLf
<1>7. DOMAIN base = FsFields /\ base.nlink = fs.nlink
  BY <1>3 DEF GoodFs, FsFields, With
<1>8. g.nlink = [[fs.nlink EXCEPT ![L] = 2] EXCEPT ![Root] = @ + 1]
  BY <1>6, <1>7 DEF FsFields
<1>9. PICK one : one = [fs.nlink EXCEPT ![L] = 2]
  OBVIOUS
<1>10. one \in [Addrs -> Nat] /\ \A b \in Addrs \ {L} : one[b] = fs.nlink[b]
  BY <1>9
<1>11. g.nlink \in [Addrs -> Nat] /\ g.nlink[Root] = one[Root] + 1 /\ \A b \in Addrs \ {Root} : g.nlink[b] = one[b]
  BY <1>2, <1>8, <1>9, <1>10
<1>12. QED
  BY <1>1, <1>2, <1>5, <1>10, <1>11

(* make_sure_lf_exists, and the numbers of everything else.                *)
LEMMA LfNumbers ==
  ASSUME LfPossible, NEW tw, NEW dd, NEW O, NEW D, Whole(fs, links, tw, dd, lf_dip, Pairs, O, D),
         GoodNumbers(fs, links)
  PROVE  /\ GoodNumbers(FsWithLf, LinksWithLf) /\ SameRest(links, LinksWithLf)
         /\ LinksWithLf.dirtree \subseteq links.dirtree \cup {Lf}
         /\ links.outdated \subseteq LinksWithLf.outdated
         /\ \A b \in Addrs \ {Lf} :
               /\ Follows(fs, links, FsWithLf, LinksWithLf, b)
               /\ b # Root => /\ FsWithLf.nlink[b] = fs.nlink[b]
                              /\ Counted(LinksWithLf, b) = Counted(links, b)
         /\ \/ Lf \in LinksWithLf.outdated \/ Noted(FsWithLf, LinksWithLf, Lf)
            \/ fs.mode[Lf] # "free" /\ ~Noted(fs, links, Lf)
<1>1. Root \in Addrs /\ Root \in links.dirtree /\ GoodFs(fs) /\ GoodLinks(links) /\ GoodCounts(links)
  BY RootIsAddr DEF Whole, Records
<1>2. fs.nlink \in [Addrs -> Nat] /\ DOMAIN links.di_nlink = Addrs
  BY DEF GoodNumbers
<1>3. CASE lf_dip # None
  <2>1. FsWithLf = fs /\ LinksWithLf = links
    BY <1>3 DEF Lf, LfMissing, FsWithLf, LinksWithLf
  <2>2. Lf = lf_dip /\ lf_dip \in Addrs /\ fs.mode[lf_dip] = "dir"
    BY <1>3 DEF Lf, Whole, LostAndFound
  <2>3. QED
    BY <2>1, <2>2 DEF SameRest, Follows
<1>4. CASE lf_dip = None /\ ~LfMissing
  <2>1. FsWithLf = fs
    BY <1>4 DEF FsWithLf
  <2>2. PICK m : m = LinksWithLf
    OBVIOUS
  <2>3. PICK L : L = Lf
    OBVIOUS
  <2>4. m = [links EXCEPT !.di_nlink[Root] = fs.nlink[Root]]
    BY <1>4, <2>1, <2>2 DEF LinksWithLf, LfMissing
  <2>5. /\ m.dirtree = links.dirtree /\ m.outdated = links.outdated /\ SameRest(links, m)
        /\ \A j : Counted(m, j) = Counted(links, j)
        /\ m.di_nlink = [links.di_nlink EXCEPT ![Root] = fs.nlink[Root]]
    BY <1>1, <2>4 DEF GoodLinks, LinkFields, SameRest, Counted
  <2>6. GoodNumbers(fs, m) /\ \A b \in Addrs : Follows(fs, links, fs, m, b)
    BY <1>1, <1>2, <2>5 DEF GoodNumbers, Follows, Noted, Even
  <2>7. L \in Addrs /\ fs.mode[L] = "dir"
    <3>1. L = fs.ents[Root][LostFound].to /\ LostFound \in DOMAIN fs.ents[Root]
      BY <1>4, <2>3 DEF Lf, LfMissing
    <3>2. fs.mode[L] = "dir"
      BY <1>4, <3>1 DEF Whole, LostAndFound
    <3>3. L \in Addrs
      BY <1>1, <3>1 DEF GoodFs, GoodEnts
    <3>4. QED
      BY <3>2, <3>3
  <2>8. QED
    BY <2>1, <2>2, <2>3, <2>5, <2>6, <2>7 DEF Follows
<1>5. CASE LfMissing
  <2>1. PICK L, g, m : L = Lf /\ g = FsWithLf /\ m = LinksWithLf
    OBVIOUS
  <2>2. links.outdated = {}
    BY <1>5 DEF Whole, Records, LfMissing
  <2>3. L \in Addrs
    BY <1>1, <1>5, <2>1, WithLfMade
  <2>4. LfRecorded(links, m, L) /\ DiRecorded(links, m, L, g.nlink[Root])
    BY <1>1, <1>5, <2>1, <2>2, LfIsRecorded
  <2>5. /\ g.nlink \in [Addrs -> Nat] /\ \A b \in Addrs \ {L, Root} : g.nlink[b] = fs.nlink[b]
        /\ L # Root => g.nlink[Root] = fs.nlink[Root] + 1
    BY <1>1, <1>2, <1>5, <2>1, MadeNlink
  <2>6. /\ DOMAIN m.di_nlink = Addrs /\ \A b \in Addrs \ {L, Root} : m.di_nlink[b] = links.di_nlink[b]
        /\ L # Root => m.di_nlink[Root] = g.nlink[Root]
        /\ L \notin links.dirtree => m.di_nlink[L] = 0
    BY <1>2, <2>4 DEF DiRecorded
  <2>7. /\ m.dirtree = links.dirtree \cup {L} /\ SameRest(links, m)
        /\ m.outdated = IF L \in links.dirtree THEN links.outdated \cup {L} ELSE links.outdated
        /\ \A b \in Addrs \ {L, Root} : Counted(m, b) = Counted(links, b)
        /\ L # Root => Counted(m, Root) = Counted(links, Root) + 1
    BY <2>4 DEF LfRecorded
  <2>8. GoodNumbers(g, m)
    BY <2>5, <2>6 DEF GoodNumbers
  <2>9. \A b \in Addrs \ {L} : Follows(fs, links, g, m, b)
    <3>1. \A b \in Addrs \ {L, Root} : Follows(fs, links, g, m, b)
      BY <2>5, <2>6, <2>7 DEF Follows, Noted, Even
    <3>2. L # Root => Follows(fs, links, g, m, Root)
      BY <2>5, <2>6, <2>7 DEF Follows, Noted, Even
    <3>3. QED
      BY <3>1, <3>2
  <2>10. L \in m.outdated \/ Noted(g, m, L)
    BY <2>6, <2>7 DEF Noted
  <2>11. QED
    BY <2>1, <2>5, <2>7, <2>8, <2>9, <2>10
<1>6. QED
  BY <1>3, <1>4, <1>5 DEF LfMissing

(* add_dotdot takes back a link of o and writes its new count, unless the  *)
(* dinode had none.                                                        *)
TakesBack(f, l, o, un, g, sy) ==
    /\ un = DecrLinkCount(l, o)
    /\ sy = IF f.nlink[o] > 0 THEN [un EXCEPT !.di_nlink[o] = f.nlink[o] - 1] ELSE un
    /\ g.nlink = IF f.nlink[o] > 0 THEN [f.nlink EXCEPT ![o] = @ - 1] ELSE f.nlink

LEMMA UndoneNumbers ==
  ASSUME NEW l, GoodLinks(l), GoodCounts(l), NEW f, GoodNumbers(f, l), NEW o \in Addrs, o \in l.dirtree,
         NEW un, NEW sy, NEW g, TakesBack(f, l, o, un, g, sy)
  PROVE  /\ GoodLinks(sy) /\ GoodCounts(sy) /\ SameTrees(l, sy) /\ SameRest(l, sy) /\ GoodNumbers(g, sy)
         /\ \A b \in Addrs : Follows(f, l, g, sy, b)
         /\ \A b \in Addrs \ {o} : /\ g.nlink[b] = f.nlink[b] /\ sy.di_nlink[b] = l.di_nlink[b]
                                   /\ Counted(sy, b) = Counted(l, b)
<1>1. f.nlink \in [Addrs -> Nat] /\ DOMAIN l.di_nlink = Addrs
  BY DEF GoodNumbers
<1>0. un = DecrLinkCount(l, o)
  BY DEF TakesBack
<1>2. /\ GoodLinks(un) /\ GoodCounts(un) /\ SameTrees(l, un) /\ SameRest(l, un)
      /\ \A k \in Addrs : Counted(un, k) = IF k = o /\ Counted(l, k) > 0 THEN Counted(l, k) - 1 ELSE Counted(l, k)
  BY <1>0, DecrCounts DEF SameRest
<1>3. un.di_nlink = l.di_nlink
  BY <1>0 DEF GoodLinks, LinkFields, DecrLinkCount
<1>4. Counted(l, o) \in Nat
  BY CountedIsNat
<1>5. CASE f.nlink[o] > 0
  <2>1. sy = [un EXCEPT !.di_nlink[o] = f.nlink[o] - 1] /\ g.nlink = [f.nlink EXCEPT ![o] = @ - 1]
    BY <1>5 DEF TakesBack
  <2>2. /\ GoodLinks(sy) /\ GoodCounts(sy) /\ SameTrees(un, sy)
        /\ sy.inodetree = un.inodetree /\ sy.nlink1map = un.nlink1map
        /\ \A j : Counted(sy, j) = Counted(un, j)
        /\ sy.di_nlink = [un.di_nlink EXCEPT ![o] = f.nlink[o] - 1]
    BY <1>2, <2>1 DEF GoodLinks, GoodCounts, SameTrees, LinkFields, Counted
  <2>3. /\ g.nlink \in [Addrs -> Nat] /\ g.nlink[o] = f.nlink[o] - 1
        /\ \A b \in Addrs \ {o} : g.nlink[b] = f.nlink[b]
    BY <1>1, <1>5, <2>1
  <2>4. /\ DOMAIN sy.di_nlink = Addrs /\ sy.di_nlink[o] = f.nlink[o] - 1
        /\ \A b \in Addrs \ {o} : sy.di_nlink[b] = l.di_nlink[b]
    BY <1>1, <1>3, <2>2
  <2>5. Follows(f, l, g, sy, o)
    <3>1. Noted(g, sy, o)
      BY <2>3, <2>4 DEF Noted
    <3>2. Even(f, l, o) => Even(g, sy, o)
      BY <1>2, <1>4, <1>5, <2>2, <2>3 DEF Even
    <3>3. QED
      BY <3>1, <3>2 DEF Follows
  <2>6. \A b \in Addrs \ {o} : Counted(sy, b) = Counted(l, b)
    BY <1>2, <2>2
  <2>7. \A b \in Addrs \ {o} : Follows(f, l, g, sy, b)
    BY <2>3, <2>4, <2>6, FollowsSame
  <2>8. SameTrees(l, sy) /\ SameRest(l, sy) /\ GoodNumbers(g, sy)
    BY <1>2, <2>2, <2>3, <2>4 DEF SameTrees, SameRest, GoodNumbers
  <2>9. QED
    BY <2>2, <2>3, <2>4, <2>5, <2>6, <2>7, <2>8
<1>6. CASE ~(f.nlink[o] > 0)
  <2>1. sy = un /\ g.nlink = f.nlink
    BY <1>6 DEF TakesBack
  <2>2. f.nlink[o] = 0
    BY <1>1, <1>6
  <2>3. Follows(f, l, g, sy, o)
    <3>1. Noted(f, l, o) => Noted(g, sy, o)
      BY <1>3, <2>1 DEF Noted
    <3>2. Even(f, l, o) => Even(g, sy, o)
      BY <1>2, <1>4, <2>1, <2>2 DEF Even
    <3>3. QED
      BY <3>1, <3>2 DEF Follows
  <2>4. \A b \in Addrs \ {o} : Counted(sy, b) = Counted(l, b)
    BY <1>2, <2>1
  <2>5. \A b \in Addrs \ {o} : Follows(f, l, g, sy, b)
    BY <1>3, <2>1, <2>4, FollowsSame
  <2>6. GoodNumbers(g, sy)
    BY <1>1, <1>3, <2>1 DEF GoodNumbers
  <2>7. QED
    BY <1>2, <1>3, <2>1, <2>3, <2>4, <2>5, <2>6
<1>7. QED
  BY <1>5, <1>6

(* A link that is counted of what has a record of its own, or is counted   *)
(* the first time.                                                         *)
LEMMA IncrNumbers ==
  ASSUME NEW l, GoodLinks(l), GoodCounts(l), NEW i \in Addrs,
         i \in l.dirtree \cup l.inodetree \/ i \notin l.clink1map
  PROVE  /\ GoodLinks(IncrLinkCount(l, i)) /\ GoodCounts(IncrLinkCount(l, i))
         /\ SameTrees(l, IncrLinkCount(l, i)) /\ SameRest(l, IncrLinkCount(l, i))
         /\ IncrLinkCount(l, i).di_nlink = l.di_nlink
         /\ \A b \in Addrs \ {i} : Counted(IncrLinkCount(l, i), b) = Counted(l, b)
         /\ i \notin l.outdated => Counted(IncrLinkCount(l, i), i) = Counted(l, i) + 1
<1>1. PICK m : m = IncrLinkCount(l, i)
  OBVIOUS
<1>2. /\ GoodLinks(m) /\ GoodCounts(m) /\ SameTrees(l, m)
      /\ \A k \in Addrs : Counted(m, k) = IF k = i /\ i \notin l.outdated THEN Counted(l, k) + 1 ELSE Counted(l, k)
  BY <1>1, IncrCounts
<1>3. SameRest(l, m) /\ m.di_nlink = l.di_nlink
  BY <1>1, IncrDi
<1>4. QED
  BY <1>1, <1>2, <1>3

-----------------------------------------------------------------------------
(* add_inode_to_lf: the numbers of everything but what is added and        *)
(* lost+found follow, and so does what is noted of a directory that is     *)
(* added, unless it was its own parent.                                    *)
AddsNumbers(i, f2, l2, L) ==
    /\ GoodNumbers(f2, l2) /\ SameRest(links, l2) /\ links.outdated \subseteq l2.outdated
    /\ \A b \in Addrs \ {i, L} : Follows(fs, links, f2, l2, b)
    /\ \A b \in Addrs \ {L} : b \notin links.dirtree => f2.nlink[b] = fs.nlink[b]
    /\ i # L /\ fs.mode[i] = "dir" /\ dotdot_parent[i] # i => (Noted(fs, links, i) => Noted(f2, l2, i))
    /\ i # L /\ fs.mode[i] = "file" => Counted(l2, i) = Counted(links, i) + 1
    /\ L \in l2.outdated \/ Noted(f2, l2, L) \/ (fs.mode[L] # "free" /\ ~Noted(fs, links, L))

LEMMA FileNumbers ==
  ASSUME IInv, LfPossible, NEW tw, NEW O, NEW D, Whole(fs, links, tw, dotdot_parent, lf_dip, Pairs, O, D),
         GoodNumbers(fs, links), NEW i \in Addrs, i # Lf, fs.mode[i] = "file",
         i \in links.inodetree \/ i \notin links.clink1map
  PROVE  AddsNumbers(i, FsAdded(i), LinksAdded(i), Lf)
<1>1. PICK L, f, l, h, m : L = Lf /\ f = FsWithLf /\ l = LinksWithLf /\ h = FsAdded(i) /\ m = LinksAdded(i)
  OBVIOUS
<1>2. /\ L \in Addrs /\ GoodFs(f) /\ GoodLinks(l) /\ GoodCounts(l) /\ l.outdated \subseteq {L}
  BY <1>1, WholeWithLf DEF Whole, Records
<1>3. /\ GoodNumbers(f, l) /\ SameRest(links, l) /\ l.dirtree \subseteq links.dirtree \cup {L}
      /\ links.outdated \subseteq l.outdated
      /\ \A b \in Addrs \ {L} :
            /\ Follows(fs, links, f, l, b)
            /\ b # Root => f.nlink[b] = fs.nlink[b] /\ Counted(l, b) = Counted(links, b)
      /\ L \in l.outdated \/ Noted(f, l, L) \/ (fs.mode[L] # "free" /\ ~Noted(fs, links, L))
  BY <1>1, LfNumbers
<1>4. Root \in links.dirtree /\ i \notin links.dirtree
  BY DEF Whole, Records
<1>5. l.clink1map = links.clink1map
  BY <1>1, <1>4, WithLfTrees DEF IInv
<1>6. i \in l.inodetree \/ i \notin l.clink1map
  BY <1>3, <1>5 DEF SameRest
<1>7. h = With(f, L, LostName(i), i) /\ m = IncrLinkCount(l, i)
  BY <1>1 DEF FsAdded, FsAttached, LinksAdded, LinksAttached
<1>8. h.nlink = f.nlink
  BY <1>2, <1>7 DEF With, GoodFs, FsFields
<1>9. /\ SameTrees(l, m) /\ SameRest(l, m) /\ m.di_nlink = l.di_nlink
      /\ \A b \in Addrs \ {i} : Counted(m, b) = Counted(l, b)
      /\ i \notin l.outdated => Counted(m, i) = Counted(l, i) + 1
  BY <1>2, <1>6, <1>7, IncrNumbers
<1>10. GoodNumbers(h, m)
  BY <1>3, <1>8, <1>9 DEF GoodNumbers
<1>11. SameRest(links, m) /\ links.outdated \subseteq m.outdated
  BY <1>3, <1>9 DEF SameRest, SameTrees
<1>12. ASSUME NEW b \in Addrs \ {i, L} PROVE Follows(fs, links, h, m, b)
  <2>1. Follows(f, l, h, m, b)
    BY <1>8, <1>9, FollowsSame
  <2>2. Follows(fs, links, f, l, b)
    BY <1>3
  <2>3. QED
    BY <2>1, <2>2, FollowsTwice
<1>13. \A b \in Addrs \ {L} : b \notin links.dirtree => h.nlink[b] = fs.nlink[b]
  BY <1>3, <1>4, <1>8
<1>14. Counted(m, i) = Counted(links, i) + 1
  <2>1. i # Root /\ i \notin l.outdated /\ i # L
    BY <1>1, <1>2, <1>4
  <2>2. QED
    BY <1>3, <1>9, <2>1
<1>15. L \in m.outdated \/ Noted(h, m, L) \/ (fs.mode[L] # "free" /\ ~Noted(fs, links, L))
  BY <1>3, <1>8, <1>9 DEF SameTrees, Noted
<1>16. AddsNumbers(i, h, m, L)
  BY <1>10, <1>11, <1>12, <1>13, <1>14, <1>15 DEF AddsNumbers
<1>17. QED
  BY <1>1, <1>16

LEMMA DirNumbers ==
  ASSUME IInv, LfPossible, NEW tw, NEW O, NEW D, Whole(fs, links, tw, dotdot_parent, lf_dip, Pairs, O, D),
         GoodNumbers(fs, links), NEW i \in Addrs, i # Lf, fs.mode[i] = "dir"
  PROVE  AddsNumbers(i, FsAdded(i), LinksAdded(i), Lf)
<1>1. PICK L, f, l, h, m, o : /\ L = Lf /\ f = FsWithLf /\ l = LinksWithLf /\ h = FsAdded(i) /\ m = LinksAdded(i)
                              /\ o = OldParent(i)
  OBVIOUS
<1>2. /\ L \in Addrs /\ GoodFs(f) /\ GoodLinks(l) /\ GoodCounts(l) /\ l.outdated \subseteq {L}
      /\ i \in l.dirtree /\ L \in l.dirtree /\ o \in l.dirtree \cup {None}
  <2>1. L \in Addrs /\ Whole(f, l, tw, dotdot_parent, L, Pairs, O \ {L}, D)
    BY <1>1, WholeWithLf
  <2>2. f.mode[i] = "dir" /\ f.mode[L] = "dir"
    BY <1>1, <2>1, WholeWithLf, RootIsAddr DEF Whole, LostAndFound
  <2>3. o \in l.dirtree \cup {None}
    BY <1>1, <2>1 DEF Whole, DotDots, OldParent
  <2>4. QED
    BY <2>1, <2>2, <2>3 DEF Whole, Records
<1>3. /\ GoodNumbers(f, l) /\ SameRest(links, l) /\ l.dirtree \subseteq links.dirtree \cup {L}
      /\ links.outdated \subseteq l.outdated
      /\ \A b \in Addrs \ {L} :
            /\ Follows(fs, links, f, l, b)
            /\ b # Root => f.nlink[b] = fs.nlink[b] /\ Counted(l, b) = Counted(links, b)
      /\ L \in l.outdated \/ Noted(f, l, L) \/ (fs.mode[L] # "free" /\ ~Noted(fs, links, L))
  BY <1>1, LfNumbers
<1>4. Root \in links.dirtree
  BY DEF Whole, Records
<1>5. PICK un : un = IF UndoesDotDot(i) THEN DecrLinkCount(l, o) ELSE l
  OBVIOUS
<1>6. PICK sy : sy = IF DotDotUndone(i) THEN [un EXCEPT !.di_nlink[o] = f.nlink[o] - 1] ELSE un
  OBVIOUS
<1>7. PICK a : a = IncrLinkCount(sy, i)
  OBVIOUS
<1>8. m = IncrLinkCount(a, L)
  BY <1>1, <1>5, <1>6, <1>7 DEF LinksAdded, LinksAttached
<1>9. PICK fa : fa = With(f, L, LostName(i), i)
  OBVIOUS
<1>10. PICK g : g = IF DotDotUndone(i) /\ o # i THEN [fa EXCEPT !.nlink[o] = @ - 1] ELSE fa
  OBVIOUS
<1>11. h = With(g, i, DotDot, L)
  BY <1>1, <1>9, <1>10 DEF FsAdded, FsAttached
<1>12. DOMAIN fa = FsFields /\ fa.nlink = f.nlink
  BY <1>2, <1>9 DEF With, GoodFs, FsFields
<1>13. DOMAIN g = FsFields /\ g.nlink = IF DotDotUndone(i) /\ o # i THEN [f.nlink EXCEPT ![o] = @ - 1] ELSE f.nlink
  BY <1>10, <1>12 DEF FsFields
<1>14. h.nlink = g.nlink
  BY <1>11, <1>13 DEF With, FsFields
<1>15. /\ GoodLinks(sy) /\ GoodCounts(sy) /\ SameTrees(l, sy) /\ SameRest(l, sy) /\ GoodNumbers(g, sy)
       /\ \A b \in Addrs : b # i \/ o # i => Follows(f, l, g, sy, b)
       /\ \A b \in Addrs : b # o => g.nlink[b] = f.nlink[b]
  <2>1. CASE ~UndoesDotDot(i)
    <3>1. sy = l /\ g.nlink = f.nlink
      BY <1>5, <1>6, <1>13, <2>1 DEF DotDotUndone
    <3>2. GoodNumbers(g, sy) /\ \A b \in Addrs : Follows(f, l, g, sy, b)
      BY <1>3, <3>1, FollowsSame DEF GoodNumbers
    <3>3. QED
      BY <1>2, <3>1, <3>2 DEF SameTrees, SameRest
  <2>2. CASE UndoesDotDot(i)
    <3>1. o \in Addrs /\ o \in l.dirtree
      BY <1>1, <1>2, <2>2 DEF UndoesDotDot, GoodLinks
    <3>2. un = DecrLinkCount(l, o) /\ (DotDotUndone(i) <=> f.nlink[o] > 0)
      BY <1>1, <1>5, <2>2 DEF DotDotUndone
    <3>3. sy = IF f.nlink[o] > 0 THEN [un EXCEPT !.di_nlink[o] = f.nlink[o] - 1] ELSE un
      BY <1>6, <3>2
    <3>4. PICK e : e = [nlink |-> IF f.nlink[o] > 0 THEN [f.nlink EXCEPT ![o] = @ - 1] ELSE f.nlink]
      OBVIOUS
    <3>5. e.nlink = IF f.nlink[o] > 0 THEN [f.nlink EXCEPT ![o] = @ - 1] ELSE f.nlink
      BY <3>4
    <3>6. /\ GoodLinks(sy) /\ GoodCounts(sy) /\ SameTrees(l, sy) /\ SameRest(l, sy) /\ GoodNumbers(e, sy)
          /\ \A b \in Addrs : Follows(f, l, e, sy, b)
          /\ \A b \in Addrs \ {o} : /\ e.nlink[b] = f.nlink[b] /\ sy.di_nlink[b] = l.di_nlink[b]
                                    /\ Counted(sy, b) = Counted(l, b)
      <4>1. TakesBack(f, l, o, un, e, sy)
        BY <3>2, <3>3, <3>5 DEF TakesBack
      <4>2. QED
        BY <1>2, <1>3, <3>1, <4>1, UndoneNumbers
    <3>7. CASE o # i
      <4>1. g.nlink = e.nlink
        BY <1>13, <3>2, <3>5, <3>7
      <4>2. \A b \in Addrs : Follows(f, l, g, sy, b)
        BY <3>6, <4>1 DEF Follows, Noted, Even
      <4>3. QED
        BY <3>6, <4>1, <4>2 DEF GoodNumbers
    <3>8. CASE o = i
      <4>1. g.nlink = f.nlink
        BY <1>13, <3>8
      <4>2. \A b \in Addrs \ {i} : Follows(f, l, g, sy, b)
        BY <3>6, <3>8, <4>1, FollowsSame
      <4>3. GoodNumbers(g, sy)
        BY <1>3, <3>6, <4>1 DEF GoodNumbers
      <4>4. QED
        BY <3>6, <3>8, <4>1, <4>2, <4>3
    <3>9. QED
      BY <3>7, <3>8
  <2>3. QED
    BY <2>1, <2>2
<1>16. /\ GoodLinks(a) /\ GoodCounts(a) /\ SameTrees(sy, a) /\ SameRest(sy, a) /\ a.di_nlink = sy.di_nlink
       /\ \A b \in Addrs \ {i} : Counted(a, b) = Counted(sy, b)
  <2>1. i \in sy.dirtree
    BY <1>2, <1>15 DEF SameTrees
  <2>2. QED
    BY <1>7, <1>15, <2>1, IncrNumbers
<1>17. /\ SameTrees(a, m) /\ SameRest(a, m) /\ m.di_nlink = a.di_nlink
       /\ \A b \in Addrs \ {L} : Counted(m, b) = Counted(a, b)
  <2>1. L \in a.dirtree
    BY <1>2, <1>15, <1>16 DEF SameTrees
  <2>2. QED
    BY <1>2, <1>8, <1>16, <2>1, IncrNumbers
<1>18. GoodNumbers(h, m)
  BY <1>14, <1>15, <1>16, <1>17 DEF GoodNumbers
<1>19. SameRest(links, m) /\ SameTrees(l, m) /\ links.outdated \subseteq m.outdated
  BY <1>3, <1>15, <1>16, <1>17 DEF SameRest, SameTrees
<1>20. ASSUME NEW b \in Addrs \ {i, L} PROVE Follows(fs, links, h, m, b)
  <2>1. Follows(fs, links, f, l, b) /\ Follows(f, l, g, sy, b)
    BY <1>3, <1>15
  <2>2. Follows(g, sy, h, m, b)
    BY <1>14, <1>16, <1>17, FollowsSame
  <2>3. QED
    BY <2>1, <2>2, FollowsTwice
<1>21. ASSUME NEW b \in Addrs \ {L}, b \notin links.dirtree PROVE h.nlink[b] = fs.nlink[b]
  <2>1. b # Root /\ b # o
    BY <1>2, <1>3, <1>4, <1>21, RootIsAddr
  <2>2. QED
    BY <1>3, <1>14, <1>15, <1>21, <2>1
<1>22. ASSUME dotdot_parent[i] # i, Noted(fs, links, i) PROVE Noted(h, m, i)
  <2>1. o # i /\ i # L
    BY <1>1, <1>22 DEF OldParent
  <2>2. Follows(fs, links, f, l, i) /\ Follows(f, l, g, sy, i)
    BY <1>3, <1>15, <2>1
  <2>3. Noted(g, sy, i)
    BY <1>22, <2>2 DEF Follows
  <2>4. QED
    BY <1>14, <1>16, <1>17, <2>3 DEF Noted
<1>23. L \in m.outdated \/ Noted(h, m, L) \/ (fs.mode[L] # "free" /\ ~Noted(fs, links, L))
  <2>1. Follows(f, l, g, sy, L)
    BY <1>1, <1>2, <1>15
  <2>2. Noted(g, sy, L) => Noted(h, m, L)
    BY <1>14, <1>16, <1>17 DEF Noted
  <2>3. QED
    BY <1>3, <1>19, <2>1, <2>2 DEF SameTrees, Follows
<1>24. fs.mode[i] # "file"
  OBVIOUS
<1>25. AddsNumbers(i, h, m, L)
  BY <1>18, <1>19, <1>20, <1>21, <1>22, <1>23, <1>24 DEF AddsNumbers
<1>26. QED
  BY <1>1, <1>25

LEMMA AddedNumbers ==
  ASSUME IInv, LfPossible, NEW tw, NEW O, NEW D, Whole(fs, links, tw, dotdot_parent, lf_dip, Pairs, O, D),
         GoodNumbers(fs, links), NEW i \in Addrs,
         i # Lf => /\ fs.mode[i] # "free"
                   /\ fs.mode[i] = "file" => i \in links.inodetree \/ i \notin links.clink1map
  PROVE  AddsNumbers(i, FsAdded(i), LinksAdded(i), Lf)
<1>1. CASE i = Lf
  <2>1. PICK L, f, l : L = Lf /\ f = FsWithLf /\ l = LinksWithLf
    OBVIOUS
  <2>2. f = FsAdded(i) /\ l = LinksAdded(i)
    BY <1>1, <2>1 DEF FsAdded, LinksAdded
  <2>3. /\ GoodNumbers(f, l) /\ SameRest(links, l) /\ links.outdated \subseteq l.outdated
        /\ \A b \in Addrs \ {L} :
              /\ Follows(fs, links, f, l, b)
              /\ b # Root => f.nlink[b] = fs.nlink[b]
        /\ L \in l.outdated \/ Noted(f, l, L) \/ (fs.mode[L] # "free" /\ ~Noted(fs, links, L))
    BY <2>1, LfNumbers
  <2>4. Root \in links.dirtree
    BY DEF Whole, Records
  <2>5. AddsNumbers(i, f, l, L)
    BY <1>1, <2>1, <2>3, <2>4 DEF AddsNumbers
  <2>6. QED
    BY <2>1, <2>2, <2>5
<1>2. CASE i # Lf /\ fs.mode[i] = "file"
  BY <1>2, FileNumbers
<1>3. CASE i # Lf /\ fs.mode[i] = "dir"
  BY <1>3, DirNumbers
<1>4. fs.mode[i] \in {"dir", "file", "free"}
  BY DEF Whole, GoodNames, Modes
<1>5. QED
  BY <1>1, <1>2, <1>3, <1>4

-----------------------------------------------------------------------------
(* What is put in lost+found leaves every "." where it is.                 *)
KeepsDots(f, g) == \A a \in Addrs : Dot \in DOMAIN f.ents[a] => Dot \in DOMAIN g.ents[a]

LEMMA EnteredDots ==
  ASSUME NEW f, NEW g, NEW d, NEW n, NEW i, Entered(f, g, d, n, i)
  PROVE  KeepsDots(f, g) /\ g.mode = f.mode
  BY DEF Entered, KeepsDots

LEMMA DotsTwice ==
  ASSUME NEW f, NEW g, NEW h, KeepsDots(f, g), KeepsDots(g, h)
  PROVE  KeepsDots(f, h)
  BY DEF KeepsDots

(* A lost+found that is made has its own.                                  *)
LEMMA WithLfDots ==
  ASSUME LfPossible, NEW tw, NEW dd, NEW O, NEW D, Whole(fs, links, tw, dd, lf_dip, Pairs, O, D)
  PROVE  KeepsDots(fs, FsWithLf) /\ (fs.mode[Lf] = "dir" \/ Dot \in DOMAIN FsWithLf.ents[Lf])
<1>1. PICK L, f : L = Lf /\ f = FsWithLf
  OBVIOUS
<1>2. CASE ~LfMissing
  <2>1. f = fs
    BY <1>1, <1>2 DEF FsWithLf
  <2>2. lf_dip # None => L = lf_dip /\ fs.mode[lf_dip] = "dir"
    BY <1>1 DEF Lf, Whole, LostAndFound
  <2>3. lf_dip = None => L = fs.ents[Root][LostFound].to /\ LostFound \in DOMAIN fs.ents[Root]
    BY <1>1, <1>2 DEF Lf, LfMissing
  <2>4. fs.mode[L] = "dir"
    BY <2>2, <2>3 DEF Whole, LostAndFound
  <2>5. QED
    BY <1>1, <2>1, <2>4 DEF KeepsDots
<1>3. CASE LfMissing
  <2>1. Made(fs, f, L) /\ GoodFs(fs)
    BY <1>1, <1>3, WithLfMade DEF Whole
  <2>2. Dot \in DOMAIN f.ents[L]
    BY <2>1 DEF Made, Dots
  <2>3. ASSUME NEW a \in Addrs, Dot \in DOMAIN fs.ents[a] PROVE Dot \in DOMAIN f.ents[a]
    <3>1. CASE a = L
      BY <2>2, <3>1
    <3>2. CASE a # L /\ a = Root
      BY <2>1, <2>3, <3>2 DEF Made
    <3>3. CASE a # L /\ a # Root
      BY <2>1, <2>3, <3>3 DEF Made
    <3>4. QED
      BY <3>1, <3>2, <3>3
  <2>4. QED
    BY <1>1, <2>2, <2>3 DEF KeepsDots
<1>4. QED
  BY <1>2, <1>3

LEMMA AddedDots ==
  ASSUME LfPossible, NEW tw, NEW O, NEW D, Whole(fs, links, tw, dotdot_parent, lf_dip, Pairs, O, D),
         NEW i \in Addrs, i # Lf => fs.mode[i] # "free"
  PROVE  /\ Lf \in Addrs /\ Lf # None /\ KeepsDots(fs, FsAdded(i))
         /\ \A b \in Addrs \ {Lf} : FsAdded(i).mode[b] = fs.mode[b]
         /\ FsAdded(i).mode[Lf] = "dir" /\ (fs.mode[Lf] = "dir" \/ Dot \in DOMAIN FsAdded(i).ents[Lf])
<1>1. PICK L, f, l, h : L = Lf /\ f = FsWithLf /\ l = LinksWithLf /\ h = FsAdded(i)
  OBVIOUS
<1>2. /\ L \in Addrs /\ Whole(f, l, tw, dotdot_parent, L, Pairs, O \ {L}, D) /\ L # None
      /\ \A a \in Addrs \ {L} : f.mode[a] = fs.mode[a]
  BY <1>1, WholeWithLf, RootIsAddr
<1>3. GoodFs(f) /\ f.mode[L] = "dir"
  BY <1>2 DEF Whole, LostAndFound
<1>4. KeepsDots(fs, f) /\ (fs.mode[L] = "dir" \/ Dot \in DOMAIN f.ents[L])
  BY <1>1, WithLfDots
<1>5. CASE i = L
  <2>1. h = f
    BY <1>1, <1>5 DEF FsAdded
  <2>2. QED
    BY <1>1, <1>2, <1>3, <1>4, <2>1
<1>6. CASE i # L
  <2>1. PICK fa : fa = With(f, L, LostName(i), i)
    OBVIOUS
  <2>2. Entered(f, fa, L, LostName(i), i) /\ GoodFs(fa)
    BY <1>2, <1>3, <2>1, WithEnters, WithGood
  <2>3. fa.mode = f.mode /\ KeepsDots(f, fa)
    BY <2>2, EnteredDots
  <2>4. h.mode = fa.mode /\ KeepsDots(fa, h)
    <3>1. CASE fs.mode[i] # "dir"
      <4>1. h = fa
        BY <1>1, <1>6, <2>1, <3>1 DEF FsAdded, FsAttached
      <4>2. QED
        BY <4>1 DEF KeepsDots
    <3>2. CASE fs.mode[i] = "dir"
      <4> DEFINE less == IF DotDotUndone(i) /\ OldParent(i) # i
                         THEN [fa EXCEPT !.nlink[OldParent(i)] = @ - 1] ELSE fa
      <4>1. PICK fl : fl = less
        OBVIOUS
      <4>2. fl.mode = fa.mode /\ fl.ents = fa.ents /\ fl.empty = fa.empty /\ GoodFs(fl)
        BY <2>2, <4>1 DEF GoodFs, FsFields
      <4>3. h = With(fl, i, DotDot, L)
        BY <1>1, <1>6, <2>1, <3>2, <4>1 DEF FsAdded, FsAttached
      <4> HIDE DEF less
      <4>4. Entered(fa, h, i, DotDot, L)
        BY <4>2, <4>3, WithEnters, EnteredSame
      <4>5. QED
        BY <4>4, EnteredDots
    <3>3. QED
      BY <3>1, <3>2
  <2>5. KeepsDots(fs, h) /\ KeepsDots(f, h)
    BY <1>4, <2>3, <2>4, DotsTwice
  <2>6. fs.mode[L] = "dir" \/ Dot \in DOMAIN h.ents[L]
    BY <1>2, <1>4, <2>5 DEF KeepsDots
  <2>7. QED
    BY <1>1, <1>2, <1>3, <2>3, <2>4, <2>5, <2>6
<1>7. QED
  BY <1>5, <1>6

-----------------------------------------------------------------------------
(* Nothing is decided in pass2 and pass3: what is asked of a dinode is     *)
(* that its count is noted.                                                *)
LEMMA EarlyNumbers ==
  ASSUME NEW f, NEW l, NEW dd, NEW lf, NEW add, NEW O, NEW D, NEW p \in {"pass2", "pass3"}, NEW a
  PROVE  NumbersOf(f, l, dd, lf, add, O, D, p, a) <=>
            /\ GoodNumbers(f, l) /\ Singles(f, l) /\ Dotted(f, D, p, a) /\ ~add
            /\ \A b \in Addrs : Minded(f, l, dd, O, D, b) => Noted(f, l, b)
<1>1. \A b : ~Visited(f, l, p, a, b)
  BY DEF Visited, OwnList, PassesAfter
<1>2. \A b : InStep(f, l, p, a, b) <=> Noted(f, l, b)
  BY <1>1 DEF InStep
<1>3. p \notin Lists
  BY DEF Lists
<1>4. QED
  BY <1>2, <1>3 DEF NumbersOf

(* A dentry of pass2.                                                      *)
LEMMA DentryNumbers == ASSUME LinksKept, NumbersKept, IInv, NEW n \in Names, Dentry(n) PROVE NumbersKept'
<1>1. PICK i, f2, l2, D : i = fs.ents[at][n].to /\ f2 = fs' /\ l2 = links' /\ D = declined'
  OBVIOUS
<1>2. /\ InPass2(n) /\ declined \subseteq D
      /\ NukesEntry(n) \/ LeavesEntry(n) \/ CountsEntry(n)
  BY <1>1, DentryOutcome
<1>3. /\ pc' = "pass2" /\ pc = "pass2" /\ at' = at /\ at \in Addrs /\ checked' = {}
      /\ Whole(fs, links, treewalk_parent, dotdot_parent, None, Visible, Addrs, declined)
      /\ i \in Addrs
  BY <1>1, <1>2, InPass2Facts
<1>4. Open' = Addrs /\ Open = Addrs
  BY <1>3 DEF Open, LinksKept, BeforePass3
<1>5. lf_addition' = lf_addition
  BY <1>2 DEF InPass2
<1>6. /\ GoodNumbers(fs, links) /\ Singles(fs, links) /\ Dotted(fs, declined, "pass2", at) /\ ~lf_addition
      /\ \A b \in Addrs : Minded(fs, links, dotdot_parent, Addrs, declined, b) => Noted(fs, links, b)
  BY <1>3, <1>4, EarlyNumbers DEF NumbersKept
<1>7. /\ GoodNumbers(f2, l2) /\ Singles(f2, l2) /\ Dotted(f2, D, "pass2", at)
      /\ \A b \in Addrs : Minded(f2, l2, dotdot_parent', Addrs, D, b) => Noted(f2, l2, b)
  <2>1. CASE NukesEntry(n)
    <3>1. l2 = links /\ f2 = Without(at, n) /\ GoodFs(fs)
      BY <1>1, <2>1 DEF NukesEntry, Nuke, IInv
    <3>2. Removed(fs, f2, at, n) /\ f2.mode = fs.mode
      BY <1>3, <3>1, WithoutRemoves DEF Removed
    <3>3. f2.nlink = fs.nlink
      BY <3>1 DEF Without, GoodFs, FsFields
    <3>4. Dotted(f2, D, "pass2", at)
      <4>1. ASSUME NEW d \in Addrs \ D, f2.mode[d] = "dir", Passed(at, d) PROVE Dot \in DOMAIN f2.ents[d]
        <5>1. Dot \in DOMAIN fs.ents[d]
          BY <1>2, <1>6, <3>2, <4>1 DEF Dotted
        <5>2. d # at
          <6>1. at \in Nat /\ at # None
            BY <1>3, DirLinksAssumption DEF Addrs, None
          <6>2. QED
            BY <4>1, <6>1 DEF Passed
        <5>3. QED
          BY <3>2, <5>1, <5>2 DEF Removed
      <4>2. QED
        BY <4>1 DEF Dotted
    <3>5. ASSUME NEW b \in Addrs, Minded(f2, l2, dotdot_parent', Addrs, D, b) PROVE Noted(f2, l2, b)
      <4>1. Minded(fs, links, dotdot_parent, Addrs, declined, b)
        BY <1>2, <3>1, <3>2, <3>5 DEF Minded
      <4>2. QED
        BY <1>6, <3>1, <3>3, <4>1 DEF Noted
    <3>6. QED
      BY <1>6, <3>1, <3>2, <3>3, <3>4, <3>5 DEF GoodNumbers, Singles
  <2>2. CASE LeavesEntry(n)
    <3>1. l2 = links /\ f2 = fs
      BY <1>1, <2>2 DEF LeavesEntry, Leave
    <3>2. Dotted(f2, D, "pass2", at)
      BY <1>2, <1>6, <3>1 DEF Dotted
    <3>3. ASSUME NEW b \in Addrs, Minded(f2, l2, dotdot_parent', Addrs, D, b) PROVE Noted(f2, l2, b)
      <4>1. Minded(fs, links, dotdot_parent, Addrs, declined, b)
        BY <1>2, <3>1, <3>3 DEF Minded
      <4>2. QED
        BY <1>6, <3>1, <4>1
    <3>4. QED
      BY <1>6, <3>1, <3>2, <3>3
  <2>3. CASE CountsEntry(n)
    <3>1. l2 = IncrLinkCount(links, i) /\ f2 = fs
      BY <1>1, <2>3 DEF CountsEntry, Count
    <3>2. GoodLinks(links) /\ GoodCounts(links) /\ Records(fs, links, treewalk_parent, None, Addrs)
      BY <1>3 DEF Whole
    <3>3. Dotted(f2, D, "pass2", at)
      BY <1>2, <1>6, <3>1 DEF Dotted
    <3>4. l2.nlink1map \subseteq links.nlink1map
      BY <1>3, <3>1, <3>2, IncrMaps
    <3>5. SameTrees(links, l2)
      BY <1>3, <3>1, <3>2, IncrCounts
    <3>6. /\ i \in links.dirtree \cup links.inodetree \/ i \notin links.clink1map => l2.di_nlink = links.di_nlink
          /\ DOMAIN l2.di_nlink = DOMAIN links.di_nlink
          /\ \A b : l2.di_nlink[b] = links.di_nlink[b] \/ (b = i /\ l2.di_nlink[b] = 1)
      BY <1>3, <3>1, <3>2, IncrDi
    <3>7. ASSUME NEW b \in Addrs, Minded(f2, l2, dotdot_parent', Addrs, D, b) PROVE Noted(f2, l2, b)
      <4>1. Minded(fs, links, dotdot_parent, Addrs, declined, b)
        BY <1>2, <3>1, <3>5, <3>7 DEF Minded, SameTrees
      <4>2. Noted(fs, links, b)
        BY <1>6, <4>1
      <4>3. CASE l2.di_nlink[b] = links.di_nlink[b]
        BY <3>1, <4>2, <4>3 DEF Noted
      <4>4. CASE l2.di_nlink[b] # links.di_nlink[b]
        <5>1. b = i /\ l2.di_nlink[b] = 1 /\ i \notin links.dirtree \cup links.inodetree
          BY <3>6, <4>4
        <5>2. fs.mode[b] \in {"dir", "file", "free"} /\ fs.mode[b] # "free"
          BY <1>3, <4>1 DEF Whole, GoodNames, Modes, Minded
        <5>3. fs.mode[b] = "file" /\ b \in links.nlink1map
          BY <3>2, <5>1, <5>2 DEF Records
        <5>4. fs.nlink[b] = 1
          BY <1>6, <5>3 DEF Singles
        <5>5. QED
          BY <3>1, <5>1, <5>4 DEF Noted
      <4>5. QED
        BY <4>3, <4>4
    <3>8. QED
      BY <1>6, <3>1, <3>3, <3>4, <3>6, <3>7 DEF GoodNumbers, Singles
  <2>4. QED
    BY <1>2, <2>1, <2>2, <2>3
<1>8. NumbersOf(f2, l2, dotdot_parent', lf_dip', lf_addition', Addrs, D, "pass2", at)
  BY <1>5, <1>6, <1>7, EarlyNumbers
<1>9. QED
  BY <1>1, <1>3, <1>4, <1>8, NumbersNext

(* The end of a directory: it has its "." now, or a no was said.           *)
LEMMA EndOfDirNumbers == ASSUME LinksKept, NumbersKept, IInv, EndOfDir PROVE NumbersKept'
<1>1. PICK f2, l2, D, a : f2 = fs' /\ l2 = links' /\ D = declined' /\ a = at'
  OBVIOUS
<1>2. /\ pc = "pass2" /\ pc' = "pass2" /\ at # None /\ a = NextOf(links.dirtree, at)
      /\ UNCHANGED <<dotdot_parent, checked, lf_dip, lf_addition>>
  BY <1>1 DEF EndOfDir, dirinfo
<1>3. at \in Addrs /\ GoodFs(fs) /\ GoodLinks(links) /\ at \in links.dirtree
  BY <1>2 DEF IInv, LinksKept, AtRecord
<1>4. Open' = Addrs /\ Open = Addrs
  BY <1>2 DEF Open, LinksKept, BeforePass3
<1>5. /\ GoodNumbers(fs, links) /\ Singles(fs, links) /\ Dotted(fs, declined, "pass2", at) /\ ~lf_addition
      /\ \A b \in Addrs : Minded(fs, links, dotdot_parent, Addrs, declined, b) => Noted(fs, links, b)
  BY <1>2, <1>4, EarlyNumbers DEF NumbersKept
<1>6. declined \subseteq D
  BY <1>1 DEF EndOfDir, Query, NoQuery
<1>7. \/ f2 = fs /\ l2 = links /\ (Dot \in DOMAIN fs.ents[at] \/ at \in D)
      \/ f2 = With(fs, at, Dot, at) /\ l2 = IncrLinkCount(links, at)
  BY <1>1 DEF EndOfDir, Query
<1>8. /\ f2.mode = fs.mode /\ f2.nlink = fs.nlink /\ KeepsDots(fs, f2)
      /\ Dot \in DOMAIN f2.ents[at] \/ at \in D
  <2>1. CASE f2 = fs /\ (Dot \in DOMAIN fs.ents[at] \/ at \in D)
    BY <2>1 DEF KeepsDots
  <2>2. CASE f2 = With(fs, at, Dot, at)
    <3>1. Entered(fs, f2, at, Dot, at)
      BY <1>3, <2>2, WithEnters
    <3>2. f2.mode = fs.mode /\ KeepsDots(fs, f2)
      BY <3>1, EnteredDots
    <3>3. f2.nlink = fs.nlink
      BY <1>3, <2>2 DEF With, GoodFs, FsFields
    <3>4. Dot \in DOMAIN f2.ents[at]
      BY <3>1 DEF Entered
    <3>5. QED
      BY <3>2, <3>3, <3>4
  <2>3. QED
    BY <1>7, <2>1, <2>2
<1>9. l2.outdated = links.outdated /\ l2.di_nlink = links.di_nlink /\ l2.nlink1map = links.nlink1map
  <2>1. CASE l2 = links
    BY <2>1
  <2>2. CASE l2 = IncrLinkCount(links, at)
    <3>1. GoodCounts(links)
      BY DEF LinksKept, Whole
    <3>2. SameTrees(links, l2) /\ SameRest(links, l2) /\ l2.di_nlink = links.di_nlink
      BY <1>3, <2>2, <3>1, IncrNumbers
    <3>3. QED
      BY <3>2 DEF SameTrees, SameRest
  <2>3. QED
    BY <1>7, <2>1, <2>2
<1>10. GoodNumbers(f2, l2) /\ Singles(f2, l2)
  BY <1>5, <1>8, <1>9 DEF GoodNumbers, Singles
<1>11. ASSUME NEW b \in Addrs, Minded(f2, l2, dotdot_parent', Addrs, D, b) PROVE Noted(f2, l2, b)
  <2>1. Minded(fs, links, dotdot_parent, Addrs, declined, b)
    BY <1>6, <1>8, <1>9, <1>11 DEF Minded
  <2>2. QED
    BY <1>5, <1>8, <1>9, <2>1 DEF Noted
<1>12. Dotted(f2, D, "pass2", a)
  <2>1. ASSUME NEW d \in Addrs \ D, f2.mode[d] = "dir", Passed(a, d) PROVE Dot \in DOMAIN f2.ents[d]
    <3>1. d \in links.dirtree
      BY <1>8, <2>1 DEF LinksKept, Whole, Records
    <3>2. \/ a = None /\ \A b \in links.dirtree : ~(b > at)
          \/ a \in Addrs /\ \A b \in links.dirtree : b > at => a <= b
      BY <1>2, <1>3, NextAfter DEF GoodLinks
    <3>3. d \in Nat /\ at \in Nat /\ (a \in Addrs => a \in Nat /\ a # None)
      BY <1>3, DirLinksAssumption, RootIsAddr DEF Addrs
    <3>4. d < at \/ d = at
      BY <2>1, <3>1, <3>2, <3>3 DEF Passed
    <3>5. CASE d = at
      BY <1>8, <2>1, <3>5
    <3>6. CASE d < at
      <4>1. Dot \in DOMAIN fs.ents[d]
        BY <1>5, <1>6, <1>8, <2>1, <3>6 DEF Dotted, Passed
      <4>2. QED
        BY <1>8, <4>1 DEF KeepsDots
    <3>7. QED
      BY <3>4, <3>5, <3>6
  <2>2. QED
    BY <2>1 DEF Dotted
<1>13. NumbersOf(f2, l2, dotdot_parent', lf_dip', lf_addition', Addrs, D, "pass2", a)
  BY <1>2, <1>5, <1>10, <1>11, <1>12, EarlyNumbers
<1>14. QED
  BY <1>1, <1>2, <1>4, <1>13, NumbersNext

-----------------------------------------------------------------------------
(* pass3                                                                   *)
AllDotted(f, D) == \A d \in Addrs \ D : f.mode[d] = "dir" => Dot \in DOMAIN f.ents[d]

(* What there is to show of lost+found is the same in pass3 and pass4.     *)
LEMMA AddedSingles ==
  ASSUME IInv, LfPossible, NEW tw, NEW O, NEW D, Whole(fs, links, tw, dotdot_parent, lf_dip, Pairs, O, D),
         Singles(fs, links), NEW i \in Addrs, i # Lf => fs.mode[i] # "free",
         AddsNumbers(i, FsAdded(i), LinksAdded(i), Lf)
  PROVE  Singles(FsAdded(i), LinksAdded(i))
<1>1. PICK L, f2, l2 : L = Lf /\ f2 = FsAdded(i) /\ l2 = LinksAdded(i)
  OBVIOUS
<1>2. \A b \in Addrs \ {L} : f2.mode[b] = fs.mode[b]
  BY <1>1, AddedDots
<1>3. f2.mode[L] = "dir"
  BY <1>1, AddedDots
<1>4. l2.nlink1map = links.nlink1map /\ \A b \in Addrs \ {L} : b \notin links.dirtree => f2.nlink[b] = fs.nlink[b]
  BY <1>1 DEF AddsNumbers, SameRest
<1>5. ASSUME NEW b \in Addrs, f2.mode[b] = "file", b \in l2.nlink1map PROVE f2.nlink[b] = 1
  <2>1. b # L /\ fs.mode[b] = "file"
    BY <1>2, <1>3, <1>5
  <2>2. b \notin links.dirtree
    BY <2>1 DEF Whole, Records
  <2>3. QED
    BY <1>4, <1>5, <2>1, <2>2 DEF Singles
<1>6. Singles(f2, l2)
  BY <1>5 DEF Singles
<1>7. QED
  BY <1>1, <1>6

LEMMA AddedAllDotted ==
  ASSUME LfPossible, NEW tw, NEW O, NEW D, Whole(fs, links, tw, dotdot_parent, lf_dip, Pairs, O, D),
         NEW i \in Addrs, i # Lf => fs.mode[i] # "free", NEW D2, D \subseteq D2, AllDotted(fs, D)
  PROVE  AllDotted(FsAdded(i), D2)
<1>1. PICK L, f2 : L = Lf /\ f2 = FsAdded(i)
  OBVIOUS
<1>2. KeepsDots(fs, f2) /\ \A b \in Addrs \ {L} : f2.mode[b] = fs.mode[b]
  BY <1>1, AddedDots
<1>3. fs.mode[L] = "dir" \/ Dot \in DOMAIN f2.ents[L]
  BY <1>1, AddedDots
<1>4. AllDotted(f2, D2)
  BY <1>2, <1>3 DEF AllDotted, KeepsDots
<1>5. QED
  BY <1>1, <1>4

LEMMA Pass3Numbers ==
  ASSUME InPass3, ~lf_addition, GoodNumbers(fs', links'), Singles(fs', links'), AllDotted(fs', declined'),
         \A b \in Addrs : Minded(fs', links', dotdot_parent', Addrs \ checked', declined', b) => Noted(fs', links', b)
  PROVE  NumbersKept'
<1>1. pc' = "pass3" /\ lf_addition' = lf_addition
  BY DEF InPass3
<1>2. PICK f2, l2, dd, D, O, a, lf : /\ f2 = fs' /\ l2 = links' /\ dd = dotdot_parent' /\ D = declined'
                                     /\ O = Addrs \ checked' /\ a = at' /\ lf = lf_dip'
  OBVIOUS
<1>3. Open' = O
  BY <1>1, <1>2 DEF Open
<1>4. Dotted(f2, D, "pass3", a)
  BY <1>2 DEF Dotted, AllDotted
<1>5. NumbersOf(f2, l2, dd, lf, lf_addition, O, D, "pass3", a)
  BY <1>2, <1>4, EarlyNumbers
<1>6. QED
  BY <1>1, <1>2, <1>3, <1>5, NumbersNext

LEMMA InPass3Numbers ==
  ASSUME NumbersKept, InPass3
  PROVE  /\ ~lf_addition /\ GoodNumbers(fs, links) /\ Singles(fs, links) /\ AllDotted(fs, declined)
         /\ \A b \in Addrs : Minded(fs, links, dotdot_parent, Addrs \ checked, declined, b) => Noted(fs, links, b)
<1>1. pc = "pass3" /\ Open = Addrs \ checked
  BY DEF InPass3, Open
<1>2. PICK O : O = Addrs \ checked
  OBVIOUS
<1>3. NumbersOf(fs, links, dotdot_parent, lf_dip, lf_addition, O, declined, "pass3", at)
  BY <1>1, <1>2 DEF NumbersKept
<1>4. /\ ~lf_addition /\ GoodNumbers(fs, links) /\ Singles(fs, links) /\ Dotted(fs, declined, "pass3", at)
      /\ \A b \in Addrs : Minded(fs, links, dotdot_parent, O, declined, b) => Noted(fs, links, b)
  BY <1>3, EarlyNumbers
<1>5. AllDotted(fs, declined)
  BY <1>4 DEF Dotted, AllDotted
<1>6. QED
  BY <1>2, <1>4, <1>5

(* Steps that only mark, or say no.                                        *)
LEMMA MarkNumbers ==
  ASSUME NumbersKept, InPass3, UNCHANGED <<fs, links, dotdot_parent>>,
         checked \subseteq checked', declined \subseteq declined'
  PROVE  NumbersKept'
<1>1. /\ ~lf_addition /\ GoodNumbers(fs, links) /\ Singles(fs, links) /\ AllDotted(fs, declined)
      /\ \A b \in Addrs : Minded(fs, links, dotdot_parent, Addrs \ checked, declined, b) => Noted(fs, links, b)
  BY InPass3Numbers
<1>2. PICK D, C : D = declined' /\ C = checked'
  OBVIOUS
<1>3. AllDotted(fs, D) /\ \A b \in Addrs : Minded(fs, links, dotdot_parent, Addrs \ C, D, b) => Noted(fs, links, b)
  BY <1>1, <1>2 DEF AllDotted, Minded
<1>4. QED
  BY <1>1, <1>2, <1>3, Pass3Numbers

LEMMA AttachDotDotNumbers == ASSUME LinksKept, NumbersKept, IInv, AttachDotDot PROVE NumbersKept'
<1>1. PICK d, i, old, O, l2, f3, l3, dd :
        /\ d = di /\ i = Treewalk /\ old = DotDotParent /\ O = Addrs \ checked
        /\ l2 = IF old # None THEN DecrLinkCount(links, old) ELSE links
        /\ f3 = fs' /\ l3 = links' /\ dd = dotdot_parent'
  OBVIOUS
<1>2. /\ InPass3 /\ UNCHANGED declined /\ i # None /\ d \notin checked \union {Root}
      /\ f3 = With(fs, d, DotDot, i) /\ l3 = IncrLinkCount(l2, i)
      /\ dd = [dotdot_parent EXCEPT ![d] = i] /\ checked' = checked \union {d}
  BY <1>1 DEF AttachDotDot, NoQuery, Mark, HasParent
<1>3. /\ d \in Addrs
      /\ Whole(fs, links, treewalk_parent, dotdot_parent, lf_dip, Pairs, O, declined)
      /\ GoodFs(fs)
  BY <1>1, <1>2, InPass3Facts
<1>4. i = treewalk_parent[d] /\ old = dotdot_parent[d]
  BY <1>1 DEF Treewalk, DotDotParent
<1>5. i \in Addrs /\ i \in links.dirtree
  BY <1>2, <1>3, <1>4, ReachedFromDir
<1>6. Entered(fs, f3, d, DotDot, i)
  BY <1>2, <1>3, WithEnters
<1>7. f3.mode = fs.mode /\ KeepsDots(fs, f3) /\ f3.nlink = fs.nlink
  <2>1. f3.nlink = fs.nlink
    BY <1>2, <1>3 DEF With, GoodFs, FsFields
  <2>2. QED
    BY <1>6, <2>1, EnteredDots
<1>8. GoodLinks(links) /\ GoodCounts(links) /\ DOMAIN dotdot_parent = Addrs /\ old \in links.dirtree \cup {None}
  BY <1>3, <1>4 DEF Whole, DotDots
<1>9. /\ GoodLinks(l2) /\ GoodCounts(l2) /\ SameTrees(links, l2) /\ SameRest(links, l2)
      /\ l2.di_nlink = links.di_nlink
  <2>1. CASE old = None
    BY <1>1, <1>8, <2>1 DEF SameTrees, SameRest
  <2>2. CASE old # None
    <3>1. l2 = DecrLinkCount(links, old) /\ old \in Addrs
      BY <1>1, <1>8, <2>2 DEF GoodLinks
    <3>2. l2.di_nlink = links.di_nlink
      BY <1>8, <3>1 DEF GoodLinks, LinkFields, DecrLinkCount
    <3>3. QED
      BY <1>8, <3>1, <3>2, DecrCounts DEF SameRest
  <2>3. QED
    BY <2>1, <2>2
<1>10. SameTrees(links, l3) /\ SameRest(links, l3) /\ l3.di_nlink = links.di_nlink
  <2>1. i \in l2.dirtree
    BY <1>5, <1>9 DEF SameTrees
  <2>2. SameTrees(l2, l3) /\ SameRest(l2, l3) /\ l3.di_nlink = l2.di_nlink
    BY <1>2, <1>5, <1>9, <2>1, IncrNumbers
  <2>3. QED
    BY <1>9, <2>2 DEF SameTrees, SameRest
<1>11. /\ ~lf_addition /\ GoodNumbers(fs, links) /\ Singles(fs, links) /\ AllDotted(fs, declined)
       /\ \A b \in Addrs : Minded(fs, links, dotdot_parent, O, declined, b) => Noted(fs, links, b)
  BY <1>1, <1>2, InPass3Numbers
<1>12. GoodNumbers(f3, l3) /\ Singles(f3, l3) /\ AllDotted(f3, declined)
  BY <1>7, <1>10, <1>11 DEF GoodNumbers, Singles, SameRest, AllDotted, KeepsDots
<1>13. ASSUME NEW b \in Addrs, Minded(f3, l3, dd, Addrs \ (checked \cup {d}), declined, b) PROVE Noted(f3, l3, b)
  <2>1. dd[b] = dotdot_parent[b] \/ b \in O
    BY <1>1, <1>2, <1>8
  <2>2. Minded(fs, links, dotdot_parent, O, declined, b)
    BY <1>1, <1>7, <1>10, <1>13, <2>1 DEF Minded, SameTrees
  <2>3. QED
    BY <1>7, <1>10, <1>11, <2>2 DEF Noted
<1>14. QED
  BY <1>1, <1>2, <1>11, <1>12, <1>13, Pass3Numbers

LEMMA RemoveUnlinkedNumbers == ASSUME LinksKept, NumbersKept, IInv, RemoveUnlinked PROVE NumbersKept'
<1>1. PICK d, f2, C : d = di /\ f2 = fs' /\ C = checked'
  OBVIOUS
<1>2. /\ InPass3 /\ UNCHANGED <<links, dotdot_parent, declined>>
      /\ f2 = [fs EXCEPT !.mode[d] = "free"] /\ C = checked \union {d}
  BY <1>1 DEF RemoveUnlinked, NoQuery, Mark
<1>3. GoodFs(fs) /\ fs.mode \in [Addrs -> Modes]
  BY DEF IInv, LinksKept, Whole, GoodNames
<1>4. f2.mode = [fs.mode EXCEPT ![d] = "free"] /\ f2.nlink = fs.nlink /\ f2.ents = fs.ents
  BY <1>2, <1>3 DEF GoodFs, FsFields
<1>5. \A b \in Addrs : f2.mode[b] # "free" => f2.mode[b] = fs.mode[b]
  BY <1>3, <1>4
<1>6. /\ ~lf_addition /\ GoodNumbers(fs, links) /\ Singles(fs, links) /\ AllDotted(fs, declined)
      /\ \A b \in Addrs : Minded(fs, links, dotdot_parent, Addrs \ checked, declined, b) => Noted(fs, links, b)
  BY <1>2, InPass3Numbers
<1>7. GoodNumbers(f2, links) /\ Singles(f2, links) /\ AllDotted(f2, declined)
  BY <1>4, <1>5, <1>6 DEF GoodNumbers, Singles, AllDotted
<1>8. ASSUME NEW b \in Addrs, Minded(f2, links, dotdot_parent, Addrs \ C, declined, b) PROVE Noted(f2, links, b)
  <2>1. Minded(fs, links, dotdot_parent, Addrs \ checked, declined, b)
    BY <1>2, <1>5, <1>8 DEF Minded
  <2>2. QED
    BY <1>4, <1>6, <2>1 DEF Noted
<1>9. QED
  BY <1>1, <1>2, <1>6, <1>7, <1>8, Pass3Numbers

(* A directory put in lost+found is still minded if it was not its parent. *)
LEMMA AttachUnlinkedNumbers == ASSUME LinksKept, NumbersKept, IInv, AttachUnlinked PROVE NumbersKept'
<1>1. PICK d, O, D : d = di /\ O = Addrs \ checked /\ D = declined'
  OBVIOUS
<1>2. /\ InPass3 /\ UNCHANGED dotdot_parent /\ d \notin checked \union {Root} /\ ~HasParent
      /\ \/ /\ LfPossible /\ fs' = FsAdded(d) /\ links' = LinksAdded(d) /\ lf_dip' = Lf
            /\ checked' = checked \union {d, Lf}
         \/ checked' = checked \union {d} /\ UNCHANGED <<fs, links, lf_dip>>
  BY <1>1 DEF AttachUnlinked, Mark
<1>3. declined \subseteq D
  BY <1>1 DEF AttachUnlinked, Query
<1>4. /\ d \in Addrs /\ Whole(fs, links, treewalk_parent, dotdot_parent, lf_dip, Pairs, O, declined)
  BY <1>1, <1>2, InPass3Facts
<1>5. fs.mode[d] = "dir" /\ d \in O
  BY <1>1, <1>2, <1>4, UnlinkedIsBare
<1>6. CASE checked' = checked \union {d} /\ UNCHANGED <<fs, links, lf_dip>>
  BY <1>1, <1>2, <1>3, <1>6, MarkNumbers
<1>7. CASE /\ LfPossible /\ fs' = FsAdded(d) /\ links' = LinksAdded(d) /\ lf_dip' = Lf
           /\ checked' = checked \union {d, Lf}
  <2>1. PICK L, f2, l2, C : L = Lf /\ f2 = fs' /\ l2 = links' /\ C = checked'
    OBVIOUS
  <2>2. /\ ~lf_addition /\ GoodNumbers(fs, links) /\ Singles(fs, links) /\ AllDotted(fs, declined)
        /\ \A b \in Addrs : Minded(fs, links, dotdot_parent, O, declined, b) => Noted(fs, links, b)
    BY <1>1, <1>2, InPass3Numbers
  <2>3. AddsNumbers(d, FsAdded(d), LinksAdded(d), Lf)
    BY <1>4, <1>5, <1>7, <2>2, AddedNumbers
  <2>4. AddsNumbers(d, f2, l2, L)
    BY <1>7, <2>1, <2>3
  <2>5. Singles(f2, l2)
    <3>1. Singles(FsAdded(d), LinksAdded(d))
      BY <1>4, <1>5, <1>7, <2>2, <2>3, AddedSingles
    <3>2. QED
      BY <1>7, <2>1, <3>1
  <2>6. AllDotted(f2, D)
    <3>1. AllDotted(FsAdded(d), D)
      BY <1>3, <1>4, <1>5, <1>7, <2>2, AddedAllDotted
    <3>2. QED
      BY <1>7, <2>1, <3>1
  <2>7. \A b \in Addrs \ {L} : f2.mode[b] = fs.mode[b]
    BY <1>4, <1>5, <1>7, <2>1, AddedDots
  <2>8. ASSUME NEW b \in Addrs, Minded(f2, l2, dotdot_parent, Addrs \ C, D, b) PROVE Noted(f2, l2, b)
    <3>1. /\ b \notin declined /\ b \notin links.outdated /\ b \notin l2.outdated
          /\ b \in {d, L} => dotdot_parent[b] # b
      BY <1>3, <1>7, <2>1, <2>4, <2>8 DEF Minded, AddsNumbers
    <3>2. dotdot_parent[b] # b \/ b \in O
      BY <1>1, <1>7, <2>1, <2>8 DEF Minded
    <3>3. fs.mode[b] # "free" => Noted(fs, links, b)
      BY <2>2, <3>1, <3>2 DEF Minded
    <3>4. CASE b = L
      BY <2>4, <3>1, <3>3, <3>4 DEF AddsNumbers
    <3>5. CASE b # L
      <4>1. Noted(fs, links, b)
        BY <2>7, <2>8, <3>3, <3>5 DEF Minded
      <4>2. CASE b = d
        BY <1>5, <2>4, <3>1, <3>5, <4>1, <4>2 DEF AddsNumbers
      <4>3. CASE b # d
        BY <2>4, <3>5, <4>1, <4>3 DEF AddsNumbers, Follows
      <4>4. QED
        BY <4>2, <4>3
    <3>6. QED
      BY <3>4, <3>5
  <2>9. GoodNumbers(f2, l2)
    BY <2>4 DEF AddsNumbers
  <2>10. QED
    BY <1>1, <1>2, <2>1, <2>2, <2>5, <2>6, <2>8, <2>9, Pass3Numbers
<1>8. QED
  BY <1>2, <1>6, <1>7

LEMMA Pass3StepsNumbers == ASSUME LinksKept, NumbersKept, IInv, Pass3 PROVE NumbersKept'
<1>1. CASE Connected3
  BY <1>1, MarkNumbers DEF Connected3, NoQuery
<1>2. CASE ParentsAgree3
  BY <1>2, MarkNumbers DEF ParentsAgree3, Mark, NoQuery
<1>3. CASE AttachDotDot
  BY <1>3, AttachDotDotNumbers
<1>4. CASE RemoveUnlinked
  BY <1>4, RemoveUnlinkedNumbers
<1>5. CASE AttachUnlinked
  BY <1>5, AttachUnlinkedNumbers
<1>6. QED
  BY <1>1, <1>2, <1>3, <1>4, <1>5 DEF Pass3

-----------------------------------------------------------------------------
(* pass4: nothing but the dinode at hand is passed in a step.              *)
LEMMA ListsOrder ==
  /\ \A p \in Lists : p \notin PassesAfter(p) /\ p \notin {"pass2", "pass3"} /\ p # "done"
  /\ \A f, l, b : OwnList(f, l, b) \in Lists
  BY DEF Lists, PassesAfter, OwnList

LEMMA InOwnList ==
  ASSUME NEW tw, NEW lf, NEW O, Records(fs, links, tw, lf, O), NEW b \in Addrs, fs.mode[b] \in Modes, fs.mode[b] # "free"
  PROVE  b \in ListOf(OwnList(fs, links, b))
<1>1. CASE fs.mode[b] = "dir"
  BY <1>1 DEF OwnList, ListOf, Records
<1>2. CASE fs.mode[b] = "file"
  BY <1>2 DEF OwnList, ListOf, Records
<1>3. QED
  BY <1>1, <1>2 DEF Modes

LEMMA PassedNext ==
  ASSUME NEW tree, tree \subseteq Addrs, NEW a \in Addrs, NEW b \in tree, b # a, Passed(NextOf(tree, a), b)
  PROVE  Passed(a, b)
<1>1. PICK a2 : a2 = NextOf(tree, a)
  OBVIOUS
<1>2. \/ a2 = None /\ \A c \in tree : ~(c > a)
      \/ a2 \in Addrs /\ \A c \in tree : c > a => a2 <= c
  BY <1>1, NextAfter
<1>3. b \in Nat /\ a \in Nat /\ (a2 \in Addrs => a2 \in Nat /\ a2 # None)
  BY DirLinksAssumption, RootIsAddr DEF Addrs
<1>4. a2 = None \/ b < a2
  BY <1>1 DEF Passed
<1>5. b < a
  BY <1>2, <1>3, <1>4
<1>6. QED
  BY <1>5 DEF Passed

LEMMA VisitedNext ==
  ASSUME LinksKept, IInv, InPass4At, NEW b \in Addrs, b # at, fs.mode[b] # "free",
         NEW a, a = at', Visited(fs, links, pc, a, b)
  PROVE  Visited(fs, links, pc, at, b)
<1>1. /\ pc \in Lists /\ at \in Addrs /\ GoodLinks(links)
      /\ Whole(fs, links, treewalk_parent, dotdot_parent, lf_dip, Pairs, {}, declined)
  BY InPass4Facts DEF Lists
<1>2. a = NextOf(ListOf(pc), at)
  BY DEF InPass4At
<1>3. CASE OwnList(fs, links, b) # pc
  BY <1>3 DEF Visited
<1>4. CASE OwnList(fs, links, b) = pc
  <2>1. fs.mode[b] \in Modes
    BY <1>1 DEF Whole, GoodNames
  <2>2. b \in ListOf(pc)
    BY <1>1, <1>4, <2>1, InOwnList DEF Whole
  <2>3. ListOf(pc) \subseteq Addrs
    BY <1>1 DEF ListOf, GoodLinks, Lists
  <2>4. Passed(a, b)
    BY <1>1, <1>4, ListsOrder DEF Visited
  <2>5. Passed(at, b)
    BY <1>1, <1>2, <2>2, <2>3, <2>4, PassedNext
  <2>6. QED
    BY <1>4, <2>5 DEF Visited
<1>5. QED
  BY <1>3, <1>4

(* What is not at hand stays in step when its numbers follow.              *)
LEMMA OthersInStep ==
  ASSUME LinksKept, IInv, InPass4At, NEW b \in Addrs, b # at, fs.mode[b] # "free",
         InStep(fs, links, pc, at, b), NEW f2, NEW l2, Follows(fs, links, f2, l2, b),
         f2.mode[b] = fs.mode[b], l2.inodetree = links.inodetree,
         fs.mode[b] = "file" => f2.nlink[b] = fs.nlink[b], NEW a, a = at'
  PROVE  InStep(f2, l2, pc, a, b)
<1>1. pc \in Lists
  BY InPass4Facts DEF Lists
<1>2. OwnList(f2, l2, b) = OwnList(fs, links, b)
  BY DEF OwnList
<1>3. Visited(f2, l2, pc, a, b) => Visited(fs, links, pc, at, b)
  <2>1. Visited(f2, l2, pc, a, b) <=> Visited(fs, links, pc, a, b)
    BY <1>2 DEF Visited
  <2>2. QED
    BY <2>1, VisitedNext
<1>4. CASE Visited(fs, links, pc, at, b)
  BY <1>1, <1>4, ListsOrder DEF InStep, Follows
<1>5. CASE ~Visited(fs, links, pc, at, b)
  BY <1>1, <1>3, <1>5, ListsOrder DEF InStep, Follows
<1>6. QED
  BY <1>4, <1>5

LEMMA InPass4Numbers ==
  ASSUME LinksKept, NumbersKept, IInv, InPass4At
  PROVE  /\ GoodNumbers(fs, links) /\ Singles(fs, links) /\ AllDotted(fs, declined)
         /\ lf_addition => lf_dip # None
         /\ \A b \in Addrs : Minded(fs, links, dotdot_parent, {}, declined, b) =>
               InStep(fs, links, pc, at, b) \/ (b = lf_dip /\ lf_addition)
<1>1. pc \notin {"pass2", "pass3"}
  BY InPass4Facts
<1>2. Open = {}
  BY <1>1 DEF Open
<1>3. NumbersOf(fs, links, dotdot_parent, lf_dip, lf_addition, {}, declined, pc, at)
  BY <1>2 DEF NumbersKept
<1>4. QED
  BY <1>1, <1>3 DEF NumbersOf, Dotted, AllDotted

LEMMA Pass4Numbers ==
  ASSUME LinksKept, IInv, InPass4At,
         GoodNumbers(fs', links'), Singles(fs', links'), AllDotted(fs', declined'),
         lf_addition' => lf_dip' # None,
         \A b \in Addrs : Minded(fs', links', dotdot_parent, {}, declined', b) =>
            InStep(fs', links', pc, at', b) \/ (b = lf_dip' /\ lf_addition')
  PROVE  NumbersKept'
<1>1. pc \in Lists /\ pc' = pc /\ dotdot_parent' = dotdot_parent
  BY InPass4Facts DEF Lists
<1>2. PICK f2, l2, D, a, lf, add : /\ f2 = fs' /\ l2 = links' /\ D = declined' /\ a = at' /\ lf = lf_dip'
                                   /\ add = lf_addition'
  OBVIOUS
<1>3. Open' = {}
  BY <1>1, ListsOrder DEF Open
<1>4. Dotted(f2, D, pc, a)
  BY <1>2 DEF Dotted, AllDotted
<1>5. NumbersOf(f2, l2, dotdot_parent, lf, add, {}, D, pc, a)
  BY <1>1, <1>2, <1>4 DEF NumbersOf
<1>6. QED
  BY <1>1, <1>2, <1>3, <1>5, NumbersNext

(* Only the dinode at hand may have changed.                               *)
LEMMA OnlyHereNumbers ==
  ASSUME LinksKept, NumbersKept, IInv, InPass4At, UNCHANGED <<lf_dip, lf_addition>>,
         GoodNumbers(fs', links'), Singles(fs', links'), AllDotted(fs', declined'), declined \subseteq declined',
         links'.inodetree = links.inodetree, links'.outdated = links.outdated,
         \A b \in Addrs \ {at} : /\ fs'.mode[b] = fs.mode[b] /\ fs'.nlink[b] = fs.nlink[b]
                                 /\ Follows(fs, links, fs', links', b),
         Minded(fs', links', dotdot_parent, {}, declined', at) =>
            InStep(fs', links', pc, at', at) \/ (at = lf_dip /\ lf_addition)
  PROVE  NumbersKept'
<1>1. PICK f2, l2, D, a : f2 = fs' /\ l2 = links' /\ D = declined' /\ a = at'
  OBVIOUS
<1>2. /\ lf_addition => lf_dip # None
      /\ \A b \in Addrs : Minded(fs, links, dotdot_parent, {}, declined, b) =>
            InStep(fs, links, pc, at, b) \/ (b = lf_dip /\ lf_addition)
  BY InPass4Numbers
<1>3. ASSUME NEW b \in Addrs, Minded(f2, l2, dotdot_parent, {}, D, b)
      PROVE  InStep(f2, l2, pc, a, b) \/ (b = lf_dip /\ lf_addition)
  <2>1. CASE b = at
    BY <1>1, <1>3, <2>1
  <2>2. CASE b # at
    <3>1. /\ f2.mode[b] = fs.mode[b] /\ f2.nlink[b] = fs.nlink[b] /\ Follows(fs, links, f2, l2, b)
          /\ l2.inodetree = links.inodetree /\ l2.outdated = links.outdated
      BY <1>1, <2>2
    <3>2. Minded(fs, links, dotdot_parent, {}, declined, b)
      BY <1>1, <1>3, <3>1 DEF Minded
    <3>3. CASE InStep(fs, links, pc, at, b)
      <4>1. fs.mode[b] # "free"
        BY <3>2 DEF Minded
      <4>2. QED
        BY <1>1, <2>2, <3>1, <3>3, <4>1, OthersInStep
    <3>4. QED
      BY <1>2, <3>2, <3>3
  <2>3. QED
    BY <2>1, <2>2
<1>4. QED
  BY <1>1, <1>2, <1>3, Pass4Numbers

(* A dinode whose count pass4 finds right has it.                          *)
LEMMA RightIsEven ==
  ASSUME LinksKept, NumbersKept, IInv, LinkCountRight,
         fs.mode[at] # "free", InStep(fs, links, pc, at, at), NEW a, a = at'
  PROVE  InStep(fs, links, pc, a, at)
<1>1. InPass4At /\ ~IsUnlinked /\ (pc # "pass4_nlink1" => links.di_nlink[at] = links.counted_links[at])
  BY DEF LinkCountRight
<1>2. /\ pc \in Lists /\ at \in Addrs /\ at \in ListOf(pc)
      /\ Whole(fs, links, treewalk_parent, dotdot_parent, lf_dip, Pairs, {}, declined)
  BY <1>1, InPass4Facts DEF Lists
<1>3. GoodNumbers(fs, links) /\ Singles(fs, links)
  BY <1>1, InPass4Numbers
<1>4. CASE OwnList(fs, links, at) # pc
  BY <1>4 DEF InStep, Visited
<1>5. CASE OwnList(fs, links, at) = pc
  <2>1. ~Passed(at, at)
    <3>1. at \in Nat /\ at # None
      BY <1>2, DirLinksAssumption, RootIsAddr DEF Addrs
    <3>2. QED
      BY <3>1 DEF Passed
  <2>2. ~Visited(fs, links, pc, at, at)
    BY <1>2, <1>5, <2>1, ListsOrder DEF Visited
  <2>3. Noted(fs, links, at) \/ Even(fs, links, at)
    BY <2>2 DEF InStep
  <2>4. Even(fs, links, at) /\ fs.nlink[at] > 0
    <3>1. CASE pc = "pass4_nlink1"
      <4>1. at \in links.nlink1map /\ at \in links.clink1map
        BY <1>1, <1>2, <3>1 DEF ListOf, IsUnlinked
      <4>2. fs.mode[at] = "file"
        <5>1. fs.mode[at] \in {"dir", "file", "free"}
          BY <1>2 DEF Whole, GoodNames, Modes
        <5>2. fs.mode[at] # "dir"
          BY <1>5, <3>1 DEF OwnList
        <5>3. QED
          BY <5>1, <5>2
      <4>3. at \notin links.dirtree /\ at \notin links.inodetree
        BY <1>2, <4>1, <4>2 DEF Whole, Records, GoodCounts
      <4>4. Counted(links, at) = 1 /\ fs.nlink[at] = 1
        BY <1>2, <1>3, <4>1, <4>2, <4>3 DEF Counted, Singles
      <4>5. QED
        BY <4>4 DEF Even
    <3>2. CASE pc # "pass4_nlink1"
      <4>1. at \in links.dirtree \cup links.inodetree
        BY <1>2, <3>2 DEF ListOf, Lists
      <4>2. /\ Counted(links, at) = links.counted_links[at] /\ links.counted_links[at] # 0
            /\ links.di_nlink[at] = links.counted_links[at]
        BY <1>1, <3>2, <4>1 DEF Counted, IsUnlinked
      <4>3. links.counted_links[at] \in Nat
        BY <1>2 DEF Whole, GoodCounts
      <4>4. fs.nlink[at] = links.counted_links[at]
        BY <2>3, <4>2 DEF Noted, Even
      <4>5. QED
        BY <4>2, <4>3, <4>4 DEF Even
    <3>3. QED
      BY <3>1, <3>2
  <2>5. QED
    BY <1>2, <2>4, ListsOrder DEF InStep
<1>6. QED
  BY <1>4, <1>5

LEMMA LinkCountRightNumbers ==
  ASSUME LinksKept, NumbersKept, IInv, LinkCountRight \/ UnlinkedIsFree PROVE NumbersKept'
<1>1. /\ InPass4At /\ UNCHANGED <<fs, links, lf_dip, lf_addition, declined>>
      /\ LinkCountRight \/ fs.mode[at] = "free"
  BY DEF LinkCountRight, UnlinkedIsFree, NoQuery, InUse
<1>2. PICK a : a = at'
  OBVIOUS
<1>3. /\ GoodNumbers(fs, links) /\ Singles(fs, links) /\ AllDotted(fs, declined) /\ at \in Addrs
      /\ \A b \in Addrs : Minded(fs, links, dotdot_parent, {}, declined, b) =>
            InStep(fs, links, pc, at, b) \/ (b = lf_dip /\ lf_addition)
  BY <1>1, InPass4Numbers, InPass4Facts
<1>4. Minded(fs, links, dotdot_parent, {}, declined, at) => InStep(fs, links, pc, a, at) \/ (at = lf_dip /\ lf_addition)
  <2>1. SUFFICES ASSUME Minded(fs, links, dotdot_parent, {}, declined, at), ~(at = lf_dip /\ lf_addition)
                 PROVE  InStep(fs, links, pc, a, at)
    OBVIOUS
  <2>2. fs.mode[at] # "free" /\ InStep(fs, links, pc, at, at)
    BY <1>3, <2>1 DEF Minded
  <2>3. QED
    BY <1>1, <1>2, <2>2, RightIsEven
<1>5. \A b \in Addrs : Follows(fs, links, fs, links, b)
  BY FollowsSame
<1>6. QED
  BY <1>1, <1>2, <1>3, <1>4, <1>5, OnlyHereNumbers

LEMMA HandleInconsistNumbers ==
  ASSUME LinksKept, NumbersKept, IInv, HandleInconsist PROVE NumbersKept'
<1>1. PICK f2, l2, D, a, k : /\ f2 = fs' /\ l2 = links' /\ D = declined' /\ a = at'
                             /\ k = links.counted_links[at]
  OBVIOUS
<1>2. /\ InPass4At /\ UNCHANGED <<lf_dip, lf_addition>> /\ ~IsUnlinked /\ pc # "pass4_nlink1"
      /\ declined \subseteq D
      /\ \/ f2 = [fs EXCEPT !.nlink[at] = k] /\ l2 = [links EXCEPT !.di_nlink[at] = k]
         \/ f2 = fs /\ l2 = links /\ at \in D
  BY <1>1 DEF HandleInconsist, Query
<1>3. /\ pc \in Lists /\ at \in Addrs /\ at \in ListOf(pc) /\ GoodLinks(links) /\ GoodFs(fs)
      /\ Whole(fs, links, treewalk_parent, dotdot_parent, lf_dip, Pairs, {}, declined)
  BY <1>2, InPass4Facts DEF Lists
<1>4. GoodNumbers(fs, links) /\ Singles(fs, links) /\ AllDotted(fs, declined)
  BY <1>2, InPass4Numbers
<1>5. AllDotted(fs, D)
  BY <1>2, <1>4 DEF AllDotted
<1>6. CASE f2 = fs /\ l2 = links /\ at \in D
  <2>1. ~Minded(f2, l2, dotdot_parent, {}, D, at)
    BY <1>6 DEF Minded
  <2>2. \A b \in Addrs : Follows(fs, links, f2, l2, b)
    BY <1>6, FollowsSame
  <2>3. QED
    BY <1>1, <1>2, <1>4, <1>5, <1>6, <2>1, <2>2, OnlyHereNumbers
<1>7. CASE f2 = [fs EXCEPT !.nlink[at] = k] /\ l2 = [links EXCEPT !.di_nlink[at] = k]
  <2>1. k \in Nat /\ k # 0 /\ at \in links.dirtree \cup links.inodetree
    <3>1. at \in links.dirtree \cup links.inodetree
      BY <1>2, <1>3 DEF ListOf, Lists
    <3>2. k \in Nat /\ k # 0
      BY <1>1, <1>2, <1>3 DEF Whole, GoodCounts, IsUnlinked
    <3>3. QED
      BY <3>1, <3>2
  <2>2. f2.mode = fs.mode /\ f2.ents = fs.ents /\ f2.nlink = [fs.nlink EXCEPT ![at] = k]
    BY <1>3, <1>7 DEF GoodFs, FsFields
  <2>3. /\ l2.inodetree = links.inodetree /\ l2.outdated = links.outdated /\ l2.nlink1map = links.nlink1map
        /\ l2.di_nlink = [links.di_nlink EXCEPT ![at] = k] /\ \A b : Counted(l2, b) = Counted(links, b)
    BY <1>3, <1>7 DEF GoodLinks, LinkFields, Counted
  <2>4. /\ f2.nlink \in [Addrs -> Nat] /\ f2.nlink[at] = k /\ \A b \in Addrs \ {at} : f2.nlink[b] = fs.nlink[b]
    BY <1>3, <1>4, <2>1, <2>2 DEF GoodNumbers
  <2>5. DOMAIN l2.di_nlink = Addrs /\ \A b \in Addrs \ {at} : l2.di_nlink[b] = links.di_nlink[b]
    BY <1>4, <2>3 DEF GoodNumbers
  <2>6. GoodNumbers(f2, l2) /\ AllDotted(f2, D)
    BY <1>5, <2>2, <2>4, <2>5 DEF GoodNumbers, AllDotted
  <2>7. Singles(f2, l2)
    <3>1. ASSUME NEW b \in Addrs, f2.mode[b] = "file", b \in l2.nlink1map PROVE f2.nlink[b] = 1
      <4>1. fs.mode[b] = "file" /\ b \in links.nlink1map
        BY <2>2, <2>3, <3>1
      <4>2. b \notin links.dirtree /\ b \notin links.inodetree
        BY <1>3, <4>1 DEF Whole, Records, GoodCounts
      <4>3. b # at
        BY <2>1, <4>2
      <4>4. QED
        BY <1>4, <2>4, <4>1, <4>3 DEF Singles
    <3>2. QED
      BY <3>1 DEF Singles
  <2>8. \A b \in Addrs \ {at} : Follows(fs, links, f2, l2, b)
    BY <2>3, <2>4, <2>5, FollowsSame
  <2>9. InStep(f2, l2, pc, a, at)
    <3>1. Counted(links, at) = k
      BY <1>1, <2>1 DEF Counted
    <3>2. Even(f2, l2, at) /\ f2.nlink[at] > 0
      BY <2>1, <2>3, <2>4, <3>1 DEF Even
    <3>3. QED
      BY <1>3, <3>2, ListsOrder DEF InStep
  <2>10. QED
    BY <1>1, <1>2, <2>2, <2>3, <2>4, <2>6, <2>7, <2>8, <2>9, OnlyHereNumbers
<1>8. QED
  BY <1>2, <1>6, <1>7

LEMMA ClearUnlinkedNumbers ==
  ASSUME LinksKept, NumbersKept, IInv, ClearUnlinked PROVE NumbersKept'
<1>1. PICK f2, d : f2 = fs' /\ d = at
  OBVIOUS
<1>2. /\ InPass4At /\ UNCHANGED <<links, lf_dip, lf_addition, declined>> /\ f2 = [fs EXCEPT !.mode[d] = "free"]
  BY <1>1 DEF ClearUnlinked, NoQuery
<1>3. GoodFs(fs) /\ fs.mode \in [Addrs -> Modes] /\ d \in Addrs
  BY <1>1, <1>2, InPass4Facts DEF Whole, GoodNames
<1>4. f2.mode = [fs.mode EXCEPT ![d] = "free"] /\ f2.nlink = fs.nlink /\ f2.ents = fs.ents
  BY <1>2, <1>3 DEF GoodFs, FsFields
<1>5. f2.mode[d] = "free" /\ \A b \in Addrs \ {d} : f2.mode[b] = fs.mode[b]
  BY <1>3, <1>4
<1>6. GoodNumbers(fs, links) /\ Singles(fs, links) /\ AllDotted(fs, declined)
  BY <1>2, InPass4Numbers
<1>7. GoodNumbers(f2, links) /\ Singles(f2, links) /\ AllDotted(f2, declined)
  BY <1>4, <1>5, <1>6 DEF GoodNumbers, Singles, AllDotted
<1>8. \A b \in Addrs : Follows(fs, links, f2, links, b)
  BY <1>4, FollowsSame
<1>9. ~Minded(f2, links, dotdot_parent, {}, declined, d)
  BY <1>5 DEF Minded
<1>10. QED
  BY <1>1, <1>2, <1>4, <1>5, <1>7, <1>8, <1>9, OnlyHereNumbers

(* What is put in lost+found in pass4 is a file, and has the links that    *)
(* are counted: nothing links to a directory there that has its ".".       *)
LEMMA RelinkedIsEven ==
  ASSUME LinksKept, NumbersKept, IInv, InPass4At, IsUnlinked, InUse(at), LfPossible, at # Lf,
         AddsNumbers(at, FsAdded(at), LinksAdded(at), Lf), at \notin declined
  PROVE  /\ fs.mode[at] = "file" /\ pc # "pass4_dirs"
         /\ CountOf(LinksAdded(at)) = Counted(LinksAdded(at), at)
         /\ Counted(LinksAdded(at), at) = Counted(links, at) + 1
<1>1. PICK L, l2 : L = Lf /\ l2 = LinksAdded(at)
  OBVIOUS
<1>2. /\ pc \in Lists /\ at \in Addrs /\ at \in ListOf(pc) /\ GoodFs(fs)
      /\ Whole(fs, links, treewalk_parent, dotdot_parent, lf_dip, Pairs, {}, declined)
  BY InPass4Facts DEF Lists
<1>3. at # lf_dip
  BY <1>2, RootIsAddr DEF Lf
<1>4. AllDotted(fs, declined)
  BY InPass4Numbers
<1>5. fs.mode[at] = "file"
  <2>1. SUFFICES ASSUME fs.mode[at] = "dir", Linking(fs, Pairs, at) = {} PROVE FALSE
    BY <1>3, UnlinkedHere
  <2>2. Dot \in DOMAIN fs.ents[at] /\ fs.ents[at][Dot].to = at
    BY <1>2, <1>4, <2>1 DEF AllDotted, Whole, GoodNames
  <2>3. Points(fs, at, Dot, at)
    BY <2>1, <2>2 DEF Points
  <2>4. <<at, Dot>> \in Linking(fs, Pairs, at)
    BY <1>2, <2>3, NamesApart, PointsIsLinking
  <2>5. QED
    BY <2>1, <2>4
<1>6. at \notin links.dirtree
  BY <1>2, <1>5 DEF Whole, Records
<1>7. pc # "pass4_dirs"
  BY <1>2, <1>6 DEF ListOf
<1>8. SameRest(links, l2) /\ Counted(l2, at) = Counted(links, at) + 1
  BY <1>1, <1>5 DEF AddsNumbers
<1>9. CountOf(l2) = Counted(l2, at)
  <2>1. CASE pc = "pass4_inodes"
    <3>1. at \in l2.inodetree
      BY <1>2, <1>8, <2>1 DEF ListOf, SameRest
    <3>2. QED
      BY <2>1, <3>1 DEF CountOf, Counted
  <2>2. CASE pc = "pass4_nlink1"
    <3>1. at \notin links.clink1map /\ at \in links.nlink1map
      BY <1>2, <2>2 DEF IsUnlinked, ListOf
    <3>2. at \notin links.inodetree
      BY <1>2, <3>1 DEF Whole, GoodCounts
    <3>3. Counted(links, at) = 0
      BY <1>6, <3>1, <3>2 DEF Counted
    <3>4. QED
      BY <1>8, <2>2, <3>3 DEF CountOf
  <2>3. QED
    BY <1>2, <1>7, <2>1, <2>2 DEF Lists
<1>10. QED
  BY <1>1, <1>5, <1>7, <1>8, <1>9

LEMMA RelinkUnlinkedNumbers ==
  ASSUME LinksKept, NumbersKept, IInv, RelinkUnlinked PROVE NumbersKept'
<1>1. PICK f2, l2, D, a, k, L, h : /\ f2 = fs' /\ l2 = links' /\ D = declined' /\ a = at' /\ L = Lf
                                   /\ k = CountOf(LinksAdded(at)) /\ h = FsAdded(at)
  OBVIOUS
<1>2. /\ InPass4At /\ IsUnlinked /\ InUse(at) /\ declined \subseteq D
      /\ \/ /\ LfPossible /\ l2 = LinksAdded(at) /\ f2 = [h EXCEPT !.nlink[at] = k]
            /\ lf_dip' = L /\ lf_addition' = TRUE
         \/ UNCHANGED <<fs, links, lf_dip, lf_addition>> /\ at \in D
  BY <1>1 DEF RelinkUnlinked, Query
<1>3. /\ pc \in Lists /\ at \in Addrs /\ at \in ListOf(pc) /\ GoodLinks(links) /\ GoodFs(fs)
      /\ Whole(fs, links, treewalk_parent, dotdot_parent, lf_dip, Pairs, {}, declined)
  BY <1>2, InPass4Facts DEF Lists
<1>4. /\ GoodNumbers(fs, links) /\ Singles(fs, links) /\ AllDotted(fs, declined)
      /\ \A b \in Addrs : Minded(fs, links, dotdot_parent, {}, declined, b) =>
            InStep(fs, links, pc, at, b) \/ (b = lf_dip /\ lf_addition)
  BY <1>2, InPass4Numbers
<1>5. CASE UNCHANGED <<fs, links, lf_dip, lf_addition>> /\ at \in D
  <2>1. AllDotted(fs, D)
    BY <1>2, <1>4 DEF AllDotted
  <2>2. ~Minded(fs, links, dotdot_parent, {}, D, at)
    BY <1>5 DEF Minded
  <2>3. \A b \in Addrs : Follows(fs, links, fs, links, b)
    BY FollowsSame
  <2>4. QED
    BY <1>1, <1>2, <1>4, <1>5, <2>1, <2>2, <2>3, OnlyHereNumbers
<1>6. CASE /\ LfPossible /\ l2 = LinksAdded(at) /\ f2 = [h EXCEPT !.nlink[at] = k]
           /\ lf_dip' = L /\ lf_addition' = TRUE
  <2>1. fs.mode[at] # "free"
    BY <1>2 DEF InUse
  <2>2. fs.mode[at] = "file" => at \in links.inodetree \/ at \notin links.clink1map
    <3>1. CASE pc = "pass4_nlink1"
      BY <1>2, <3>1 DEF IsUnlinked
    <3>2. CASE pc = "pass4_inodes"
      BY <1>3, <3>2 DEF ListOf
    <3>3. CASE pc = "pass4_dirs"
      BY <1>3, <3>3 DEF ListOf, Whole, Records
    <3>4. QED
      BY <1>3, <3>1, <3>2, <3>3 DEF Lists
  <2>3. AddsNumbers(at, FsAdded(at), LinksAdded(at), Lf)
    BY <1>3, <1>4, <1>6, <2>1, <2>2, AddedNumbers
  <2>4. AddsNumbers(at, h, l2, L)
    BY <1>1, <1>6, <2>3
  <2>5. Singles(h, l2)
    <3>1. Singles(FsAdded(at), LinksAdded(at))
      BY <1>3, <1>4, <1>6, <2>1, <2>3, AddedSingles
    <3>2. QED
      BY <1>1, <1>6, <3>1
  <2>6. AllDotted(h, D)
    <3>1. AllDotted(FsAdded(at), D)
      BY <1>2, <1>3, <1>4, <1>6, <2>1, AddedAllDotted
    <3>2. QED
      BY <1>1, <3>1
  <2>7. /\ L \in Addrs /\ L # None /\ h.mode[L] = "dir" /\ \A b \in Addrs \ {L} : h.mode[b] = fs.mode[b]
    BY <1>1, <1>3, <1>6, <2>1, AddedDots
  <2>8. lf_dip \in {None, L}
    BY <1>1, <1>3, <1>6, WholeWithLf
  <2>9. GoodFs(h)
    BY <1>1, <1>3, <1>6, FsAddedGood
  <2>10. f2.mode = h.mode /\ f2.ents = h.ents /\ f2.nlink = [h.nlink EXCEPT ![at] = k]
    BY <1>6, <2>9 DEF GoodFs, FsFields
  <2>11. k \in Nat
    <3>1. GoodCounts(l2)
      <4>1. LinksKept'
        BY RelinkUnlinkedKeeps
      <4>2. GoodCounts(links)'
        BY <4>1 DEF LinksKept, Whole
      <4>3. QED
        BY <1>1, <4>2 DEF GoodCounts
    <3>2. l2.counted_links[at] \in Nat
      BY <1>3, <3>1 DEF GoodCounts
    <3>3. k = IF pc = "pass4_nlink1" THEN 1 ELSE l2.counted_links[at]
      BY <1>1, <1>6 DEF CountOf
    <3>4. QED
      BY <3>2, <3>3
  <2>12. /\ GoodNumbers(h, l2) /\ SameRest(links, l2) /\ links.outdated \subseteq l2.outdated
         /\ \A b \in Addrs \ {at, L} : Follows(fs, links, h, l2, b)
         /\ \A b \in Addrs \ {L} : b \notin links.dirtree => h.nlink[b] = fs.nlink[b]
    BY <2>4 DEF AddsNumbers
  <2>13. f2.nlink \in [Addrs -> Nat] /\ f2.nlink[at] = k /\ \A b \in Addrs \ {at} : f2.nlink[b] = h.nlink[b]
    BY <1>3, <2>10, <2>11, <2>12 DEF GoodNumbers
  <2>14. GoodNumbers(f2, l2) /\ AllDotted(f2, D)
    BY <2>6, <2>10, <2>12, <2>13 DEF GoodNumbers, AllDotted
  <2>15. Singles(f2, l2)
    <3>1. ASSUME NEW b \in Addrs, f2.mode[b] = "file", b \in l2.nlink1map PROVE f2.nlink[b] = 1
      <4>1. CASE b # at
        BY <2>5, <2>10, <2>13, <3>1, <4>1 DEF Singles
      <4>2. CASE b = at
        <5>1. b # L /\ fs.mode[b] = "file" /\ b \in links.nlink1map
          BY <2>7, <2>10, <2>12, <3>1 DEF SameRest
        <5>2. b \notin links.dirtree /\ b \notin links.inodetree
          BY <1>3, <5>1 DEF Whole, Records, GoodCounts
        <5>3. pc = "pass4_nlink1"
          BY <1>3, <4>2, <5>2 DEF ListOf, Lists
        <5>4. QED
          BY <1>1, <2>13, <4>2, <5>3 DEF CountOf
      <4>3. QED
        BY <4>1, <4>2
    <3>2. QED
      BY <3>1 DEF Singles
  <2>16. ASSUME NEW b \in Addrs, Minded(f2, l2, dotdot_parent, {}, D, b), b # L PROVE InStep(f2, l2, pc, a, b)
    <3>1. /\ fs.mode[b] # "free" /\ b \notin D /\ b \notin declined /\ f2.mode[b] = fs.mode[b]
          /\ Minded(fs, links, dotdot_parent, {}, declined, b)
      BY <1>2, <2>7, <2>10, <2>12, <2>16 DEF Minded
    <3>2. CASE b = at
      <4>1. /\ fs.mode[at] = "file" /\ k = Counted(l2, at) /\ Counted(l2, at) = Counted(links, at) + 1
        BY <1>1, <1>2, <1>6, <2>3, <2>16, <3>1, <3>2, RelinkedIsEven
      <4>2. Counted(links, at) \in Nat
        BY <1>3, CountedIsNat DEF Whole
      <4>3. Even(f2, l2, at) /\ f2.nlink[at] > 0
        BY <2>13, <4>1, <4>2 DEF Even
      <4>4. QED
        BY <1>3, <3>2, <4>3, ListsOrder DEF InStep
    <3>3. CASE b # at
      <4>1. b # lf_dip
        BY <2>8, <2>16, RootIsAddr
      <4>2. InStep(fs, links, pc, at, b)
        BY <1>4, <3>1, <4>1
      <4>3. f2.nlink[b] = h.nlink[b] /\ Follows(fs, links, h, l2, b)
        BY <2>12, <2>13, <2>16, <3>3
      <4>4. Follows(fs, links, f2, l2, b)
        BY <4>3 DEF Follows, Noted, Even
      <4>5. fs.mode[b] = "file" => f2.nlink[b] = fs.nlink[b]
        BY <1>3, <2>12, <2>16, <4>3 DEF Whole, Records
      <4>6. QED
        BY <1>1, <1>2, <2>12, <3>1, <3>3, <4>2, <4>4, <4>5, OthersInStep DEF SameRest
    <3>4. QED
      BY <3>2, <3>3
  <2>17. QED
    BY <1>1, <1>2, <1>6, <2>7, <2>14, <2>15, <2>16, Pass4Numbers
<1>7. QED
  BY <1>2, <1>5, <1>6

-----------------------------------------------------------------------------
(* From one pass to the next, when nothing is cut short.                   *)
LEMMA GoesToNext ==
  ASSUME LinksKept, EndPass, cut' = {}
  PROVE  /\ pc \in {"pass2", "pass3"} \cup Lists /\ at = None
         /\ pc' = AfterThis[pc] /\ at' = NextOf(ListOf(AfterThis[pc]), 0) /\ ~lf_addition'
<1>1. pc \in {"pass2", "pass3"} \cup Lists /\ at = None
  BY DEF LinksKept, AtRecord, Passes, Lists, EndPass
<1>2. fsck_abort => pc \notin {"pass2", "pass3"}
  BY DEF EndPass, NotRun, LaterPasses
<1>3. pc' = AfterThis[pc] /\ Start(AfterThis[pc])
  <2>1. CASE pc = "pass4_nlink1"
    BY <2>1 DEF EndPass, Start, AfterThis
  <2>2. CASE pc # "pass4_nlink1"
    <3>1. ~(fsck_abort /\ pc \notin {"pass4_inodes", "pass4_dirs"})
      BY <1>1, <1>2, <2>2 DEF Lists
    <3>2. Start(AfterThis[pc])
      BY <3>1 DEF EndPass
    <3>3. QED
      BY <3>2 DEF Start
  <2>3. QED
    BY <2>1, <2>2
<1>4. QED
  BY <1>1, <1>3 DEF Start, FirstOf

(* A list begins with nothing of it passed.                                *)
LEMMA NonePassed ==
  ASSUME NEW tree, tree \subseteq Addrs, NEW b \in tree
  PROVE  ~Passed(NextOf(tree, 0), b)
<1>1. PICK a2 : a2 = NextOf(tree, 0)
  OBVIOUS
<1>2. \/ a2 = None /\ \A c \in tree : ~(c > 0)
      \/ a2 \in Addrs /\ \A c \in tree : c > 0 => a2 <= c
  BY <1>1, NextAfter
<1>3. b \in Nat /\ b > 0 /\ (a2 \in Addrs => a2 \in Nat /\ a2 # None)
  BY DirLinksAssumption, RootIsAddr DEF Addrs
<1>4. a2 # None /\ ~(b < a2)
  BY <1>2, <1>3
<1>5. QED
  BY <1>1, <1>4 DEF Passed

LEMMA VisitedStarts ==
  ASSUME LinksKept, IInv, pc \in {"pass3"} \cup Lists, NEW p, p = AfterThis[pc], NEW a, a = NextOf(ListOf(p), 0),
         NEW b \in Addrs, fs.mode[b] # "free", Visited(fs, links, p, a, b)
  PROVE  Visited(fs, links, pc, None, b)
<1>1. GoodLinks(links) /\ fs.mode[b] \in Modes
  BY DEF IInv, LinksKept, Whole, GoodNames
<1>2. p \in {"pass4_inodes", "pass4_dirs", "pass4_nlink1", "done"}
  BY DEF AfterThis, Lists
<1>3. PICK c : c = OwnList(fs, links, b)
  OBVIOUS
<1>4. p # c
  <2>1. SUFFICES ASSUME p = c PROVE FALSE
    OBVIOUS
  <2>2. b \in ListOf(p) /\ p \in Lists
    BY <1>1, <1>3, <2>1, InOwnList, ListsOrder DEF LinksKept, Whole
  <2>3. ListOf(p) \subseteq Addrs
    BY <1>1, <2>2 DEF ListOf, GoodLinks, Lists
  <2>4. ~Passed(a, b)
    BY <2>2, <2>3, NonePassed
  <2>5. QED
    BY <1>3, <2>1, <2>2, <2>4, ListsOrder DEF Visited
<1>5. p \in PassesAfter(c) /\ c \in Lists
  BY <1>3, <1>4, ListsOrder DEF Visited
<1>6. pc \in PassesAfter(c) \/ pc = c
  BY <1>5 DEF PassesAfter, AfterThis, Lists
<1>7. QED
  BY <1>3, <1>6 DEF Visited, Passed

(* adjust_lf_links, and nothing else.                                      *)
LEMMA AdjustedNumbers ==
  ASSUME LinksKept, NumbersKept, IInv, EndPass, cut' = {}, pc \in Lists PROVE NumbersKept'
<1>1. PICK f2, lf, k, p, a : /\ f2 = fs' /\ lf = lf_dip /\ k = links.counted_links[lf_dip]
                             /\ p = pc' /\ a = at'
  OBVIOUS
<1>2. /\ at = None /\ p = AfterThis[pc] /\ a = NextOf(ListOf(p), 0) /\ ~lf_addition'
      /\ UNCHANGED <<links, dotdot_parent, checked, declined>>
  BY <1>1, GoesToNext DEF EndPass, dirinfo
<1>3. Open = {} /\ p \notin {"pass2", "pass3"} /\ Open' = {}
  <2>1. p \notin {"pass2", "pass3"}
    BY <1>2 DEF AfterThis, Lists
  <2>2. QED
    BY <1>1, <2>1, ListsOrder DEF Open
<1>4. /\ GoodNumbers(fs, links) /\ Singles(fs, links) /\ AllDotted(fs, declined)
      /\ lf_addition => lf_dip # None
      /\ \A b \in Addrs : Minded(fs, links, dotdot_parent, {}, declined, b) =>
            InStep(fs, links, pc, None, b) \/ (b = lf /\ lf_addition)
  <2>1. NumbersOf(fs, links, dotdot_parent, lf, lf_addition, {}, declined, pc, None)
    BY <1>1, <1>2, <1>3 DEF NumbersKept
  <2>2. QED
    BY <1>1, <2>1, ListsOrder DEF NumbersOf, Dotted, AllDotted
<1>5. GoodFs(fs) /\ GoodCounts(links) /\ \A b \in Addrs : fs.mode[b] = "dir" => b \in links.dirtree
  BY DEF LinksKept, Whole, Records
<1>6. lf_addition => lf \in Addrs /\ fs.mode[lf] = "dir"
  BY <1>1, <1>4 DEF LinksKept, Whole, LostAndFound
<1>7. /\ f2.mode = fs.mode /\ f2.ents = fs.ents /\ f2.nlink \in [Addrs -> Nat]
      /\ \A b \in Addrs : b # lf \/ ~lf_addition => f2.nlink[b] = fs.nlink[b]
      /\ lf_addition => Even(f2, links, lf)
  <2>1. CASE lf_addition
    <3>1. f2 = [fs EXCEPT !.nlink[lf] = k]
      BY <1>1, <2>1 DEF EndPass, AdjustedLf
    <3>2. f2.mode = fs.mode /\ f2.ents = fs.ents /\ f2.nlink = [fs.nlink EXCEPT ![lf] = k]
      BY <1>5, <3>1 DEF GoodFs, FsFields
    <3>3. k \in Nat /\ Counted(links, lf) = k
      BY <1>1, <1>5, <1>6, <2>1 DEF GoodCounts, Counted
    <3>4. f2.nlink \in [Addrs -> Nat] /\ f2.nlink[lf] = k /\ \A b \in Addrs \ {lf} : f2.nlink[b] = fs.nlink[b]
      BY <1>4, <1>6, <2>1, <3>2, <3>3 DEF GoodNumbers
    <3>5. QED
      BY <2>1, <3>2, <3>3, <3>4 DEF Even
  <2>2. CASE ~lf_addition
    <3>1. f2 = fs
      BY <1>1, <2>2 DEF EndPass, AdjustedLf
    <3>2. QED
      BY <1>4, <2>2, <3>1 DEF GoodNumbers
  <2>3. QED
    BY <2>1, <2>2
<1>8. Singles(f2, links)
  <2>1. ASSUME NEW b \in Addrs, f2.mode[b] = "file", b \in links.nlink1map PROVE f2.nlink[b] = 1
    BY <1>4, <1>6, <1>7, <2>1 DEF Singles
  <2>2. QED
    BY <2>1 DEF Singles
<1>9. GoodNumbers(f2, links) /\ Dotted(f2, declined, p, a)
  BY <1>4, <1>7 DEF GoodNumbers, Dotted, AllDotted
<1>10. ASSUME NEW b \in Addrs, Minded(f2, links, dotdot_parent, {}, declined, b) PROVE InStep(f2, links, p, a, b)
  <2>1. Minded(fs, links, dotdot_parent, {}, declined, b) /\ fs.mode[b] # "free"
    BY <1>7, <1>10 DEF Minded
  <2>2. CASE b = lf /\ lf_addition
    BY <1>3, <1>6, <1>7, <2>2 DEF InStep
  <2>3. CASE b # lf \/ ~lf_addition
    <3>1. InStep(fs, links, pc, None, b) /\ f2.nlink[b] = fs.nlink[b]
      BY <1>4, <1>7, <2>1, <2>3
    <3>2. Visited(f2, links, p, a, b) => Visited(fs, links, pc, None, b)
      <4>1. Visited(f2, links, p, a, b) <=> Visited(fs, links, p, a, b)
        BY <1>7 DEF Visited, OwnList
      <4>2. QED
        BY <1>1, <1>2, <2>1, <4>1, VisitedStarts
    <3>3. (Noted(fs, links, b) => Noted(f2, links, b)) /\ (Even(fs, links, b) => Even(f2, links, b))
      BY <3>1 DEF Noted, Even
    <3>4. QED
      BY <1>3, <1>7, <3>1, <3>2, <3>3 DEF InStep
  <2>4. QED
    BY <2>2, <2>3
<1>11. PICK dd, lf2, add : dd = dotdot_parent' /\ lf2 = lf_dip' /\ add = lf_addition'
  OBVIOUS
<1>12. NumbersOf(f2, links, dotdot_parent, lf2, add, {}, declined, p, a)
  BY <1>2, <1>8, <1>9, <1>10, <1>11 DEF NumbersOf
<1>13. QED
  BY <1>1, <1>2, <1>3, <1>11, <1>12, NumbersNext

LEMMA EndPassNumbers ==
  ASSUME LinksKept, NumbersKept, IInv, EndPass, cut' = {} PROVE NumbersKept'
<1>1. PICK p, a, O : p = pc' /\ a = at' /\ O = Addrs \ checked
  OBVIOUS
<1>2. /\ pc \in {"pass2", "pass3"} \cup Lists /\ at = None /\ p = AfterThis[pc] /\ a = NextOf(ListOf(p), 0)
      /\ ~lf_addition' /\ UNCHANGED <<links, dotdot_parent, checked, lf_dip, declined>>
  BY <1>1, GoesToNext DEF EndPass, dirinfo
<1>3. CASE pc \in {"pass2", "pass3"}
  <2>1. Open = O
    BY <1>1, <1>3 DEF Open
  <2>2. NumbersOf(fs, links, dotdot_parent, lf_dip, lf_addition, O, declined, pc, None)
    BY <1>2, <2>1 DEF NumbersKept
  <2>3. /\ GoodNumbers(fs, links) /\ Singles(fs, links) /\ Dotted(fs, declined, pc, None) /\ ~lf_addition
        /\ \A b \in Addrs : Minded(fs, links, dotdot_parent, O, declined, b) => Noted(fs, links, b)
    BY <1>3, <2>2, EarlyNumbers
  <2>4. Dotted(fs, declined, p, a)
    <3>1. AllDotted(fs, declined)
      BY <2>3 DEF Dotted, Passed, AllDotted
    <3>2. QED
      BY <3>1 DEF Dotted, AllDotted
  <2>5. fs' = fs
    BY <2>3 DEF EndPass, AdjustedLf
  <2>6. CASE pc = "pass2"
    <3>1. p = "pass3"
      BY <1>2, <2>6 DEF AfterThis
    <3>2. Open' = O
      BY <1>1, <1>2, <3>1 DEF Open
    <3>3. NumbersOf(fs, links, dotdot_parent, lf_dip, FALSE, O, declined, p, a)
      BY <2>3, <2>4, <3>1, EarlyNumbers
    <3>4. QED
      BY <1>1, <1>2, <2>5, <3>2, <3>3, NumbersNext DEF NumbersOf
  <2>7. CASE pc = "pass3"
    <3>1. p = "pass4_inodes"
      BY <1>2, <2>7 DEF AfterThis
    <3>2. Open' = {}
      BY <1>1, <3>1 DEF Open
    <3>3. ASSUME NEW b \in Addrs, Minded(fs, links, dotdot_parent, {}, declined, b) PROVE InStep(fs, links, p, a, b)
      <4>1. fs.mode[b] # "free" /\ Minded(fs, links, dotdot_parent, O, declined, b)
        BY <3>3 DEF Minded
      <4>2. ~Visited(fs, links, "pass3", None, b)
        BY DEF Visited, OwnList, PassesAfter
      <4>3. ~Visited(fs, links, p, a, b)
        BY <1>2, <2>7, <4>1, <4>2, VisitedStarts
      <4>4. QED
        BY <2>3, <4>1, <4>3 DEF InStep
    <3>4. NumbersOf(fs, links, dotdot_parent, lf_dip, FALSE, {}, declined, p, a)
      BY <2>3, <2>4, <3>3 DEF NumbersOf
    <3>5. QED
      BY <1>1, <1>2, <2>5, <3>2, <3>4, NumbersNext DEF NumbersOf
  <2>8. QED
    BY <1>3, <2>6, <2>7
<1>4. CASE pc \in Lists
  BY <1>4, AdjustedNumbers
<1>5. QED
  BY <1>2, <1>3, <1>4

LEMMA BetweenNumbers ==
  ASSUME LinksInv, NumbersInv, IInv, LeavePass \/ EndPass \/ ExitWithoutLf
  PROVE  NumbersInv'
<1>1. SUFFICES ASSUME cut' = {} PROVE NumbersKept'
  BY DEF NumbersInv
<1>2. EndPass /\ cut = {}
  BY <1>1 DEF LeavePass, ExitWithoutLf, EndPass
<1>3. LinksKept /\ NumbersKept
  BY <1>2 DEF LinksInv, NumbersInv
<1>4. QED
  BY <1>1, <1>2, <1>3, EndPassNumbers

LEMMA SameNumbersKept ==
  ASSUME NumbersInv,
         UNCHANGED <<fs, links, dirinfo, lf_dip, pc, at, di, name, lf_addition, cut, declined>>
  PROVE  NumbersInv'
<1>1. SUFFICES ASSUME cut = {} PROVE NumbersKept'
  BY DEF NumbersInv
<1>2. Open' = Open
  BY DEF Open, dirinfo
<1>3. NumbersOf(fs', links', dotdot_parent', lf_dip', lf_addition', Open', declined', pc', at')
  BY <1>1, <1>2 DEF NumbersInv, NumbersKept, dirinfo
<1>4. QED
  BY <1>3, NumbersNext

LEMMA NumbersStep == IInv /\ LinksInv /\ NumbersInv /\ [Next]_vars => NumbersInv'
<1> SUFFICES ASSUME IInv, LinksInv, NumbersInv, [Next]_vars PROVE NumbersInv'
  OBVIOUS
<1>1. CASE Pass2 \/ Pass3 \/ Pass4
  <2>1. SUFFICES ASSUME cut = {} PROVE NumbersKept'
    BY <1>1, PassesKeepCut DEF NumbersInv
  <2>2. LinksKept /\ NumbersKept
    BY <2>1 DEF LinksInv, NumbersInv
  <2>3. CASE Pass2
    BY <2>2, <2>3, DentryNumbers, EndOfDirNumbers DEF Pass2
  <2>4. CASE Pass3
    BY <2>2, <2>4, Pass3StepsNumbers
  <2>5. CASE Pass4
    BY <2>2, <2>5, LinkCountRightNumbers, HandleInconsistNumbers, ClearUnlinkedNumbers,
       RelinkUnlinkedNumbers DEF Pass4
  <2>6. QED
    BY <1>1, <2>3, <2>4, <2>5
<1>2. CASE LeavePass \/ EndPass \/ ExitWithoutLf
  BY <1>2, BetweenNumbers
<1>3. CASE (\E choice \in {"skip", "abort"} : Interrupt(choice)) \/ UNCHANGED vars
  <2>1. UNCHANGED <<fs, links, dirinfo, lf_dip, pc, at, di, name, lf_addition, cut, declined>>
    BY <1>3 DEF Interrupt, vars
  <2>2. QED
    BY <2>1, SameNumbersKept
<1>4. QED
  BY <1>1, <1>2, <1>3 DEF Next, Fsck

LEMMA NumbersInit == Init => NumbersInv
<1> SUFFICES ASSUME Init PROVE NumbersKept
  BY DEF NumbersInv
<1>1. /\ pc = "pass2" /\ at = Root /\ links = NewLinks(fs) /\ lf_addition = FALSE /\ fs \in Images
  BY DEF Init
<1>2. fs.nlink \in [Addrs -> Nat]
  BY <1>1, DirLinksAssumption DEF GoodImage
<1>3. links.di_nlink = fs.nlink /\ \A b \in links.nlink1map : fs.nlink[b] = 1
  BY <1>1 DEF NewLinks
<1>4. GoodNumbers(fs, links) /\ Singles(fs, links)
  BY <1>2, <1>3 DEF GoodNumbers, Singles
<1>5. Dotted(fs, declined, "pass2", Root)
  <2>1. \A d \in Addrs : ~Passed(Root, d)
    <3>1. Root # None /\ \A d \in Addrs : d \in Nat /\ d >= 1
      BY DirLinksAssumption, RootIsAddr DEF Addrs
    <3>2. QED
      BY <3>1 DEF Passed, Root
  <2>2. QED
    BY <2>1 DEF Dotted
<1>6. \A b : Noted(fs, links, b)
  BY <1>3 DEF Noted
<1>7. QED
  BY <1>1, <1>4, <1>5, <1>6, EarlyNumbers DEF NumbersKept

LEMMA NumbersAlways == Spec => [](IInv /\ LinksInv /\ NumbersInv)
  BY InitGood, NextGood, LinksInit, LinksNext, NumbersInit, NumbersStep, PTL DEF Spec

(* A run that was not cut short leaves every dinode in use, but those a no *)
(* was said of, a lost+found whose record is out of date and directories   *)
(* that were their own parents, with as many links as its dinode says, and *)
(* with one at least: in a file system of any size, whatever was in it.    *)
THEOREM NumbersEndRight == Spec => []LinkCountsRight
<1>1. IInv /\ LinksInv /\ NumbersInv => LinkCountsRight
  <2> SUFFICES ASSUME IInv, LinksInv, NumbersInv, pc = "done", cut = {}, NEW i \in Addrs \ declined,
                      InUse(i), i \notin links.outdated, dotdot_parent[i] # i
               PROVE  fs.nlink[i] = Cardinality(LinksTo(i)) /\ fs.nlink[i] > 0
    BY DEF LinkCountsRight
  <2>1. LinksKept /\ NumbersKept
    BY DEF LinksInv, NumbersInv
  <2>2. Whole(fs, links, treewalk_parent, dotdot_parent, lf_dip, Pairs, Open, declined)
    BY <2>1, AllSeen DEF LinksKept
  <2>3. Counted(links, i) = Cardinality(Linking(fs, Pairs, i))
    <3>1. Trusted(fs, links, treewalk_parent, lf_dip, declined, i)
      BY DEF Trusted, Ghost, InUse
    <3>2. QED
      BY <2>2, <3>1 DEF Whole, Counts
  <2>4. Linking(fs, Pairs, i) = LinksTo(i)
    BY <2>2, LinkingIsLinksTo DEF Whole
  <2>5. InStep(fs, links, "done", at, i)
    <3>1. Minded(fs, links, dotdot_parent, Open, declined, i)
      BY DEF Minded, InUse
    <3>2. ~lf_addition
      BY <2>1 DEF NumbersKept, NumbersOf, Lists
    <3>3. QED
      BY <2>1, <3>1, <3>2 DEF NumbersKept, NumbersOf
  <2>6. Visited(fs, links, "done", at, i)
    BY DEF Visited, PassesAfter
  <2>7. Even(fs, links, i) /\ (fs.mode[i] = "file" => fs.nlink[i] > 0)
    BY <2>5, <2>6 DEF InStep
  <2>8. fs.nlink[i] = Cardinality(LinksTo(i))
    BY <2>3, <2>4, <2>7 DEF Even
  <2>9. CASE fs.mode[i] = "dir"
    <3>1. Dot \in DOMAIN fs.ents[i]
      BY <2>1, <2>9 DEF NumbersKept, NumbersOf, Dotted
    <3>2. Points(fs, i, Dot, i)
      BY <2>2, <2>9, <3>1 DEF Points, Whole, GoodNames
    <3>3. <<i, Dot>> \in Linking(fs, Pairs, i)
      BY <3>2, NamesApart, PointsIsLinking
    <3>4. IsFiniteSet(Linking(fs, Pairs, i)) /\ Cardinality(Linking(fs, Pairs, i)) \in Nat
      BY LinkingFinite
    <3>5. Cardinality(Linking(fs, Pairs, i)) # 0
      BY <3>3, <3>4, FS_EmptySet
    <3>6. QED
      BY <2>4, <2>8, <3>4, <3>5
  <2>10. fs.mode[i] \in {"dir", "file"}
    BY <2>2 DEF Whole, GoodNames, Modes, InUse
  <2>11. QED
    BY <2>7, <2>8, <2>9, <2>10
<1>2. QED
  BY <1>1, NumbersAlways, PTL
=============================================================================
