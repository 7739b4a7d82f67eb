------------------------------ MODULE DirLinks ------------------------------
(***************************************************************************)
(* The directory tree and the link counts in fsck.gfs2: pass2 walks the    *)
(* entries of every directory, notes whom it was reached from and counts   *)
(* the links (pass2.c, link.c); pass3 attaches the directories that no     *)
(* parent has (pass3.c); pass4 attaches what has no link and sets the      *)
(* counts in the dinodes (pass4.c); lost+found is found or made when it is *)
(* first needed (lost_n_found.c).                                          *)
(*                                                                         *)
(* ^C comes between any two steps and skips the rest of the pass or ends   *)
(* the run; every question but two may be answered no.                     *)
(***************************************************************************)
EXTENDS Integers, FiniteSets, SequencesExt, FiniteSetsExt, Functions

CONSTANTS
    NAddrs,     \* dinodes have addresses 1 .. NAddrs; the trees are in this order
    Images,     \* file systems to check
    IntChoices, \* what may be chosen after ^C: "skip", "abort"
    MaxUser     \* bound: ^C and questions answered no in a run

Addrs == 1 .. NAddrs
None == 0
Root == 1       \* pass2 checks it before the others

(* Names in the order a directory has them: ".", "..", "lost+found", two   *)
(* others, and the names given in lost+found.                              *)
Dot == 1
DotDot == 2
LostFound == 3
Plain == {4, 5}
LostName(i) == 10 + i
Names == {Dot, DotDot, LostFound} \union Plain \union { LostName(i) : i \in Addrs }

(* An entry names an address and a formal inode number, which is the       *)
(* dinode's or not.                                                        *)
Entry(i) == [to |-> i, good |-> TRUE]
EntryType == [to : Addrs, good : BOOLEAN]

Modes == {"dir", "file", "free"}
Image(mode, ents, nlink, empty) ==
    [mode |-> mode, ents |-> ents, nlink |-> nlink, empty |-> empty]
GoodImage(f) ==
    /\ DOMAIN f = {"mode", "ents", "nlink", "empty"}
    /\ f.mode \in [Addrs -> Modes] /\ f.mode[Root] = "dir"
    /\ DOMAIN f.ents = Addrs
    /\ \A a \in Addrs : DOMAIN f.ents[a] \subseteq Names
    /\ \A a \in Addrs : \A n \in DOMAIN f.ents[a] :
          /\ f.ents[a][n] \in EntryType
          /\ n = Dot => f.ents[a][n].to = a
          /\ n = DotDot => f.mode[f.ents[a][n].to] # "file"
    /\ f.nlink \in [Addrs -> Nat] /\ f.empty \subseteq Addrs

(* Before the run: the name an inode gets in lost+found is made of its     *)
(* address and is nobody else's; a lost+found there already is a directory *)
(* (lost_n_found.c looks its name up and no further); a directory of zero  *)
(* size has no entry but its own.                                          *)
AsFound(f) ==
    /\ \A a, i \in Addrs : LostName(i) \in DOMAIN f.ents[a] => f.ents[a][LostName(i)].to = i
    /\ LostFound \in DOMAIN f.ents[Root] => f.mode[f.ents[Root][LostFound].to] = "dir"
    /\ \A a \in f.empty : DOMAIN f.ents[a] \subseteq {Dot}

ASSUME DirLinksAssumption ==
    /\ NAddrs \in Nat \ {0} /\ MaxUser \in Nat
    /\ IntChoices \subseteq {"skip", "abort"}
    /\ \A f \in Images : GoodImage(f) /\ AsFound(f)

VARIABLES
    fs,         \* the disk: mode, entries, i_nlink, and the dinodes of zero size
    links,      \* what is counted: see NewLinks
    treewalk_parent, dotdot_parent, checked,    \* in the dirtree
    lf_dip,
    skip_this_pass, fsck_abort,
    pc,
    at,         \* the dinode the pass has come to in its tree or map
    di,         \* pass3: the directory it has come to, going up from at
    name,       \* pass2: the last name looked at in the directory
    lf_addition,
    cut,        \* history: the passes cut short
    declined,   \* history: dinodes a question about which was answered no
    user

dirinfo == <<treewalk_parent, dotdot_parent, checked>>
flags == <<skip_this_pass, fsck_abort>>
vars == <<fs, links, dirinfo, lf_dip, flags, pc, at, di, name, lf_addition, cut, declined, user>>

-----------------------------------------------------------------------------
(* The records of links.  A directory has one in the dirtree; a file whose *)
(* dinode says one link is a bit in nlink1map, and in clink1map when one   *)
(* link was counted, until a second is; any other file is in the inodetree.*)
(* In "outdated" are the records of the dirtree whose formal number is not *)
(* that of the dinode there now.                                           *)

(* set_di_nlink for every dinode pass1 has met.                            *)
NewLinks(f) ==
    LET files == { a \in Addrs : f.mode[a] = "file" }
    IN  [dirtree |-> { a \in Addrs : f.mode[a] = "dir" },
         inodetree |-> { a \in files : f.nlink[a] # 1 },
         nlink1map |-> { a \in files : f.nlink[a] = 1 },
         clink1map |-> {},
         outdated |-> {},
         di_nlink |-> f.nlink,
         counted_links |-> [a \in Addrs |-> 0]]

(* incr_link_count, by an entry with the dinode's formal number.  The      *)
(* second link moves a file from the maps to the inodetree.                *)
MovedToInodetree(l, i) ==
    [l EXCEPT !.nlink1map = @ \ {i}, !.clink1map = @ \ {i},
              !.inodetree = @ \union {i}, !.di_nlink[i] = 1, !.counted_links[i] = 2]

IncrLinkCount(l, i) ==
    IF i \in l.outdated THEN l
    ELSE IF i \in l.dirtree \union l.inodetree THEN [l EXCEPT !.counted_links[i] = @ + 1]
    ELSE IF i \notin l.clink1map THEN [l EXCEPT !.clink1map = @ \union {i}]
    ELSE MovedToInodetree(l, i)

DecrLinkCount(l, i) ==
    IF i \in l.dirtree \union l.inodetree
    THEN [l EXCEPT !.counted_links[i] = IF @ = 0 THEN 0 ELSE @ - 1]
    ELSE [l EXCEPT !.clink1map = @ \ {i}]

(* What pass4 takes for the number of links counted.                       *)
Counted(l, i) ==
    IF i \in l.dirtree \union l.inodetree THEN l.counted_links[i]
    ELSE IF i \in l.clink1map THEN 1 ELSE 0

-----------------------------------------------------------------------------
(* Trees, questions, ^C.                                                   *)
Following(tree, a) == { b \in tree : b > a }
NextOf(tree, a) == IF Following(tree, a) = {} THEN None ELSE Min(Following(tree, a))
FirstOf(tree) == NextOf(tree, 0)

Stopped == skip_this_pass \/ fsck_abort

(* The answer to a question about dinode i.                                *)
Query(yes, i) ==
    IF yes THEN UNCHANGED <<declined, user>>
    ELSE user < MaxUser /\ user' = user + 1 /\ declined' = declined \union {i}
NoQuery == UNCHANGED <<declined, user>>

(* interrupt: the signal handler asks what to do.                          *)
Interrupt(choice) ==
    /\ pc # "done" /\ ~Stopped /\ user < MaxUser /\ choice \in IntChoices
    /\ skip_this_pass' = (choice = "skip") /\ fsck_abort' = (choice = "abort")
    /\ user' = user + 1
    /\ UNCHANGED <<fs, links, dirinfo, lf_dip, pc, at, di, name, lf_addition, cut, declined>>

Init ==
    /\ fs \in Images /\ links = NewLinks(fs)
    /\ treewalk_parent = [a \in Addrs |-> None] /\ dotdot_parent = [a \in Addrs |-> None]
    /\ checked = {} /\ lf_dip = None
    /\ skip_this_pass = FALSE /\ fsck_abort = FALSE
    /\ pc = "pass2" /\ at = Root /\ di = None /\ name = 0 /\ lf_addition = FALSE
    /\ cut = {} /\ declined = {} /\ user = 0

-----------------------------------------------------------------------------
(* The order of the passes.                                                *)
InPass4 == pc \in {"pass4_inodes", "pass4_dirs", "pass4_nlink1"}
AfterThis == [pass2 |-> "pass3", pass3 |-> "pass4_inodes", pass4_inodes |-> "pass4_dirs",
              pass4_dirs |-> "pass4_nlink1", pass4_nlink1 |-> "done"]
ListOf(p) == CASE p = "pass3" -> links.dirtree [] p = "pass4_inodes" -> links.inodetree
               [] p = "pass4_dirs" -> links.dirtree [] p = "pass4_nlink1" -> links.nlink1map
               [] OTHER -> {}

Start(p) ==
    /\ pc' = p /\ name' = 0 /\ lf_addition' = FALSE
    /\ at' = FirstOf(ListOf(p)) /\ di' = IF p = "pass3" THEN at' ELSE None

ThisPass == IF InPass4 THEN "pass4" ELSE pc
LaterPasses == CASE pc = "pass2" -> {"pass3", "pass4"} [] pc = "pass3" -> {"pass4"} [] OTHER -> {}
NotRun == IF fsck_abort THEN LaterPasses ELSE {}

(* A pass sees that it is to stop.                                         *)
LeavePass ==
    /\ pc # "done" /\ at # None /\ Stopped
    /\ cut' = cut \union {ThisPass} \union NotRun
    /\ Start(IF fsck_abort \/ InPass4 THEN "done" ELSE AfterThis[pc])
    /\ skip_this_pass' = FALSE
    /\ UNCHANGED <<fs, links, dirinfo, lf_dip, fsck_abort, declined, user>>

NotAdjustedLf == fs

(* adjust_lf_links: when a list has put something in lost+found.           *)
AdjustedLf ==
    IF lf_addition THEN [fs EXCEPT !.nlink[lf_dip] = links.counted_links[lf_dip]] ELSE fs

EndPass ==
    /\ pc # "done" /\ at = None
    /\ fs' = AdjustedLf
    /\ Start(IF fsck_abort /\ pc \notin {"pass4_inodes", "pass4_dirs"} THEN "done" ELSE AfterThis[pc])
    /\ skip_this_pass' = (skip_this_pass /\ pc \in {"pass4_inodes", "pass4_dirs"})
    /\ cut' = cut \union NotRun
    /\ UNCHANGED <<links, dirinfo, lf_dip, fsck_abort, declined, user>>

-----------------------------------------------------------------------------
(* pass2: one entry of the directory at hand after the other.              *)
Later == { n \in DOMAIN fs.ents[at] : n > name }
InPass2(n) ==
    /\ pc = "pass2" /\ at # None /\ ~Stopped
    /\ n \in Later /\ \A m \in Later : n <= m
    /\ name' = n
    /\ UNCHANGED <<checked, lf_dip, flags, pc, at, di, lf_addition, cut>>

Without(d, n) == [fs EXCEPT !.ents[d] = Restrict(@, DOMAIN @ \ {n})]
Added(e, n, i) == [m \in DOMAIN e \union {n} |-> IF m = n THEN Entry(i) ELSE e[m]]
With(f, d, n, i) == [f EXCEPT !.ents[d] = Added(@, n, i)]

(* The number is checked only against a record in one of the trees.        *)
Recorded(i) == i \in links.dirtree \union links.inodetree

(* Nuke the entry; or let it be, counted or not.                           *)
Nuke(n) == fs' = Without(at, n) /\ UNCHANGED <<links, treewalk_parent, dotdot_parent>>
Count(i) == links' = IncrLinkCount(links, i) /\ UNCHANGED fs
Leave == UNCHANGED <<fs, links, treewalk_parent, dotdot_parent>>

(* incr_link_count finds that the formal number is not the dinode's: of a  *)
(* record at once, otherwise by reading the dinode when it is the second.  *)
Mismatch(e) == ~e.good /\ (Recorded(e.to) \/ e.to \in links.clink1map)

(* The dentry points to a block that is no dinode.  When it stays it is    *)
(* counted, unless its formal number is not what the block has.            *)
DentryToNoInode(n) ==
    LET e == fs.ents[at][n] IN
    /\ InPass2(n) /\ fs.mode[e.to] = "free"
    /\ \E yes \in BOOLEAN :
        /\ Query(yes, e.to)
        /\ \/ (yes \/ Mismatch(e)) /\ Nuke(n)
           \/ ~yes /\ Mismatch(e) /\ Leave
           \/ ~yes /\ ~Mismatch(e) /\ Count(e.to) /\ UNCHANGED <<treewalk_parent, dotdot_parent>>

(* basic_dentry_checks: no question.                                       *)
DentryWrongFormal(n) ==
    LET e == fs.ents[at][n] IN
    /\ InPass2(n) /\ fs.mode[e.to] # "free" /\ Recorded(e.to) /\ ~e.good
    /\ Nuke(n) /\ NoQuery

(* The first entry to a file with one link is not checked; the second is,  *)
(* by incr_link_count.                                                     *)
DentryToSingle(n) ==
    LET e == fs.ents[at][n] IN
    /\ InPass2(n) /\ e.to \in links.nlink1map
    /\ IF ~Mismatch(e)
       THEN Count(e.to) /\ NoQuery /\ UNCHANGED <<treewalk_parent, dotdot_parent>>
       ELSE \E yes \in BOOLEAN :
                Query(yes, e.to) /\ IF yes THEN Nuke(n) ELSE Leave

DentryToMulti(n) ==
    LET e == fs.ents[at][n] IN
    /\ InPass2(n) /\ e.to \in links.inodetree /\ e.good
    /\ Count(e.to) /\ NoQuery
    /\ UNCHANGED <<treewalk_parent, dotdot_parent>>

DentryDot(n) ==
    LET e == fs.ents[at][n] IN
    /\ n = Dot /\ InPass2(n) /\ e.good
    /\ Count(e.to) /\ NoQuery
    /\ UNCHANGED <<treewalk_parent, dotdot_parent>>

(* set_dotdot_dir                                                          *)
DentryDotDot(n) ==
    LET e == fs.ents[at][n] IN
    /\ n = DotDot /\ InPass2(n) /\ e.good /\ e.to \in links.dirtree /\ fs.mode[e.to] = "dir"
    /\ dotdot_parent' = [dotdot_parent EXCEPT ![at] = e.to]
    /\ Count(e.to) /\ NoQuery
    /\ UNCHANGED treewalk_parent

DentryToDirLastWins(n) ==
    LET e == fs.ents[at][n] IN
    /\ n \notin {Dot, DotDot}
    /\ InPass2(n) /\ e.good /\ e.to \in links.dirtree /\ fs.mode[e.to] = "dir"
    /\ treewalk_parent' = [treewalk_parent EXCEPT ![e.to] = at]
    /\ Count(e.to) /\ NoQuery
    /\ UNCHANGED dotdot_parent

(* set_parent_dir: the first directory it is found in is its parent.       *)
DentryToDir(n) ==
    LET e == fs.ents[at][n] IN
    /\ n \notin {Dot, DotDot}
    /\ InPass2(n) /\ e.good /\ e.to \in links.dirtree /\ fs.mode[e.to] = "dir"
    /\ IF treewalk_parent[e.to] = None
       THEN /\ treewalk_parent' = [treewalk_parent EXCEPT ![e.to] = at]
            /\ Count(e.to) /\ NoQuery
       ELSE \E yes \in BOOLEAN :       \* a hard link to a directory
                /\ Query(yes, e.to) /\ UNCHANGED treewalk_parent
                /\ IF yes THEN fs' = Without(at, n) /\ UNCHANGED links ELSE Count(e.to)
    /\ UNCHANGED dotdot_parent

(* The end of pass2_check_dir: "." is added if there was none.             *)
EndOfDir ==
    /\ pc = "pass2" /\ at # None /\ ~Stopped /\ Later = {}
    /\ IF Dot \in DOMAIN fs.ents[at]
       THEN UNCHANGED <<fs, links>> /\ NoQuery
       ELSE \E yes \in BOOLEAN :
                /\ Query(yes, at)
                /\ IF yes THEN fs' = With(fs, at, Dot, at) /\ links' = IncrLinkCount(links, at)
                          ELSE UNCHANGED <<fs, links>>
    /\ at' = NextOf(links.dirtree, at) /\ name' = 0
    /\ UNCHANGED <<dirinfo, lf_dip, flags, pc, di, lf_addition, cut>>

-----------------------------------------------------------------------------
(* lost+found                                                              *)
FreeAddrs == { a \in Addrs : fs.mode[a] = "free" }
LowestFree == Min(FreeAddrs)
LfMissing == lf_dip = None /\ LostFound \notin DOMAIN fs.ents[Root]
LfPossible == LfMissing => FreeAddrs # {}
Lf == IF lf_dip # None THEN lf_dip
      ELSE IF LfMissing THEN LowestFree ELSE fs.ents[Root][LostFound].to

(* createi: the directory gets the first free block.                       *)
FsWithLf ==
    IF ~LfMissing THEN fs
    ELSE [With(fs, Root, LostFound, Lf) EXCEPT
              !.mode[Lf] = "dir",
              !.ents[Lf] = [n \in {Dot, DotDot} |-> Entry(IF n = Dot THEN Lf ELSE Root)],
              !.nlink[Lf] = 2, !.nlink[Root] = @ + 1, !.empty = @ \ {Lf}]

(* make_sure_lf_exists.  A record that is in the dirtree already stays as  *)
(* it is.                                                                  *)
LinksWithLf ==
    LET synced == [links EXCEPT !.di_nlink[Root] = FsWithLf.nlink[Root]]
        inserted == IF Lf \in links.dirtree
                    THEN [synced EXCEPT !.outdated = @ \union {Lf}]
                    ELSE [synced EXCEPT !.dirtree = @ \union {Lf}, !.di_nlink[Lf] = 0,
                                        !.counted_links[Lf] = 0]
    IN  IF lf_dip # None THEN links
        ELSE IF ~LfMissing THEN synced
        ELSE IncrLinkCount(IncrLinkCount(IncrLinkCount(inserted, Lf), Lf), Root)

(* add_dotdot takes back the link of the old "..".  A directory that is    *)
(* its own parent is in memory twice then: the copy that has the new count *)
(* is written first.                                                       *)
OldParent(i) == dotdot_parent[i]
UndoesDotDot(i) == OldParent(i) # None /\ OldParent(i) \notin LinksWithLf.outdated
DotDotUndone(i) == UndoesDotDot(i) /\ FsWithLf.nlink[OldParent(i)] > 0

FsAttached(i) ==
    LET f == With(FsWithLf, Lf, LostName(i), i)
        g == IF DotDotUndone(i) /\ OldParent(i) # i
             THEN [f EXCEPT !.nlink[OldParent(i)] = @ - 1] ELSE f
    IN  IF fs.mode[i] = "dir" THEN With(g, i, DotDot, Lf) ELSE f

LinksAttachedOnly(i) ==
    IF fs.mode[i] = "dir" THEN IncrLinkCount(IncrLinkCount(LinksWithLf, i), Lf)
    ELSE IncrLinkCount(LinksWithLf, i)

LinksAttached(i) ==
    LET undone == IF UndoesDotDot(i) THEN DecrLinkCount(LinksWithLf, OldParent(i)) ELSE LinksWithLf
        synced == IF DotDotUndone(i)
                  THEN [undone EXCEPT !.di_nlink[OldParent(i)] = FsWithLf.nlink[OldParent(i)] - 1]
                  ELSE undone
    IN  IF fs.mode[i] = "dir" THEN IncrLinkCount(IncrLinkCount(synced, i), Lf)
        ELSE IncrLinkCount(LinksWithLf, i)

(* add_inode_to_lf                                                         *)
FsAdded(i) == IF i = Lf THEN FsWithLf ELSE FsAttached(i)
LinksAdded(i) == IF i = Lf THEN LinksWithLf ELSE LinksAttached(i)

-----------------------------------------------------------------------------
(* pass3                                                                   *)
InPass3 ==
    /\ pc = "pass3" /\ at # None
    /\ UNCHANGED <<flags, pc, name, lf_addition, cut, treewalk_parent>>

NextDir == at' = NextOf(links.dirtree, at) /\ di' = at'

(* The root (and the master directory) count as checked from the start.    *)
Connected3 ==
    /\ InPass3 /\ di \in checked \union {Root}
    /\ NextDir
    /\ NoQuery /\ UNCHANGED <<fs, links, checked, dotdot_parent, lf_dip>>

(* mark_and_return_parent: di is marked, and its parent is next.           *)
Mark ==
    /\ InPass3 /\ ~Stopped /\ di \notin checked \union {Root}
Treewalk == treewalk_parent[di]
DotDotParent == dotdot_parent[di]
InUse(a) == fs.mode[a] # "free"
DotDotIsDir == DotDotParent # None /\ InUse(DotDotParent) /\ DotDotParent \in links.dirtree

HasParent ==
    /\ Treewalk # None
    /\ InUse(Treewalk) \/ (DotDotIsDir /\ DotDotParent # Treewalk)

ParentsAgree3Unmarked ==
    /\ Mark /\ HasParent /\ DotDotParent = Treewalk
    /\ di' = Treewalk
    /\ NoQuery /\ UNCHANGED <<fs, links, checked, dotdot_parent, lf_dip, at>>

ParentsAgree3 ==
    /\ Mark /\ HasParent /\ DotDotParent = Treewalk
    /\ checked' = checked \union {di} /\ di' = Treewalk
    /\ NoQuery /\ UNCHANGED <<fs, links, dotdot_parent, lf_dip, at>>

(* attach_dotdot_to: the directory the entry is in wins.                   *)
AttachDotDot ==
    /\ Mark /\ HasParent /\ DotDotParent # Treewalk
    /\ fs' = With(fs, di, DotDot, Treewalk)
    /\ links' = IncrLinkCount(IF DotDotParent # None
                              THEN DecrLinkCount(links, DotDotParent) ELSE links, Treewalk)
    /\ dotdot_parent' = [dotdot_parent EXCEPT ![di] = Treewalk]
    /\ checked' = checked \union {di} /\ di' = Treewalk
    /\ NoQuery /\ UNCHANGED <<lf_dip, at>>

(* An unlinked directory of zero size may be removed.                      *)
RemoveUnlinked ==
    /\ Mark /\ ~HasParent /\ di \in fs.empty
    /\ fs' = [fs EXCEPT !.mode[di] = "free"]
    /\ checked' = checked \union {di} /\ NextDir
    /\ NoQuery /\ UNCHANGED <<links, dotdot_parent, lf_dip>>

AttachUnlinked ==
    /\ Mark /\ ~HasParent
    /\ \E yes \in BOOLEAN :
        /\ yes => LfPossible
        /\ Query(yes /\ di \notin fs.empty, di)
        /\ IF yes
           THEN /\ fs' = FsAdded(di) /\ links' = LinksAdded(di) /\ lf_dip' = Lf
                /\ checked' = checked \union {di, Lf}
           ELSE checked' = checked \union {di} /\ UNCHANGED <<fs, links, lf_dip>>
    /\ NextDir /\ UNCHANGED dotdot_parent

-----------------------------------------------------------------------------
(* pass4: three lists, each with what has no link and what has the wrong   *)
(* count.                                                                  *)
InPass4At ==
    /\ InPass4 /\ at # None /\ ~Stopped
    /\ at' = NextOf(ListOf(pc), at)
    /\ UNCHANGED <<treewalk_parent, dotdot_parent, flags, pc, di, name, cut>>

IsUnlinked ==
    IF pc = "pass4_nlink1" THEN at \notin links.clink1map ELSE links.counted_links[at] = 0

(* In nlink1map the count is "faked out to be 1".                          *)
CountOf(l) == IF pc = "pass4_nlink1" THEN 1 ELSE l.counted_links[at]

LinkCountRight ==
    /\ InPass4At /\ ~IsUnlinked
    /\ pc # "pass4_nlink1" => links.di_nlink[at] = links.counted_links[at]
    /\ NoQuery /\ UNCHANGED <<fs, links, checked, lf_dip, lf_addition>>

HandleInconsist ==
    /\ InPass4At /\ ~IsUnlinked
    /\ pc # "pass4_nlink1" /\ links.di_nlink[at] # links.counted_links[at]
    /\ \E yes \in BOOLEAN :
        /\ Query(yes, at)
        /\ IF yes THEN /\ fs' = [fs EXCEPT !.nlink[at] = links.counted_links[at]]
                       /\ links' = [links EXCEPT !.di_nlink[at] = links.counted_links[at]]
                  ELSE UNCHANGED <<fs, links>>
    /\ UNCHANGED <<checked, lf_dip, lf_addition>>

(* handle_unlinked.  What is free already is asked about and stays free.   *)
UnlinkedIsFree ==
    /\ InPass4At /\ IsUnlinked /\ ~InUse(at)
    /\ NoQuery /\ UNCHANGED <<fs, links, checked, lf_dip, lf_addition>>

ClearUnlinked ==
    /\ InPass4At /\ IsUnlinked /\ InUse(at) /\ at \in fs.empty
    /\ fs' = [fs EXCEPT !.mode[at] = "free"]
    /\ NoQuery /\ UNCHANGED <<links, checked, lf_dip, lf_addition>>

RelinkUnlinked ==
    /\ InPass4At /\ IsUnlinked /\ InUse(at)
    /\ \E yes \in BOOLEAN :
        /\ yes => LfPossible
        /\ Query(yes /\ at \notin fs.empty, at)
        /\ IF yes
           THEN /\ links' = LinksAdded(at)
                /\ fs' = [FsAdded(at) EXCEPT !.nlink[at] = CountOf(LinksAdded(at))]
                /\ lf_dip' = Lf /\ checked' = checked \union {Lf}
                /\ lf_addition' = TRUE
           ELSE UNCHANGED <<fs, links, checked, lf_dip, lf_addition>>

(* Yes was said to an addition to lost+found, there is none, and no block  *)
(* is free for one: fsck exits.                                            *)
InNeedOfLf(i) ==
    /\ at # None /\ ~Stopped
    /\ \/ i = di /\ pc = "pass3" /\ di \notin checked \union {Root} /\ ~HasParent
       \/ i = at /\ InPass4 /\ IsUnlinked /\ InUse(at)

ExitWithoutLf ==
    /\ ~LfPossible
    /\ \E i \in {at, di} : InNeedOfLf(i) /\ Query(i \notin fs.empty, i)
    /\ Start("done") /\ cut' = cut \union {ThisPass} \union LaterPasses
    /\ UNCHANGED <<fs, links, dirinfo, lf_dip, flags>>

-----------------------------------------------------------------------------
Dentry(n) ==
    \/ DentryToNoInode(n) \/ DentryWrongFormal(n) \/ DentryToSingle(n) \/ DentryToMulti(n)
    \/ DentryDot(n) \/ DentryDotDot(n) \/ DentryToDir(n)

Pass2 == (\E n \in Names : Dentry(n)) \/ EndOfDir
Pass3 == Connected3 \/ ParentsAgree3 \/ AttachDotDot \/ RemoveUnlinked \/ AttachUnlinked
Pass4 ==
    \/ LinkCountRight \/ HandleInconsist
    \/ UnlinkedIsFree \/ ClearUnlinked \/ RelinkUnlinked

Fsck == Pass2 \/ Pass3 \/ Pass4 \/ ExitWithoutLf \/ LeavePass \/ EndPass
Next ==
    \/ Fsck
    \/ \E choice \in {"skip", "abort"} : Interrupt(choice)
    \/ pc = "done" /\ UNCHANGED vars

Spec == Init /\ [][Next]_vars

-----------------------------------------------------------------------------
Passes == {"pass2", "pass3", "pass4_inodes", "pass4_dirs", "pass4_nlink1", "done"}

TypeOK ==
    /\ GoodImage(fs)
    /\ links.dirtree \subseteq Addrs /\ links.outdated \subseteq links.dirtree
    /\ links.inodetree \subseteq Addrs \ links.nlink1map
    /\ links.nlink1map \subseteq Addrs /\ links.clink1map \subseteq Addrs
    /\ links.di_nlink \in [Addrs -> Nat] /\ links.counted_links \in [Addrs -> Nat]
    /\ treewalk_parent \in [Addrs -> Addrs \union {None}]
    /\ dotdot_parent \in [Addrs -> Addrs \union {None}]
    /\ checked \subseteq Addrs /\ lf_dip \in Addrs \union {None}
    /\ skip_this_pass \in BOOLEAN /\ fsck_abort \in BOOLEAN
    /\ pc \in Passes /\ at \in Addrs \union {None} /\ di \in Addrs \union {None}
    /\ name \in Names \union {0} /\ lf_addition \in BOOLEAN
    /\ cut \subseteq {"pass2", "pass3", "pass4"} /\ declined \subseteq Addrs
    /\ user \in 0 .. MaxUser

(* The links there are to a dinode.                                        *)
DirsInUse == { d \in Addrs : fs.mode[d] = "dir" }
LinksTo(i) ==
    UNION { {d} \X { n \in DOMAIN fs.ents[d] : fs.ents[d][n].to = i } : d \in DirsInUse }
HoldersOf(i) == { p[1] : p \in { q \in LinksTo(i) : q[2] \notin {Dot, DotDot} } }

(* After a pass2 that ran to its end what is counted is what there is,     *)
(* through every removal, every new ".." and everything put in lost+found. *)
CountsAreLinks ==
    pc # "pass2" /\ "pass2" \notin cut =>
        \A i \in Addrs \ declined :
            InUse(i) /\ i \notin links.outdated => Counted(links, i) = Cardinality(LinksTo(i))

(* A run that was not cut short leaves every dinode it was let correct     *)
(* with as many links as its dinode says, and with one at least.           *)
(* Not so for a directory that was its own parent: add_dotdot has its      *)
(* count decremented in one copy of the dinode and written from another.   *)
LinkCountsRight ==
    pc = "done" /\ cut = {} =>
        \A i \in Addrs \ declined :
            InUse(i) /\ i \notin links.outdated /\ dotdot_parent[i] # i =>
                fs.nlink[i] = Cardinality(LinksTo(i)) /\ fs.nlink[i] > 0

(* After pass3 every directory is held by one directory alone, which is    *)
(* the one its ".." names.  (lost+found counts as connected when found.)   *)
HeldByItsParent ==
    pc \notin {"pass2", "pass3"} /\ cut \intersect {"pass2", "pass3"} = {} =>
        \A d \in DirsInUse \ ({Root, lf_dip} \union declined) :
            DotDot \in DOMAIN fs.ents[d] /\ HoldersOf(d) = {fs.ents[d][DotDot].to}

(* Going up from a directory, pass3 comes only to directories it has not   *)
(* come to before, until it is at one that has been checked: directories   *)
(* whose parents form a cycle do not keep it.                              *)
WalkAdvances ==
    [][ pc = "pass3" /\ pc' = "pass3" /\ at' = at /\ di' # di =>
          di \notin checked /\ di \in checked' ]_vars
=============================================================================
