--------------------------- MODULE JournalReplay ---------------------------
(***************************************************************************)
(* The journals of a GFS2 cluster block by block, and their replay by      *)
(* fsck.gfs2 (fs_recovery.c: replay_journals, gfs2_recover_journal,        *)
(* foreach_descriptor and the three lo_scan_elements).                     *)
(*                                                                         *)
(* The nodes' side is the kernel's, which is not part of the repository:   *)
(* Commit, Flush, WriteBack, Acquire, Unmount and Mount are modelled from  *)
(* what replay relies on and from doc/journaling.txt.  fsck's side is one  *)
(* action per step that touches the disk or reads the journal.             *)
(*                                                                         *)
(* The head of a journal is taken to be its header with the highest        *)
(* number: JournalHead shows lgfs2_find_jhead and the sequence check find  *)
(* exactly that one on journals that are Legit, and JournalsLegit here     *)
(* shows that the journals are.                                            *)
(***************************************************************************)
EXTENDS JournalBlocks, Sequences, SequencesExt

CONSTANTS
    NJournals,      \* md.journals
    FsBlocks,       \* the blocks of the file system that are journaled
    JData,          \* those of them that are journaled data, not metadata
    Situations      \* what may happen, and how often: see `bound'

Journals == 1 .. NJournals

(* A journal has room for two headers (GFS2_MIN_JSIZE is 8 MB), and there    *)
(* is a greatest version: a behaviour is bounded.                            *)
ASSUME ReplayAssumption ==
    /\ NJournals \in Nat \ {0} /\ JdBlocks > 1
    /\ IsFiniteSet(FsBlocks) /\ JData \subseteq FsBlocks
    /\ \A s \in Situations :
         /\ s.blocks \subseteq FsBlocks /\ s.start \subseteq Blocks
         /\ s.modes \subseteq {"n", "y", "ask", "unsafe"}
         /\ s.ver \in Nat \ {0} /\ s.mounts \in Nat /\ s.runs \in Nat /\ s.damage \in Nat
         /\ s.torn \in Nat
    /\ \E s \in Situations : \A t \in Situations : t.ver <= s.ver

VARIABLES
    jlog,       \* jlog[j][p]: block p of journal j
    disk,       \* the blocks in place
    up,         \* the nodes run
    ver,        \* versions last committed
    owner,      \* the node that holds the block's lock
    txns,       \* txns[j]: the transactions in the active region of j's log
    pend,       \* history: what the active region of j holds for a block
    lost,       \* history: blocks whose last update went with a cleared journal
    pc,         \* where replay_journals is; "off" when fsck does not run
    jid,        \* i, the journal being looked at
    pass, start, elem,  \* foreach_descriptor: pass, start; element of the descriptor
    revoked,    \* sd_revoke_list: rr_where of the blocks on it
    mode,       \* opts and preen
    error,      \* error of replay_journals
    nclean,     \* *clean_journals
    failed,     \* history: journals whose recovery failed in this run
    badfile,    \* journals whose file check_metatree finds corrupt
    mounts, runs, damage,
    bound       \* the situation of this behaviour, chosen at the start:
                \*   blocks, the blocks of the file system that change;
                \*   start, the numbers write_journal's random() may start from;
                \*   modes, how fsck is called: "n", "y", "ask", "unsafe";
                \*   and bounds: ver, the version of a block; mounts, after a
                \*   check; runs of fsck between two mounts; damage, journal
                \*   blocks damaged while the nodes are down; torn, blocks of
                \*   the transaction a crash cut short

nodeVars == <<ver, owner, txns>>
fsckVars == <<pc, jid, pass, start, elem, revoked, mode, error, nclean, failed>>
boundVars == <<badfile, mounts, runs, damage, bound>>
vars == <<jlog, disk, up, nodeVars, pend, lost, fsckVars, boundVars>>

-----------------------------------------------------------------------------
(* Blocks of the journal.  A logged metadata block starts with GFS2_MAGIC;  *)
(* a block of journaled data that happens to start with it is escaped: it   *)
(* is logged without, and its descriptor says so.                           *)

LH(s, t, u) == [kind |-> "LH", seq |-> s, tail |-> t, unmount |-> u]
LD(jd, es) == [kind |-> "LD", jdata |-> jd, elems |-> es]
RV(bs) == [kind |-> "RV", blks |-> bs]
Data(v, m) == [kind |-> "DATA", ver |-> v, magic |-> m]
Junk == [kind |-> "JUNK"]

Content(b, v) == [ver |-> v, magic |-> b \notin JData \/ v % 2 = 0]
Escaped(b, v) == b \in JData /\ Content(b, v).magic
Logged(b, v) == Data(v, b \notin JData)

(* what JournalHead sees of a journal *)
View(j) == [p \in Blocks |->
    IF jlog[j][p].kind = "LH"
      THEN [mapped |-> TRUE, seq |-> jlog[j][p].seq, hash |-> jlog[j][p].seq]
      ELSE [mapped |-> TRUE, seq |-> 0, hash |-> 1]]
IsLH(j, p) == jlog[j][p].kind = "LH"
HeadPos(j) == CHOOSE p \in Blocks :
    IsLH(j, p) /\ \A q \in Blocks : IsLH(j, q) => jlog[j][q].seq <= jlog[j][p].seq
HeadOf(j) == jlog[j][HeadPos(j)]
Ahead(p, n) == (p + n) % JdBlocks

(* write_journal: clean headers all over, numbered round from a random start *)
FreshJournal(s) == [p \in Blocks |-> LH((s + p) % JdBlocks, 0, TRUE)]

Init ==
    /\ bound \in Situations
    /\ \E s \in bound.start : jlog = [j \in Journals |-> FreshJournal(s)]
    /\ ver = [b \in FsBlocks |-> 1]
    /\ disk = [b \in FsBlocks |-> Content(b, 1)]
    /\ up = TRUE
    /\ owner = [b \in FsBlocks |-> 1]
    /\ txns = [j \in Journals |-> <<>>]
    /\ pend = [j \in Journals |-> [b \in FsBlocks |-> 0]]
    /\ lost = {}
    /\ pc = "off" /\ jid = 1 /\ pass = 0 /\ start = 0 /\ elem = 1 /\ revoked = <<>>
    /\ mode = "y" /\ error = 0 /\ nclean = 0 /\ failed = {}
    /\ badfile = {} /\ mounts = 0 /\ runs = 0 /\ damage = 0

-----------------------------------------------------------------------------
(* The nodes (external).  A transaction is a descriptor with the blocks it  *)
(* logs, a descriptor of revokes, and the header that commits it.  The tail *)
(* in the header is the first block of a transaction such that all before   *)
(* it are wholly in place.                                                  *)

Part(jd, S) ==
    IF S = {} THEN <<>>
    ELSE LET bs == SetToSeq(S)
         IN  << LD(jd, [i \in DOMAIN bs |-> [blk |-> bs[i], esc |-> Escaped(bs[i], ver[bs[i]] + 1)]]) >>
             \o [i \in DOMAIN bs |-> Logged(bs[i], ver[bs[i]] + 1)]

Body(S, R) ==
    Part(TRUE, S \intersect JData) \o Part(FALSE, S \ JData)
    \o (IF R = {} THEN <<>> ELSE <<RV(R)>>)

(* blocks a log write may use: it never runs into the active region *)
FreeBlocks(j) ==
    IF HeadOf(j).unmount THEN JdBlocks - 1
    ELSE (HeadOf(j).tail - Ahead(HeadPos(j), 1)) % JdBlocks

(* the log reserve leaves a header besides the head in place *)
LeavesAHeader(j, n) ==
    \E p \in Blocks : /\ jlog[j][p].kind = "LH" /\ p # HeadPos(j)
                      /\ (p - Ahead(HeadPos(j), 1)) % JdBlocks >= n

(* what the tail may be moved up to: transactions wholly in place may be      *)
(* dropped from the front, at once or later                                  *)
MayKeep(q) == { SubSeq(q, n + 1, Len(q)) :
                  n \in { m \in 0 .. Len(q) : \A i \in 1 .. m : q[i].need = {} } }

WriteLog(j, pos, recs) ==
    jlog' = [jlog EXCEPT ![j] = [p \in Blocks |->
               LET i == ((p - pos) % JdBlocks) + 1
               IN  IF i \in DOMAIN recs THEN recs[i] ELSE @[p]]]

Commit(j, S, R) ==
    /\ up /\ S \union R \subseteq bound.blocks
    /\ \A b \in S : owner[b] = j /\ ver[b] < bound.ver
    /\ \A b \in R \ S : pend[j][b] # 0 /\ disk[b] = Content(b, ver[b])
    /\ S \intersect R = {}
    /\ \E kept \in MayKeep(txns[j]) :
       LET pos == Ahead(HeadPos(j), 1)
           body == Body(S, R)
           tail == IF kept = <<>> THEN pos ELSE kept[1].first
           now == IF body = <<>> THEN kept
                  ELSE Append(kept, [first |-> pos, logged |-> S, need |-> S])
       IN  /\ body # <<>> \/ (~HeadOf(j).unmount /\ kept # txns[j])
           /\ Len(body) + 1 <= FreeBlocks(j) /\ LeavesAHeader(j, Len(body) + 1)
           /\ WriteLog(j, pos, body \o << LH(HeadOf(j).seq + 1, tail, FALSE) >>)
           /\ txns' = [txns EXCEPT ![j] = now]
           /\ ver' = [b \in FsBlocks |-> IF b \in S THEN ver[b] + 1 ELSE ver[b]]
           /\ pend' = [pend EXCEPT ![j] = [b \in FsBlocks |->
                IF b \in S THEN ver[b] + 1
                ELSE IF b \in R \/ \A i \in DOMAIN now : b \notin now[i].logged THEN 0
                ELSE @[b]]]
    /\ UNCHANGED <<disk, up, owner, lost, fsckVars, boundVars>>

(* a committed block goes to its place and leaves the first AIL list *)
InPlace(q, b) == [i \in DOMAIN q |-> [q[i] EXCEPT !.need = @ \ {b}]]
WriteBack(b) ==
    LET j == owner[b]
    IN  /\ up
        /\ \E i \in DOMAIN txns[j] : b \in txns[j][i].need
        /\ disk' = [disk EXCEPT ![b] = Content(b, ver[b])]
        /\ txns' = [txns EXCEPT ![j] = InPlace(@, b)]
        /\ UNCHANGED <<jlog, up, ver, owner, pend, lost, fsckVars, boundVars>>

(* "A block's lock passes on when the block is in place and revoked in, or   *)
(* gone from, the journal of the node that held it." (external)              *)
MayPassUnrevoked(b) == disk[b] = Content(b, ver[b])
MayPass(b) == disk[b] = Content(b, ver[b]) /\ pend[owner[b]][b] = 0
Acquire(j, b) ==
    /\ up /\ b \in bound.blocks /\ owner[b] # j /\ MayPass(b)
    /\ owner' = [owner EXCEPT ![b] = j]
    /\ UNCHANGED <<jlog, disk, up, ver, txns, pend, lost, fsckVars, boundVars>>

(* everything in place, then a header with the unmount flag *)
Unmount(j) ==
    /\ up /\ ~HeadOf(j).unmount
    /\ \A i \in DOMAIN txns[j] : txns[j][i].need = {}
    /\ LET pos == Ahead(HeadPos(j), 1)
       IN  WriteLog(j, pos, << LH(HeadOf(j).seq + 1, pos, TRUE) >>)
    /\ FreeBlocks(j) >= 1 /\ LeavesAHeader(j, 1)
    /\ txns' = [txns EXCEPT ![j] = <<>>]
    /\ pend' = [pend EXCEPT ![j] = [b \in FsBlocks |-> 0]]
    /\ UNCHANGED <<disk, up, ver, owner, lost, fsckVars, boundVars>>

(* All nodes stop.  One of them may have been writing a transaction: any of  *)
(* its blocks but the header may have reached the journal.                   *)
Crash ==
    /\ up /\ up' = FALSE
    /\ \/ UNCHANGED jlog
       \/ \E j \in Journals : \E T \in SUBSET (1 .. FreeBlocks(j) - 1) :
            /\ T # {} /\ Cardinality(T) <= bound.torn
            /\ LeavesAHeader(j, CHOOSE n \in T : \A m \in T : m <= n)
            /\ jlog' = [jlog EXCEPT ![j] = [p \in Blocks |->
                 IF (p - HeadPos(j)) % JdBlocks \in T THEN Junk ELSE @[p]]]
    /\ txns' = [j \in Journals |-> <<>>]
    /\ UNCHANGED <<disk, ver, owner, pend, lost, fsckVars, boundVars>>

(* a block of a journal goes bad so that it shows: its magic is gone *)
Damage(j, p) ==
    /\ ~up /\ pc = "off" /\ damage < bound.damage
    /\ \/ jlog[j][p].kind \in {"LD", "RV"}
       \/ jlog[j][p].kind = "DATA" /\ jlog[j][p].magic
    /\ jlog' = [jlog EXCEPT ![j][p] = IF @.kind = "DATA" THEN [@ EXCEPT !.magic = FALSE] ELSE Junk]
    /\ damage' = damage + 1
    /\ UNCHANGED <<disk, up, nodeVars, pend, lost, fsckVars, badfile, mounts, runs, bound>>

(* the file of a journal goes bad *)
DamageFile(j) ==
    /\ ~up /\ pc = "off" /\ damage < bound.damage
    /\ badfile' = badfile \union {j} /\ damage' = damage + 1
    /\ UNCHANGED <<jlog, disk, up, nodeVars, pend, lost, fsckVars, mounts, runs, bound>>

(* the check is over and the nodes mount what it left *)
Mount ==
    /\ ~up /\ pc \in {"off", "done"} /\ mounts < bound.mounts
    /\ badfile = {} /\ \A j \in Journals : HeadOf(j).unmount
    /\ up' = TRUE /\ mounts' = mounts + 1 /\ runs' = 0
    /\ ver' = [b \in FsBlocks |-> disk[b].ver] /\ lost' = {}
    /\ pc' = "off" /\ failed' = {} /\ error' = 0
    /\ UNCHANGED <<jlog, disk, owner, txns, pend, jid, pass, start, elem, revoked, mode,
                   nclean, badfile, damage, bound>>

-----------------------------------------------------------------------------
(* fsck.gfs2: replay_journals and gfs2_recover_journal *)

Reset == /\ jid' = 1 /\ pass' = 0 /\ start' = 0 /\ elem' = 1 /\ revoked' = <<>>
         /\ nclean' = 0 /\ failed' = {}

StartFsck(m) ==
    /\ ~up /\ pc \in {"off", "done"} /\ runs < bound.runs
    /\ pc' = "look" /\ mode' = m /\ error' = 0 /\ runs' = runs + 1
    /\ Reset
    /\ UNCHANGED <<jlog, disk, up, nodeVars, pend, lost, badfile, mounts, damage, bound>>

(* killed at any point: what it wrote stays, what it knew is gone *)
FsckCrash ==
    /\ pc \notin {"off", "done"} /\ runs < bound.runs
    /\ pc' = "off" /\ error' = 0
    /\ Reset
    /\ UNCHANGED <<jlog, disk, up, nodeVars, pend, lost, mode, boundVars>>

(* *was_clean of a journal that was not: set at the start, or left from the   *)
(* journal before                                                            *)
WasDirtyUnset == IF nclean > 0 THEN 1 ELSE 0
WasDirty == 0

(* the return of gfs2_recover_journal; error is overwritten each time *)
Recovered(err, clean) ==
    /\ error' = err
    /\ nclean' = nclean + clean
    /\ failed' = IF err = 0 THEN failed ELSE failed \union {jid}
    /\ IF jid = NJournals THEN pc' = "done" /\ UNCHANGED jid
                          ELSE pc' = "look" /\ jid' = jid + 1
    /\ pass' = 0 /\ start' = 0 /\ elem' = 1 /\ revoked' = <<>>

(* log_err "Failed", or the user would rather not replay: the question       *)
(* whether to clear the journal                                              *)
AskClear(err) ==
    /\ pc' = "clear" /\ error' = err
    /\ pass' = 0 /\ start' = 0 /\ elem' = 1 /\ revoked' = <<>>
    /\ UNCHANGED <<jid, nclean, failed>>

(* check_metatree finds the journal's file corrupt: it is left to pass1, and  *)
(* "bad journal is non-fatal"                                                *)
SkipBadFile ==
    /\ error' = 0
    /\ IF jid = NJournals THEN pc' = "done" /\ UNCHANGED jid
                          ELSE pc' = "look" /\ jid' = jid + 1
    /\ UNCHANGED <<nclean, failed, pass, start, elem, revoked>>

(* query: -y and -p/-a answer yes, -n no *)
Yes == mode \in {"y", "unsafe", "ask"}
No == mode \in {"n", "ask"}
PreenIsSafe == mode # "unsafe"

StartReplay ==
    /\ pc' = "scan" /\ pass' = 0 /\ start' = HeadOf(jid).tail
    /\ UNCHANGED <<jid, elem, revoked, error, nclean, failed>>

Look ==
    /\ pc = "look"
    /\ \/ jid \in badfile /\ SkipBadFile
       \/ jid \notin badfile /\ HeadOf(jid).unmount /\ Recovered(0, 1)
       \/ /\ jid \notin badfile /\ ~HeadOf(jid).unmount
          /\ \/ mode = "n" /\ Recovered(0, WasDirty)
             \/ ~PreenIsSafe /\ AskClear(8)
             \/ mode # "n" /\ PreenIsSafe /\ ((Yes /\ StartReplay) \/ (No /\ AskClear(0)))
    /\ UNCHANGED <<jlog, disk, up, nodeVars, pend, lost, mode, boundVars>>

(* gfs2_revoke_check.  The list keeps the last place a block was revoked at. *)
RevokeCheckNoWrap(b, where) ==
    b \in DOMAIN revoked /\ HeadOf(jid).tail < where /\ where < revoked[b]
RevokeCheck(b, where) ==
    /\ b \in DOMAIN revoked
    /\ LET wrap == revoked[b] < HeadOf(jid).tail
           a == HeadOf(jid).tail < where
           c == where < revoked[b]
       IN  IF wrap THEN a \/ c ELSE a /\ c

(* gfs2_revoke_add for every block of the descriptor *)
RevokeAdd(S) == revoked' = [b \in DOMAIN revoked \union S |->
                              IF b \in S THEN start ELSE revoked[b]]

(* over a header *)
PastHeaderStuck(where) == where
PastHeader(where) == IncrBlk(where)

(* from a descriptor over the ld_length blocks that are its own *)
NextDescriptor(where, n) == Ahead(where, n + 1)

Cur == jlog[jid][start]

(* the end of a pass; after the second the journal is marked clean *)
EndOfPass ==
    /\ pc = "scan" /\ start = HeadPos(jid)
    /\ IF pass = 0 THEN /\ pass' = 1 /\ start' = HeadOf(jid).tail /\ UNCHANGED pc
                   ELSE pc' = "clean" /\ UNCHANGED <<pass, start>>
    /\ UNCHANGED <<jlog, disk, up, nodeVars, pend, lost, jid, elem, revoked, mode, error,
                   nclean, failed, boundVars>>

(* foreach_descriptor: headers are stepped over, revokes taken in pass 0,    *)
(* blocks replayed in pass 1; anything else is an error                      *)
ForeachDescriptor ==
    /\ pc = "scan" /\ start # HeadPos(jid)
    /\ \/ /\ Cur.kind = "LH"
          /\ start' = PastHeader(start)
          /\ UNCHANGED <<pc, jid, pass, elem, revoked, error, nclean, failed>>
       \/ /\ Cur.kind = "RV" /\ pass = 1
          /\ start' = NextDescriptor(start, 0)
          /\ UNCHANGED <<pc, jid, pass, elem, revoked, error, nclean, failed>>
       \/ /\ Cur.kind = "RV" /\ pass = 0
          /\ RevokeAdd(Cur.blks)
          /\ start' = NextDescriptor(start, 0)
          /\ UNCHANGED <<pc, jid, pass, elem, error, nclean, failed>>
       \/ /\ Cur.kind = "LD" /\ pass = 0
          /\ start' = NextDescriptor(start, Len(Cur.elems))
          /\ UNCHANGED <<pc, jid, pass, elem, revoked, error, nclean, failed>>
       \/ /\ Cur.kind = "LD" /\ pass = 1
          /\ pc' = "elems" /\ elem' = 1
          /\ UNCHANGED <<jid, pass, start, revoked, error, nclean, failed>>
       \/ Cur.kind \in {"DATA", "JUNK"} /\ AskClear(5)
    /\ UNCHANGED <<jlog, disk, up, nodeVars, pend, lost, mode, boundVars>>

(* One block of a descriptor: buf_lo_scan_elements and                       *)
(* databuf_lo_scan_elements.  A metadata block without its magic is an error *)
(* and is not written; a block of data is unescaped.                         *)
UnescapeNever(content, esc) == [ver |-> content.ver, magic |-> content.magic]
Unescape(content, esc) == [ver |-> content.ver, magic |-> esc \/ content.magic]

ReplayElement ==
    /\ pc = "elems" /\ elem <= Len(Cur.elems)
    /\ LET e == Cur.elems[elem]
           where == Ahead(start, elem)
           copy == jlog[jid][where]
       IN  \/ /\ RevokeCheck(e.blk, where)
              /\ elem' = elem + 1
              /\ UNCHANGED <<disk, pc, jid, pass, start, revoked, error, nclean, failed>>
           \/ /\ ~RevokeCheck(e.blk, where)
              /\ ~Cur.jdata /\ ~copy.magic
              /\ AskClear(5) /\ UNCHANGED disk
           \/ /\ ~RevokeCheck(e.blk, where)
              /\ Cur.jdata \/ copy.magic
              /\ disk' = [disk EXCEPT ![e.blk] = Unescape(copy, e.esc)]
              /\ elem' = elem + 1
              /\ UNCHANGED <<pc, jid, pass, start, revoked, error, nclean, failed>>
    /\ UNCHANGED <<jlog, up, nodeVars, pend, lost, mode, boundVars>>

EndOfElements ==
    /\ pc = "elems" /\ elem > Len(Cur.elems)
    /\ pc' = "scan" /\ elem' = 1 /\ start' = NextDescriptor(start, Len(Cur.elems))
    /\ UNCHANGED <<jlog, disk, up, nodeVars, pend, lost, jid, pass, revoked, mode, error,
                   nclean, failed, boundVars>>

(* lgfs2_clean_journal: a header with the unmount flag after the head *)
SameSeqHeader(h) == LH(h.seq, 0, TRUE)
CleanHeader(h) == LH(h.seq + 1, 0, TRUE)
CleanJournal ==
    /\ pc = "clean"
    /\ WriteLog(jid, Ahead(HeadPos(jid), 1), << CleanHeader(HeadOf(jid)) >>)
    /\ Recovered(0, WasDirty)
    /\ pend' = [pend EXCEPT ![jid] = [b \in FsBlocks |-> 0]]
    /\ UNCHANGED <<disk, up, nodeVars, lost, mode, boundVars>>

ClearJournal ==
    /\ pc = "clear" /\ Yes
    /\ \E s \in bound.start : jlog' = [jlog EXCEPT ![jid] = FreshJournal(s)]
    /\ Recovered(0, WasDirty)
    /\ lost' = lost \union {b \in FsBlocks : pend[jid][b] # 0}
    /\ pend' = [pend EXCEPT ![jid] = [b \in FsBlocks |-> 0]]
    /\ UNCHANGED <<disk, up, nodeVars, mode, boundVars>>

LeaveJournal ==
    /\ pc = "clear" /\ No
    /\ Recovered(error, WasDirty)
    /\ UNCHANGED <<jlog, disk, up, nodeVars, pend, lost, mode, boundVars>>

Finished == ~up /\ pc \in {"off", "done"} /\ UNCHANGED vars

FsckStep ==
    \/ Look \/ EndOfPass \/ ForeachDescriptor \/ ReplayElement \/ EndOfElements
    \/ CleanJournal \/ ClearJournal \/ LeaveJournal

Next ==
    \/ \E j \in Journals, S, R \in SUBSET FsBlocks : Commit(j, S, R)
    \/ \E b \in FsBlocks : WriteBack(b)
    \/ \E j \in Journals, b \in FsBlocks : Acquire(j, b)
    \/ \E j \in Journals : Unmount(j)
    \/ Crash \/ Mount
    \/ \E j \in Journals, p \in Blocks : Damage(j, p)
    \/ \E j \in Journals : DamageFile(j)
    \/ \E m \in bound.modes : StartFsck(m)
    \/ FsckCrash \/ FsckStep
    \/ Finished

Spec == Init /\ [][Next]_vars

(* fsck, once started, runs on *)
FairSpec == Spec /\ WF_vars(FsckStep)

-----------------------------------------------------------------------------
TypeOK ==
    /\ up \in BOOLEAN
    /\ ver \in [FsBlocks -> 1 .. bound.ver]
    /\ disk \in [FsBlocks -> [ver : 1 .. bound.ver, magic : BOOLEAN]]
    /\ owner \in [FsBlocks -> Journals]
    /\ pend \in [Journals -> [FsBlocks -> 0 .. bound.ver]]
    /\ pc \in {"off", "look", "scan", "elems", "clean", "clear", "done"}
    /\ jid \in Journals /\ start \in Blocks /\ pass \in {0, 1}
    /\ \A j \in Journals, p \in Blocks :
         jlog[j][p].kind \in {"LH", "LD", "RV", "DATA", "JUNK"}
    /\ mode \in {"n", "y", "ask", "unsafe"} /\ error \in {0, 5, 8}

(* Every journal is one the head search is right about, whatever was torn,  *)
(* replayed, cleared or marked clean (lgfs2_find_jhead's precondition).      *)
JournalsLegit == \A j \in Journals : Legit(View(j))

(* When fsck has found every journal clean or made it clean, every block is  *)
(* as it was last committed, unless it went with a cleared journal: revoked  *)
(* blocks were not written over, escaped data is whole again, and a killed   *)
(* fsck can simply be run again.                                             *)
ReplayRestoresCommitted ==
    ~up /\ (\A j \in Journals : HeadOf(j).unmount) =>
      \A b \in FsBlocks : b \notin lost => disk[b] = Content(b, ver[b])

(* *all_clean (initialize.c:1676), on which fsck -p skips the check: nothing *)
(* is left to replay and nothing was changed since the commits.              *)
AllCleanIsClean ==
    pc = "done" /\ nclean = NJournals =>
      \A b \in FsBlocks, j \in Journals :
        pend[j][b] = 0 /\ (b \notin lost => disk[b] = Content(b, ver[b]))

(* A started replay ends.                                                    *)
ReplayEnds == pc = "look" ~> pc \in {"off", "done"}

(* The promise: LogRecovery, with a block that is not what its version says  *)
(* standing for no version at all.                                           *)
DiskVersion == [b \in FsBlocks |-> IF disk[b] = Content(b, disk[b].ver) THEN disk[b].ver ELSE 0]
LR == INSTANCE LogRecovery WITH disk <- DiskVersion, mounted <- up,
        MaxVer <- Max({s.ver : s \in Situations})
ImplementsLogRecovery == LR!Spec
=============================================================================
