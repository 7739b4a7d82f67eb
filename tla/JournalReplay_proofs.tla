------------------------ MODULE JournalReplay_proofs ------------------------
(***************************************************************************)
(* Proofs about JournalReplay, for any number of journals of any size, any *)
(* blocks and any situations.  The first part is what a journal looks      *)
(* like, block by block, between its tail and its head:                    *)
(*                                                                         *)
(*   - the ring: headers get lower backwards from the head, so the head is *)
(*     what lgfs2_find_jhead takes for it, whatever a log write, a torn    *)
(*     transaction or a clean header puts after it;                        *)
(*   - the active region: descriptors with the blocks that are theirs,     *)
(*     revokes and headers, and what the replay of it leaves in a block;   *)
(*   - the transactions in it: where each starts, and what dropping some   *)
(*     from the front and appending one does to all of that.               *)
(*                                                                         *)
(* IInv, the inductive invariant, is put together from these.  The second  *)
(* part shows that every step of the nodes and of fsck.gfs2 keeps it and   *)
(* is one of LogRecovery, or none.  It follows that                        *)
(*                                                                         *)
(*   - the journals stay ones that lgfs2_find_jhead reads right;           *)
(*   - the journals block by block implement LogRecovery, so that what is  *)
(*     proved of it in LogRecovery_proofs holds here;                      *)
(*   - a file system with clean journals is as it was last committed.      *)
(***************************************************************************)
EXTENDS JournalReplay, FiniteSetTheorems, SequenceTheorems, TLAPS

-----------------------------------------------------------------------------
(* The state of a journal.  Headers get lower backwards from the head, and  *)
(* there is another one.                                                   *)
Kinds == {"LH", "LD", "RV", "DATA", "JUNK"}
GoodBlock(r) ==
    /\ r.kind \in Kinds
    /\ r.kind = "LH" => r.seq \in Nat /\ r.tail \in Blocks /\ r.unmount \in BOOLEAN
    /\ r.kind = "DATA" => r = Data(r.ver, r.magic)
GoodLog(J) == J = [p \in Blocks |-> J[p]] /\ \A p \in Blocks : GoodBlock(J[p])

(* The distance from t on to p, round the journal.                         *)
Dist(t, p) == (p - t) % JdBlocks
Ring(J, h) ==
    /\ h \in Blocks /\ J[h].kind = "LH"
    /\ \A p, q \in Blocks : J[p].kind = "LH" /\ J[q].kind = "LH" /\ Dist(p, h) < Dist(q, h)
            => J[q].seq < J[p].seq
    /\ \E q \in Blocks : q # h /\ J[q].kind = "LH"

(* The head of a journal, and its active region if it was not unmounted:   *)
(* the blocks from the tail up to the head, by their distance from the tail. *)
HeadIn(J) == CHOOSE p \in Blocks :
    J[p].kind = "LH" /\ \A q \in Blocks : J[q].kind = "LH" => J[q].seq <= J[p].seq
Open(J) == ~J[HeadIn(J)].unmount
LogTail(J) == J[HeadIn(J)].tail
Span(J) == Dist(LogTail(J), HeadIn(J))
Region(J) == [d \in 0 .. Span(J) - 1 |-> J[Ahead(LogTail(J), d)]]

(* What a descriptor says of a block that is logged after it: escaped or   *)
(* not, the block can be restored from its copy.                           *)
GoodElem(jdata, e, c, top) ==
    /\ e.blk \in FsBlocks /\ (jdata <=> e.blk \in JData)
    /\ c.kind = "DATA" /\ c.ver \in 1 .. top
    /\ (e.esc <=> Escaped(e.blk, c.ver))
    /\ c.magic \in BOOLEAN /\ (c.magic => e.blk \notin JData)

GoodRegion(W, L, top) ==
    \A d \in 0 .. L - 1 :
        /\ W[d].kind = "RV" => W[d].blks \subseteq FsBlocks
        /\ W[d].kind = "LD" =>
            /\ Len(W[d].elems) \in Nat /\ d + Len(W[d].elems) < L
            /\ \A i \in 1 .. Len(W[d].elems) : GoodElem(W[d].jdata, W[d].elems[i], W[d + i], top)

(* Damage to a descriptor shows.                                           *)
Sound(W, L) == \A d \in 0 .. L - 1 : W[d].kind # "JUNK"

(* Block b is logged at d + i; revoked at d.                               *)
Entry(W, L, b, d, i) ==
    /\ d \in 0 .. L - 1 /\ W[d].kind = "LD"
    /\ i \in 1 .. Len(W[d].elems) /\ W[d].elems[i].blk = b
Revokes(W, L, b, d) == d \in 0 .. L - 1 /\ W[d].kind = "RV" /\ b \in W[d].blks

LastEntry(W, L, b, d, i) ==
    /\ Entry(W, L, b, d, i)
    /\ \A e \in 0 .. L - 1, k \in 1 .. L : Entry(W, L, b, e, k) => e + k <= d + i
    /\ \A e \in 0 .. L - 1 : Revokes(W, L, b, e) => e < d

(* The replay leaves version v of b, or has nothing to write there.        *)
Replays(W, L, b, v) ==
    IF v = 0
    THEN \A d \in 0 .. L - 1, i \in 1 .. L :
            Entry(W, L, b, d, i) => \E e \in 0 .. L - 1 : d < e /\ Revokes(W, L, b, e)
    ELSE \E d \in 0 .. L - 1, i \in 1 .. L : LastEntry(W, L, b, d, i) /\ W[d + i].ver = v

(* The transactions q that make up the region, starting at off: what is    *)
(* logged from a transaction on is logged by it or a later one.            *)
GoodTxns(W, L, q, off) ==
    /\ \A k \in DOMAIN q : off[k] \in 0 .. L - 1
    /\ \A k, m \in DOMAIN q : k < m => off[k] < off[m]
    /\ \A k \in DOMAIN q : \A b \in q[k].logged :
        \E d \in 0 .. L - 1, i \in 1 .. L : Entry(W, L, b, d, i) /\ off[k] <= d
    /\ \A b \in FsBlocks, d \in 0 .. L - 1, i \in 1 .. L : Entry(W, L, b, d, i) =>
        \E k \in DOMAIN q : /\ b \in q[k].logged
                            /\ \A m \in DOMAIN q : off[m] <= d => m <= k
Offsets(t, q) == [k \in DOMAIN q |-> Dist(t, q[k].first)]

(* fsck has come to the distance c, with the list rv of revokes and the    *)
(* blocks dk in place.                                                     *)
RevokedUpTo(W, L, t, c, rv) ==
    /\ \A b \in DOMAIN rv : \E r \in 0 .. L - 1 :
        /\ r < c /\ rv[b] = Ahead(t, r) /\ Revokes(W, L, b, r)
        /\ \A d \in 0 .. L - 1 : d < c /\ Revokes(W, L, b, d) => d <= r
    /\ \A b \in FsBlocks, d \in 0 .. L - 1 : d < c /\ Revokes(W, L, b, d) => b \in DOMAIN rv
PlacedUpTo(W, L, p, c, dk) ==
    \A b \in FsBlocks, d \in 0 .. L - 1, i \in 1 .. L :
        p[b] # 0 /\ LastEntry(W, L, b, d, i) /\ d + i < c => dk[b].ver = p[b]

-----------------------------------------------------------------------------
(* The invariant.                                                          *)
TypesInv ==
    /\ bound \in Situations
    /\ up \in BOOLEAN
    /\ ver \in [FsBlocks -> 1 .. bound.ver]
    /\ owner \in [FsBlocks -> Journals]
    /\ pend \in [Journals -> [FsBlocks -> 0 .. bound.ver]]
    /\ jid \in Journals /\ pass \in {0, 1} /\ start \in Blocks /\ elem \in Nat
    /\ txns \in [Journals -> Seq([first : Blocks, logged : SUBSET FsBlocks, need : SUBSET FsBlocks])]
    /\ pc \in {"off", "look", "scan", "elems", "clean", "clear", "done"}

LogsInv ==
    /\ jlog = [j \in Journals |-> jlog[j]]
    /\ \A j \in Journals : GoodLog(jlog[j]) /\ Ring(jlog[j], HeadIn(jlog[j]))

DiskInv ==
    /\ disk = [b \in FsBlocks |-> disk[b]]
    /\ \A b \in FsBlocks : disk[b].ver \in 1 .. bound.ver /\ disk[b] = Content(b, disk[b].ver)

(* One journal, with what is pending in it, and its transactions if the    *)
(* nodes are up.                                                           *)
GoodJournal(J, p, q, isup, top) ==
    IF Open(J)
    THEN /\ GoodRegion(Region(J), Span(J), top)
         /\ Sound(Region(J), Span(J)) => \A b \in FsBlocks : Replays(Region(J), Span(J), b, p[b])
         /\ isup => /\ Sound(Region(J), Span(J))
                    /\ GoodTxns(Region(J), Span(J), q, Offsets(LogTail(J), q))
    ELSE q = << >> /\ \A b \in FsBlocks : p[b] = 0
RegionsInv == \A j \in Journals : GoodJournal(jlog[j], pend[j], txns[j], up, bound.ver)

(* The protocol of the locks.                                              *)
LocksInv ==
    /\ \A j \in Journals, b \in FsBlocks : pend[j][b] # 0 => owner[b] = j
    /\ \A j \in Journals : \A k \in DOMAIN txns[j] : txns[j][k].need \subseteq txns[j][k].logged
    /\ ~up => \A j \in Journals : txns[j] = << >>
    /\ up => \A b \in FsBlocks : disk[b] # Content(b, ver[b]) =>
                \E k \in DOMAIN txns[owner[b]] : b \in txns[owner[b]][k].need

FsckInv ==
    LET W == Region(jlog[jid])
        L == Span(jlog[jid])
        t == LogTail(jlog[jid])
        c == Dist(t, start)
    IN  /\ up => pc = "off"
        /\ pc = "look" => revoked = << >> /\ pass = 0
        /\ pc \in {"scan", "elems", "clean"} => Open(jlog[jid]) /\ c <= L
        /\ pc = "scan" /\ pass = 0 =>
            /\ \A d \in 0 .. L - 1 : d < c => W[d].kind # "JUNK"
            /\ RevokedUpTo(W, L, t, c, revoked)
        /\ pc = "scan" /\ pass = 1 =>
            Sound(W, L) /\ RevokedUpTo(W, L, t, L, revoked) /\ PlacedUpTo(W, L, pend[jid], c, disk)
        /\ pc = "elems" =>
            /\ Sound(W, L) /\ RevokedUpTo(W, L, t, L, revoked)
            /\ pass = 1 /\ c < L /\ W[c].kind = "LD" /\ elem \in 1 .. Len(W[c].elems) + 1
            /\ PlacedUpTo(W, L, pend[jid], c + elem, disk)
        /\ pc = "clean" => Sound(W, L) /\ PlacedUpTo(W, L, pend[jid], L, disk)

(* What *clean_journals counts.                                            *)
CleanInv ==
    /\ pc \notin {"off", "done"} =>
        nclean \in 0 .. jid - 1 /\ (nclean = jid - 1 => \A i \in 1 .. jid - 1 : ~Open(jlog[i]))
    /\ pc = "done" =>
        nclean \in 0 .. NJournals /\ (nclean = NJournals => \A i \in Journals : ~Open(jlog[i]))

IInv == TypesInv /\ LogsInv /\ DiskInv /\ RegionsInv /\ LocksInv /\ FsckInv /\ CleanInv

-----------------------------------------------------------------------------
(* Going round the journal.                                                *)
LEMMA SizeType == JdBlocks \in Nat /\ JdBlocks > 1 /\ Blocks = 0 .. JdBlocks - 1
  BY JdBlocksAssumption, ReplayAssumption DEF Blocks

LEMMA ModValue ==
  ASSUME NEW a \in Int
  PROVE  /\ 0 <= a /\ a < JdBlocks => a % JdBlocks = a
         /\ JdBlocks <= a /\ a < JdBlocks + JdBlocks => a % JdBlocks = a - JdBlocks
         /\ -JdBlocks <= a /\ a < 0 => a % JdBlocks = a + JdBlocks
         /\ a % JdBlocks \in Blocks
<1>1. PICK n \in Nat : n = JdBlocks /\ n > 1 /\ Blocks = 0 .. n - 1
  BY SizeType
<1>2. a % n \in 0 .. n - 1
  BY <1>1
<1>3. 0 <= a /\ a < n => a % n = a
  BY <1>1
<1>4. n <= a /\ a < n + n => a % n = a - n
  BY <1>1
<1>5. -n <= a /\ a < 0 => a % n = a + n
  BY <1>1
<1>6. QED
  BY <1>1, <1>2, <1>3, <1>4, <1>5

LEMMA AheadValue ==
  ASSUME NEW p \in Blocks, NEW n \in 0 .. JdBlocks
  PROVE  /\ Ahead(p, n) = (IF p + n < JdBlocks THEN p + n ELSE p + n - JdBlocks)
         /\ Ahead(p, n) \in Blocks
<1>1. JdBlocks \in Nat /\ p \in 0 .. JdBlocks - 1 /\ p + n \in Int /\ 0 <= p + n /\ p + n < JdBlocks + JdBlocks
  BY SizeType
<1>2. PICK a \in Int : a = p + n
  BY <1>1
<1>3. Ahead(p, n) = a % JdBlocks
  BY <1>2 DEF Ahead
<1>4. QED
  BY <1>1, <1>2, <1>3, ModValue

LEMMA DistValue ==
  ASSUME NEW t \in Blocks, NEW p \in Blocks
  PROVE  /\ Dist(t, p) = (IF t <= p THEN p - t ELSE p - t + JdBlocks)
         /\ Dist(t, p) \in Blocks
         /\ Ahead(t, Dist(t, p)) = p
<1>1. JdBlocks \in Nat /\ p \in 0 .. JdBlocks - 1 /\ t \in 0 .. JdBlocks - 1
  BY SizeType
<1>2. PICK a \in Int : a = p - t
  BY <1>1
<1>3. Dist(t, p) = a % JdBlocks
  BY <1>2 DEF Dist
<1>4. Dist(t, p) = (IF t <= p THEN p - t ELSE p - t + JdBlocks) /\ Dist(t, p) \in Blocks
  BY <1>1, <1>2, <1>3, ModValue
<1>5. PICK d \in Blocks : d = Dist(t, p) /\ d \in 0 .. JdBlocks
  <2>1. \A d \in Blocks : d \in 0 .. JdBlocks
    BY SizeType
  <2>2. QED
    BY <1>4, <2>1
<1>6. Ahead(t, d) = (IF t + d < JdBlocks THEN t + d ELSE t + d - JdBlocks)
  BY <1>5, AheadValue
<1>7. Ahead(t, d) = p
  BY <1>1, <1>4, <1>5, <1>6
<1>8. QED
  BY <1>4, <1>5, <1>7

LEMMA DistAhead ==
  ASSUME NEW t \in Blocks, NEW n \in Blocks
  PROVE  Dist(t, Ahead(t, n)) = n
<1>1. JdBlocks \in Nat /\ t \in 0 .. JdBlocks - 1 /\ n \in 0 .. JdBlocks - 1 /\ n \in 0 .. JdBlocks
  BY SizeType
<1>2. PICK x \in Blocks : x = Ahead(t, n) /\ x = IF t + n < JdBlocks THEN t + n ELSE t + n - JdBlocks
  BY <1>1, AheadValue
<1>3. Dist(t, x) = IF t <= x THEN x - t ELSE x - t + JdBlocks
  BY DistValue
<1>4. QED
  BY <1>1, <1>2, <1>3

LEMMA AheadAhead ==
  ASSUME NEW t \in Blocks, NEW m \in Blocks, NEW n \in Blocks, m + n \in 0 .. JdBlocks
  PROVE  Ahead(Ahead(t, m), n) = Ahead(t, m + n)
<1>1. /\ JdBlocks \in Nat /\ t \in 0 .. JdBlocks - 1 /\ n \in 0 .. JdBlocks - 1 /\ n \in 0 .. JdBlocks
      /\ m \in 0 .. JdBlocks - 1 /\ m \in 0 .. JdBlocks
  BY SizeType
<1>2. PICK x \in Blocks : x = Ahead(t, m) /\ x = IF t + m < JdBlocks THEN t + m ELSE t + m - JdBlocks
  BY <1>1, AheadValue
<1>3. Ahead(x, n) = IF x + n < JdBlocks THEN x + n ELSE x + n - JdBlocks
  BY <1>1, AheadValue
<1>4. PICK k \in 0 .. JdBlocks : k = m + n
  BY <1>1
<1>5. Ahead(t, k) = IF t + k < JdBlocks THEN t + k ELSE t + k - JdBlocks
  BY AheadValue
<1>6. x \in 0 .. JdBlocks - 1
  BY <1>2, SizeType
<1>7. Ahead(x, n) = Ahead(t, k)
  BY <1>1, <1>2, <1>3, <1>4, <1>5, <1>6
<1>8. QED
  BY <1>2, <1>4, <1>7

(* Further along by as much, and back.                                     *)
LEMMA DistLater ==
  ASSUME NEW t \in Blocks, NEW p \in Blocks, NEW s \in 0 .. Dist(t, p)
  PROVE  Ahead(t, s) \in Blocks /\ Dist(Ahead(t, s), p) = Dist(t, p) - s
<1>1. JdBlocks \in Nat /\ t \in 0 .. JdBlocks - 1 /\ p \in 0 .. JdBlocks - 1
  BY SizeType
<1>2. Dist(t, p) = (IF t <= p THEN p - t ELSE p - t + JdBlocks)
  BY DistValue
<1>3. s \in 0 .. JdBlocks /\ s \in Nat /\ s <= Dist(t, p)
  BY <1>1, <1>2
<1>4. PICK x \in Blocks : x = Ahead(t, s) /\ x = IF t + s < JdBlocks THEN t + s ELSE t + s - JdBlocks
  BY <1>3, AheadValue
<1>5. Dist(x, p) = (IF x <= p THEN p - x ELSE p - x + JdBlocks)
  BY DistValue
<1>6. x \in 0 .. JdBlocks - 1
  BY <1>4, SizeType
<1>7. Dist(x, p) = Dist(t, p) - s
  BY <1>1, <1>2, <1>3, <1>4, <1>5, <1>6
<1>8. QED
  BY <1>4, <1>7

LEMMA DistBack ==
  ASSUME NEW t \in Blocks, NEW h \in Blocks, NEW x \in 0 .. Dist(t, h)
  PROVE  /\ Ahead(t, x) \in Blocks
         /\ x = Dist(t, h) => Dist(h, Ahead(t, x)) = 0
         /\ x < Dist(t, h) => Dist(h, Ahead(t, x)) = JdBlocks - Dist(t, h) + x
<1>1. JdBlocks \in Nat /\ t \in 0 .. JdBlocks - 1 /\ h \in 0 .. JdBlocks - 1
  BY SizeType
<1>2. Dist(t, h) = (IF t <= h THEN h - t ELSE h - t + JdBlocks)
  BY DistValue
<1>3. x \in 0 .. JdBlocks /\ x \in Nat /\ x <= Dist(t, h)
  BY <1>1, <1>2
<1>4. PICK y \in Blocks : y = Ahead(t, x) /\ y = IF t + x < JdBlocks THEN t + x ELSE t + x - JdBlocks
  BY <1>3, AheadValue
<1>5. Dist(h, y) = (IF h <= y THEN y - h ELSE y - h + JdBlocks)
  BY DistValue
<1>6. y \in 0 .. JdBlocks - 1
  BY <1>4, SizeType
<1>7. /\ x = Dist(t, h) => Dist(h, y) = 0
      /\ x < Dist(t, h) => Dist(h, y) = JdBlocks - Dist(t, h) + x
  BY <1>1, <1>2, <1>3, <1>4, <1>5, <1>6
<1>8. QED
  BY <1>4, <1>7

LEMMA DistFromNext ==
  ASSUME NEW h \in Blocks, NEW p \in Blocks
  PROVE  /\ Ahead(h, 1) \in Blocks
         /\ Dist(Ahead(h, 1), p) + 1 = IF p = h THEN JdBlocks ELSE Dist(h, p)
         /\ Dist(h, p) = 0 <=> p = h
<1>1. JdBlocks \in Nat /\ h \in 0 .. JdBlocks - 1 /\ p \in 0 .. JdBlocks - 1 /\ JdBlocks > 1 /\ 1 \in 0 .. JdBlocks
  BY SizeType
<1>2. PICK x \in Blocks : x = Ahead(h, 1) /\ x = IF h + 1 < JdBlocks THEN h + 1 ELSE h + 1 - JdBlocks
  BY <1>1, AheadValue
<1>3. Dist(x, p) = (IF x <= p THEN p - x ELSE p - x + JdBlocks)
  BY DistValue
<1>4. Dist(h, p) = (IF h <= p THEN p - h ELSE p - h + JdBlocks)
  BY DistValue
<1>5. x \in 0 .. JdBlocks - 1
  BY <1>2, SizeType
<1>6. Dist(x, p) + 1 = IF p = h THEN JdBlocks ELSE Dist(h, p)
  BY <1>1, <1>2, <1>3, <1>4, <1>5
<1>7. Dist(h, p) = 0 <=> p = h
  BY <1>1, <1>4
<1>8. QED
  BY <1>2, <1>6, <1>7

-----------------------------------------------------------------------------
(* The headers of a journal, and its head.                                 *)
LEMMA RingHead ==
  ASSUME NEW J, GoodLog(J), NEW h, Ring(J, h)
  PROVE  HeadIn(J) = h
<1>1. h \in Blocks /\ J[h].kind = "LH"
  BY DEF Ring
<1>2. ASSUME NEW p \in Blocks, J[p].kind = "LH", p # h PROVE J[p].seq < J[h].seq
  <2>1. Dist(h, h) = 0 /\ Dist(p, h) # 0 /\ Dist(p, h) \in Blocks
    <3>1. h <= h /\ h - h = 0
      BY <1>1, SizeType
    <3>2. Dist(h, h) = 0
      BY <1>1, <3>1, DistValue
    <3>3. Dist(p, h) \in Blocks /\ Ahead(p, Dist(p, h)) = h
      BY <1>1, DistValue
    <3>4. 0 \in 0 .. JdBlocks /\ p + 0 = p /\ p < JdBlocks
      BY SizeType
    <3>5. Ahead(p, 0) = p
      BY <3>4, AheadValue
    <3>6. QED
      BY <1>2, <3>2, <3>3, <3>5
  <2>2. Dist(h, h) < Dist(p, h)
    BY <2>1, SizeType
  <2>3. QED
    BY <1>1, <1>2, <2>2 DEF Ring
<1>3. \A p \in Blocks : J[p].kind = "LH" => J[p].seq \in Nat
  BY DEF GoodLog, GoodBlock
<1>4. \A q \in Blocks : J[q].kind = "LH" => J[q].seq <= J[h].seq
  BY <1>1, <1>2, <1>3
<1>5. \A p \in Blocks : J[p].kind = "LH" /\ (\A q \in Blocks : J[q].kind = "LH" => J[q].seq <= J[p].seq) => p = h
  BY <1>1, <1>2, <1>3
<1>6. QED
  BY <1>1, <1>4, <1>5 DEF HeadIn

LEMMA HeadPosIs ==
  ASSUME NEW j
  PROVE  HeadPos(j) = HeadIn(jlog[j]) /\ HeadOf(j) = jlog[j][HeadIn(jlog[j])]
<1>1. HeadPos(j) = HeadIn(jlog[j])
  BY DEF HeadPos, HeadIn, IsLH
<1>2. QED
  BY <1>1 DEF HeadOf

LEMMA LogFacts ==
  ASSUME NEW J, GoodLog(J), NEW h, Ring(J, h)
  PROVE  /\ h \in Blocks /\ HeadIn(J) = h /\ LogTail(J) \in Blocks /\ LogTail(J) = J[h].tail
         /\ Open(J) = ~J[h].unmount /\ J[h].kind = "LH" /\ J[h].unmount \in BOOLEAN /\ J[h].seq \in Nat
         /\ Span(J) = Dist(LogTail(J), h) /\ Span(J) \in Blocks /\ Ahead(LogTail(J), Span(J)) = h
         /\ Region(J) = [d \in 0 .. Span(J) - 1 |-> J[Ahead(LogTail(J), d)]]
<1>1. h \in Blocks /\ HeadIn(J) = h /\ J[h].kind = "LH"
  BY RingHead DEF Ring
<1>2. J[h].seq \in Nat /\ J[h].tail \in Blocks /\ J[h].unmount \in BOOLEAN
  BY <1>1 DEF GoodLog, GoodBlock
<1>3. LogTail(J) = J[h].tail /\ Open(J) = ~J[h].unmount /\ Span(J) = Dist(LogTail(J), h)
  BY <1>1 DEF LogTail, Open, Span
<1>4. Span(J) \in Blocks /\ Ahead(LogTail(J), Span(J)) = h
  BY <1>1, <1>2, <1>3, DistValue
<1>5. Region(J) = [d \in 0 .. Span(J) - 1 |-> J[Ahead(LogTail(J), d)]]
  BY DEF Region
<1>6. QED
  BY <1>1, <1>2, <1>3, <1>4, <1>5

(* lgfs2_find_jhead's precondition.                                        *)
LEMMA RingIsLegit ==
  ASSUME NEW j \in Journals, GoodLog(jlog[j]), NEW h, Ring(jlog[j], h)
  PROVE  Legit(View(j))
<1>1. PICK J : J = jlog[j]
  OBVIOUS
<1>2. PICK V : V = View(j)
  OBVIOUS
<1>3. \A p \in Blocks : V[p].mapped = TRUE /\ (J[p].kind = "LH" => V[p].seq = J[p].seq)
                        /\ (V[p].seq = V[p].hash <=> J[p].kind = "LH")
  <2>1. TAKE p \in Blocks
  <2>2. CASE J[p].kind = "LH"
    <3>1. V[p] = [mapped |-> TRUE, seq |-> J[p].seq, hash |-> J[p].seq]
      BY <1>1, <1>2, <2>2 DEF View
    <3>2. QED
      BY <2>2, <3>1
  <2>3. CASE J[p].kind # "LH"
    <3>1. V[p] = [mapped |-> TRUE, seq |-> 0, hash |-> 1]
      BY <1>1, <1>2, <2>3 DEF View
    <3>2. QED
      BY <2>3, <3>1
  <2>4. QED
    BY <2>2, <2>3
<1>4. \A p \in Blocks : V[p].mapped /\ (IsHeader(V, p) <=> J[p].kind = "LH")
  BY <1>3 DEF IsHeader
<1>5. /\ h \in Blocks /\ J[h].kind = "LH"
      /\ \A p, q \in Blocks : J[p].kind = "LH" /\ J[q].kind = "LH" /\ Dist(p, h) < Dist(q, h)
            => J[q].seq < J[p].seq
      /\ \E q \in Blocks : q # h /\ J[q].kind = "LH"
  BY <1>1 DEF Ring
<1>6. JdBlocks \in Nat /\ h \in 0 .. JdBlocks - 1 /\ \A p \in Blocks : p \in 0 .. JdBlocks - 1
  BY <1>5, SizeType
<1>7. \A p \in Blocks : Dist(p, h) = IF p <= h THEN h - p ELSE h - p + JdBlocks
  BY <1>5, DistValue
<1>8. IsHead(V, h)
  <2>1. ASSUME NEW x \in Blocks, NEW y \in Blocks, IsHeader(V, x), IsHeader(V, y)
        PROVE  /\ x < y /\ y <= h => Dist(y, h) < Dist(x, h)
               /\ h < x /\ x < y => Dist(y, h) < Dist(x, h)
               /\ x <= h /\ h < y => Dist(x, h) < Dist(y, h)
    <3>1. x \in 0 .. JdBlocks - 1 /\ y \in 0 .. JdBlocks - 1
      BY <1>6
    <3>2. QED
      BY <1>6, <1>7, <3>1
  <2>2. \A x, y \in Blocks : IsHeader(V, x) /\ IsHeader(V, y) /\ Dist(y, h) < Dist(x, h) => V[x].seq < V[y].seq
    BY <1>3, <1>4, <1>5
  <2>3. QED
    BY <1>4, <1>5, <2>1, <2>2 DEF IsHead
<1>9. \E x, y \in Blocks : x # y /\ IsHeader(V, x) /\ IsHeader(V, y)
  BY <1>4, <1>5
<1>10. Legit(V)
  BY <1>4, <1>5, <1>8, <1>9 DEF Legit
<1>11. QED
  BY <1>2, <1>10

LEMMA FreshIsRing ==
  ASSUME NEW s \in Blocks
  PROVE  /\ GoodLog(FreshJournal(s)) /\ \E h \in Blocks : Ring(FreshJournal(s), h)
         /\ \A p \in Blocks : FreshJournal(s)[p].kind = "LH" /\ FreshJournal(s)[p].unmount
<1>1. PICK J : J = FreshJournal(s)
  OBVIOUS
<1>2. J = [p \in Blocks |-> LH(Ahead(s, p), 0, TRUE)]
  BY <1>1 DEF FreshJournal, Ahead
<1>3. J = [p \in Blocks |-> J[p]]
  BY <1>2
<1>4. ASSUME NEW p \in Blocks
      PROVE  J[p].kind = "LH" /\ J[p].seq = Ahead(s, p) /\ J[p].tail = 0 /\ J[p].unmount = TRUE
  BY <1>2 DEF LH
<1>5. \A p \in Blocks : p \in 0 .. JdBlocks - 1 /\ p \in 0 .. JdBlocks /\ p \in Nat
  BY SizeType
<1>6. \A p \in Blocks : /\ Ahead(s, p) = (IF s + p < JdBlocks THEN s + p ELSE s + p - JdBlocks)
                        /\ Ahead(s, p) \in Blocks
  BY <1>5, AheadValue
<1>7. GoodLog(J)
  <2>1. ASSUME NEW p \in Blocks PROVE GoodBlock(J[p])
    <3>1. J[p].seq \in Nat
      BY <1>4, <1>5, <1>6
    <3>2. J[p].tail \in Blocks
      <4>1. J[p].tail = 0
        BY <1>4
      <4>2. 0 \in Blocks
        BY SizeType
      <4>3. QED
        BY <4>1, <4>2
    <3>3. QED
      BY <1>4, <3>1, <3>2 DEF GoodBlock, Kinds
  <2>2. QED
    BY <1>3, <2>1 DEF GoodLog
<1>8. PICK h \in Blocks : h = JdBlocks - 1 - s
  BY SizeType
<1>9. JdBlocks \in Nat /\ JdBlocks > 1 /\ s \in 0 .. JdBlocks - 1
  BY SizeType
<1>10. ASSUME NEW p \in Blocks PROVE Ahead(s, p) = JdBlocks - 1 - Dist(p, h)
  <2>1. p \in 0 .. JdBlocks - 1
    BY <1>5
  <2>2. Dist(p, h) = IF p <= h THEN h - p ELSE h - p + JdBlocks
    BY <1>8, DistValue
  <2>3. QED
    BY <1>6, <1>8, <1>9, <2>1, <2>2
<1>11. Ring(J, h)
  <2>1. ASSUME NEW p \in Blocks, NEW q \in Blocks, Dist(p, h) < Dist(q, h) PROVE J[q].seq < J[p].seq
    <3>1. Dist(p, h) \in Blocks /\ Dist(q, h) \in Blocks
      BY DistValue
    <3>2. Dist(p, h) \in Nat /\ Dist(q, h) \in Nat
      BY <1>5, <3>1
    <3>3. J[p].seq = JdBlocks - 1 - Dist(p, h) /\ J[q].seq = JdBlocks - 1 - Dist(q, h)
      BY <1>4, <1>10
    <3>4. PICK m \in Nat, n \in Nat : m = Dist(p, h) /\ n = Dist(q, h)
      BY <3>2
    <3>5. QED
      BY <1>9, <2>1, <3>3, <3>4
  <2>2. \E q \in Blocks : q # h
    BY <1>9, SizeType
  <2>3. QED
    BY <1>4, <2>1, <2>2 DEF Ring
<1>12. \A p \in Blocks : J[p].kind = "LH" /\ J[p].unmount
  BY <1>4
<1>13. QED
  BY <1>1, <1>7, <1>11, <1>12

-----------------------------------------------------------------------------
(* Writing to a journal: a run of blocks after the head, the last of which *)
(* is the new head.                                                        *)
Written(J, h, recs) == [p \in Blocks |->
    LET i == ((p - Ahead(h, 1)) % JdBlocks) + 1 IN IF i \in DOMAIN recs THEN recs[i] ELSE J[p]]

GoodRecs(recs, n, s) ==
    /\ n \in Nat /\ 0 < n /\ n < JdBlocks /\ DOMAIN recs = 1 .. n
    /\ \A i \in 1 .. n : GoodBlock(recs[i])
    /\ \A i \in 1 .. n : i < n => recs[i].kind # "LH"
    /\ recs[n].kind = "LH" /\ recs[n].seq = s

LEMMA WrittenValue ==
  ASSUME NEW J, NEW h \in Blocks, NEW recs, NEW n \in Nat, n < JdBlocks, DOMAIN recs = 1 .. n, NEW p \in Blocks
  PROVE  Written(J, h, recs)[p] = IF Dist(h, p) \in 1 .. n THEN recs[Dist(h, p)] ELSE J[p]
<1>1. Written(J, h, recs)[p] = IF Dist(Ahead(h, 1), p) + 1 \in DOMAIN recs
                               THEN recs[Dist(Ahead(h, 1), p) + 1] ELSE J[p]
  BY DEF Written, Dist
<1>2. Dist(Ahead(h, 1), p) + 1 = IF p = h THEN JdBlocks ELSE Dist(h, p)
  BY DistFromNext
<1>3. p = h => Dist(h, p) = 0
  BY DistFromNext
<1>4. JdBlocks \notin 1 .. n /\ 0 \notin 1 .. n
  BY SizeType
<1>5. CASE p = h
  BY <1>1, <1>2, <1>3, <1>4, <1>5
<1>6. CASE p # h
  BY <1>1, <1>2, <1>6
<1>7. QED
  BY <1>5, <1>6

LEMMA BackAfterWrite ==
  ASSUME NEW h \in Blocks, NEW n \in Nat, 0 < n, n < JdBlocks, NEW p \in Blocks
  PROVE  /\ Ahead(h, n) \in Blocks /\ Ahead(h, n) # h /\ (Dist(h, p) = n <=> p = Ahead(h, n))
         /\ Dist(h, p) = n => Dist(p, Ahead(h, n)) = 0
         /\ Dist(h, p) \notin 1 .. n => Dist(p, Ahead(h, n)) = Dist(p, h) + n
         /\ Dist(p, Ahead(h, n)) \in Nat /\ Dist(p, h) \in Nat
<1>1. JdBlocks \in Nat /\ h \in 0 .. JdBlocks - 1 /\ p \in 0 .. JdBlocks - 1 /\ n \in 0 .. JdBlocks
  BY SizeType
<1>2. PICK x \in Blocks : x = Ahead(h, n) /\ x = IF h + n < JdBlocks THEN h + n ELSE h + n - JdBlocks
  BY <1>1, AheadValue
<1>3. x \in 0 .. JdBlocks - 1
  BY <1>2, SizeType
<1>4. /\ Dist(h, p) = (IF h <= p THEN p - h ELSE p - h + JdBlocks)
      /\ Dist(p, h) = (IF p <= h THEN h - p ELSE h - p + JdBlocks)
      /\ Dist(p, x) = (IF p <= x THEN x - p ELSE x - p + JdBlocks)
  BY DistValue
<1>5. Dist(p, x) \in Nat /\ Dist(p, h) \in Nat
  BY <1>1, <1>3, <1>4
<1>6. x # h /\ (Dist(h, p) = n <=> p = x) /\ (Dist(h, p) = n => Dist(p, x) = 0)
  BY <1>1, <1>2, <1>3, <1>4
<1>7. Dist(h, p) \notin 1 .. n => Dist(p, x) = Dist(p, h) + n
  BY <1>1, <1>2, <1>3, <1>4
<1>8. QED
  BY <1>2, <1>5, <1>6, <1>7


LEMMA RingWrite ==
  ASSUME NEW J, GoodLog(J), NEW h, Ring(J, h), NEW n, NEW recs, GoodRecs(recs, n, J[h].seq + 1)
  PROVE  /\ GoodLog(Written(J, h, recs)) /\ Ring(Written(J, h, recs), Ahead(h, n))
         /\ Written(J, h, recs)[Ahead(h, n)] = recs[n]
<1>1. /\ n \in Nat /\ 0 < n /\ n < JdBlocks /\ DOMAIN recs = 1 .. n
      /\ \A i \in 1 .. n : GoodBlock(recs[i])
      /\ \A i \in 1 .. n : i < n => recs[i].kind # "LH"
      /\ recs[n].kind = "LH" /\ recs[n].seq = J[h].seq + 1
  BY DEF GoodRecs
<1>2. h \in Blocks /\ J[h].kind = "LH" /\ J[h].seq \in Nat
  BY LogFacts
<1>3. PICK K : K = Written(J, h, recs)
  OBVIOUS
<1>4. \A p \in Blocks : K[p] = IF Dist(h, p) \in 1 .. n THEN recs[Dist(h, p)] ELSE J[p]
  BY <1>1, <1>2, <1>3, WrittenValue
<1>5. PICK x \in Blocks : x = Ahead(h, n) /\ x # h
  BY <1>1, <1>2, BackAfterWrite
<1>6. ASSUME NEW p \in Blocks
      PROVE  /\ Dist(h, p) = n <=> p = x
             /\ Dist(h, p) = n => Dist(p, x) = 0
             /\ Dist(h, p) \notin 1 .. n => Dist(p, x) = Dist(p, h) + n
             /\ Dist(p, x) \in Nat /\ Dist(p, h) \in Nat
  <2>1. /\ Dist(h, p) = n <=> p = Ahead(h, n)
        /\ Dist(h, p) = n => Dist(p, Ahead(h, n)) = 0
        /\ Dist(h, p) \notin 1 .. n => Dist(p, Ahead(h, n)) = Dist(p, h) + n
        /\ Dist(p, Ahead(h, n)) \in Nat /\ Dist(p, h) \in Nat
    BY <1>1, <1>2, BackAfterWrite
  <2>2. QED
    BY <1>5, <2>1
<1>7. n \in 1 .. n
  BY <1>1
<1>8. K[x] = recs[n]
  BY <1>4, <1>5, <1>6, <1>7
<1>9. K = [p \in Blocks |-> K[p]]
  BY <1>3 DEF Written
<1>10. GoodLog(K)
  BY <1>1, <1>4, <1>9 DEF GoodLog
<1>11. ASSUME NEW p \in Blocks, K[p].kind = "LH", p # x
       PROVE  K[p] = J[p] /\ Dist(p, x) = Dist(p, h) + n
  <2>1. Dist(h, p) \notin 1 .. n
    <3>1. SUFFICES ASSUME Dist(h, p) \in 1 .. n PROVE FALSE
      OBVIOUS
    <3>2. K[p] = recs[Dist(h, p)] /\ Dist(h, p) # n
      BY <1>4, <1>6, <1>11, <3>1
    <3>3. Dist(h, p) < n
      BY <1>1, <3>1, <3>2
    <3>4. QED
      BY <1>1, <1>11, <3>1, <3>2, <3>3
  <2>2. QED
    BY <1>4, <1>6, <2>1
<1>12. ASSUME NEW p \in Blocks, J[p].kind = "LH" PROVE J[p].seq <= J[h].seq /\ J[p].seq \in Nat
  <2>1. J[p].seq \in Nat
    BY <1>12 DEF GoodLog, GoodBlock
  <2>2. CASE p = h
    BY <1>2, <2>2
  <2>3. CASE p # h
    <3>1. HeadIn(J) = h
      BY LogFacts
    <3>2. Dist(h, h) = 0 /\ Dist(p, h) # 0 /\ Dist(p, h) \in Nat
      <4>1. h <= h /\ h - h = 0 /\ JdBlocks \in Nat /\ h \in 0 .. JdBlocks - 1 /\ p \in 0 .. JdBlocks - 1
        BY <1>2, SizeType
      <4>2. Dist(h, h) = 0
        BY <1>2, <4>1, DistValue
      <4>3. Dist(p, h) = (IF p <= h THEN h - p ELSE h - p + JdBlocks)
        BY <1>2, DistValue
      <4>4. QED
        BY <2>3, <4>1, <4>2, <4>3
    <3>3. Dist(h, h) < Dist(p, h)
      BY <3>2
    <3>4. J[p].seq < J[h].seq
      BY <1>2, <1>12, <3>3 DEF Ring
    <3>5. QED
      BY <1>2, <2>1, <3>4
  <2>4. QED
    BY <2>2, <2>3
<1>13. ASSUME NEW p \in Blocks, NEW q \in Blocks, K[p].kind = "LH", K[q].kind = "LH", Dist(p, x) < Dist(q, x)
       PROVE  K[q].seq < K[p].seq
  <2>1. Dist(x, x) = 0
    BY <1>5, <1>6
  <2>2. q # x
    BY <1>6, <1>13, <2>1
  <2>3. K[q] = J[q] /\ Dist(q, x) = Dist(q, h) + n
    BY <1>11, <1>13, <2>2
  <2>4. CASE p = x
    BY <1>1, <1>2, <1>8, <1>12, <1>13, <2>3, <2>4
  <2>5. CASE p # x
    <3>1. K[p] = J[p] /\ Dist(p, x) = Dist(p, h) + n
      BY <1>11, <1>13, <2>5
    <3>2. Dist(p, h) < Dist(q, h)
      BY <1>1, <1>6, <1>13, <2>3, <3>1
    <3>3. QED
      BY <1>13, <2>3, <3>1, <3>2 DEF Ring
  <2>6. QED
    BY <2>4, <2>5
<1>14. \E q \in Blocks : q # x /\ K[q].kind = "LH"
  <2>1. Dist(h, h) = 0 /\ 0 \notin 1 .. n
    <3>1. \A p \in Blocks : p = h => Dist(h, p) = 0
      BY <1>2, DistFromNext
    <3>2. QED
      BY <1>2, <3>1
  <2>2. K[h] = J[h]
    BY <1>2, <1>4, <2>1
  <2>3. QED
    BY <1>2, <1>5, <2>2
<1>15. Ring(K, x)
  BY <1>1, <1>5, <1>8, <1>13, <1>14 DEF Ring
<1>16. QED
  BY <1>3, <1>5, <1>8, <1>10, <1>15

(* Other blocks than headers may change, as long as two headers stay.      *)
LEMMA RingOverwrite ==
  ASSUME NEW J, GoodLog(J), NEW h, Ring(J, h), NEW K, K = [p \in Blocks |-> K[p]],
         \A p \in Blocks : K[p] = J[p] \/ (GoodBlock(K[p]) /\ K[p].kind # "LH"),
         K[h] = J[h], \E q \in Blocks : q # h /\ J[q].kind = "LH" /\ K[q] = J[q]
  PROVE  GoodLog(K) /\ Ring(K, h)
<1>1. GoodLog(K)
  BY DEF GoodLog
<1>2. \A p \in Blocks : K[p].kind = "LH" => K[p] = J[p]
  OBVIOUS
<1>3. \E q \in Blocks : q # h /\ K[q].kind = "LH"
  OBVIOUS
<1>4. h \in Blocks /\ K[h].kind = "LH"
  BY DEF Ring
<1>5. ASSUME NEW p \in Blocks, NEW q \in Blocks, K[p].kind = "LH", K[q].kind = "LH", Dist(p, h) < Dist(q, h)
      PROVE  K[q].seq < K[p].seq
  <2>1. K[p] = J[p] /\ K[q] = J[q] /\ J[p].kind = "LH" /\ J[q].kind = "LH"
    BY <1>2, <1>5
  <2>2. QED
    BY <1>5, <2>1 DEF Ring
<1>6. QED
  BY <1>1, <1>3, <1>4, <1>5 DEF Ring

-----------------------------------------------------------------------------
(* What a region holds: its entries, and how it is cut and put together.   *)
LEMMA EntryPlace ==
  ASSUME NEW top, NEW W, NEW L \in Nat, GoodRegion(W, L, top), NEW b, NEW d, NEW i, Entry(W, L, b, d, i)
  PROVE  /\ d \in 0 .. L - 1 /\ i \in 1 .. L /\ d + i < L /\ Len(W[d].elems) \in Nat
         /\ d + Len(W[d].elems) < L /\ b \in FsBlocks /\ W[d].kind = "LD"
         /\ GoodElem(W[d].jdata, W[d].elems[i], W[d + i], top) /\ W[d].elems[i].blk = b
         /\ \A k \in 1 .. i : W[d + k].kind = "DATA"
<1>1. d \in 0 .. L - 1 /\ W[d].kind = "LD" /\ i \in 1 .. Len(W[d].elems) /\ W[d].elems[i].blk = b
  BY DEF Entry
<1>2. /\ Len(W[d].elems) \in Nat /\ d + Len(W[d].elems) < L
      /\ \A k \in 1 .. Len(W[d].elems) : GoodElem(W[d].jdata, W[d].elems[k], W[d + k], top)
  BY <1>1 DEF GoodRegion
<1>3. PICK n \in Nat : n = Len(W[d].elems)
  BY <1>2
<1>4. d + n < L /\ i \in 1 .. n /\ i \in 1 .. L /\ d + i < L
  BY <1>1, <1>2, <1>3
<1>5. \A k \in 1 .. i : k \in 1 .. n
  BY <1>4
<1>6. \A k \in 1 .. i : W[d + k].kind = "DATA"
  BY <1>2, <1>3, <1>5 DEF GoodElem
<1>7. b \in FsBlocks
  BY <1>1, <1>2 DEF GoodElem
<1>8. QED
  BY <1>1, <1>2, <1>4, <1>6, <1>7

LEMMA EntryOrder ==
  ASSUME NEW top, NEW W, NEW L \in Nat, GoodRegion(W, L, top), NEW b, NEW d, NEW i, Entry(W, L, b, d, i),
         NEW e \in 0 .. L - 1, W[e].kind # "DATA"
  PROVE  e <= d \/ d + i < e
<1>1. d \in 0 .. L - 1 /\ i \in 1 .. L /\ \A k \in 1 .. i : W[d + k].kind = "DATA"
  BY EntryPlace
<1>2. SUFFICES ASSUME d < e, e <= d + i PROVE FALSE
  BY <1>1
<1>3. PICK k \in 1 .. i : k = e - d /\ d + k = e
  BY <1>1, <1>2
<1>4. QED
  BY <1>1, <1>3

LEMMA SuffixGood ==
  ASSUME NEW top, NEW W, NEW L \in Nat, GoodRegion(W, L, top), NEW s \in 0 .. L, NEW V,
         \A d \in 0 .. (L - s) - 1 : V[d] = W[d + s]
  PROVE  /\ GoodRegion(V, L - s, top)
         /\ \A b, i : \A d \in Int : Entry(V, L - s, b, d, i) <=> d >= 0 /\ Entry(W, L, b, d + s, i)
         /\ \A b : \A d \in Int : Revokes(V, L - s, b, d) <=> d >= 0 /\ Revokes(W, L, b, d + s)
<1>1. PICK M \in Nat : M = L - s
  OBVIOUS
<1>2. \A d \in 0 .. M - 1 : V[d] = W[d + s] /\ d + s \in 0 .. L - 1
  BY <1>1
<1>3. ASSUME NEW d \in 0 .. M - 1
      PROVE  /\ V[d].kind = "RV" => V[d].blks \subseteq FsBlocks
             /\ V[d].kind = "LD" =>
                  /\ Len(V[d].elems) \in Nat /\ d + Len(V[d].elems) < M
                  /\ \A i \in 1 .. Len(V[d].elems) : GoodElem(V[d].jdata, V[d].elems[i], V[d + i], top)
  <2>1. PICK x \in 0 .. L - 1 : x = d + s /\ V[d] = W[x]
    BY <1>2
  <2>2. V[d].kind = "RV" => V[d].blks \subseteq FsBlocks
    BY <2>1 DEF GoodRegion
  <2>3. ASSUME V[d].kind = "LD"
        PROVE  /\ Len(V[d].elems) \in Nat /\ d + Len(V[d].elems) < M
               /\ \A i \in 1 .. Len(V[d].elems) : GoodElem(V[d].jdata, V[d].elems[i], V[d + i], top)
    <3>1. PICK n \in Nat : n = Len(V[d].elems) /\ x + n < L
      BY <2>1, <2>3 DEF GoodRegion
    <3>2. \A i \in 1 .. n : GoodElem(W[x].jdata, W[x].elems[i], W[x + i], top)
      BY <2>1, <2>3, <3>1 DEF GoodRegion
    <3>3. d + n < M
      <4>1. x + n < L /\ x = d + s
        BY <2>1, <3>1
      <4>2. QED
        BY <1>1, <4>1
    <3>4. \A i \in 1 .. n : V[d + i] = W[x + i]
      <4>1. TAKE i \in 1 .. n
      <4>2. PICK y \in 0 .. M - 1 : y = d + i
        BY <3>3
      <4>3. V[y] = W[y + s] /\ y + s = x + i
        BY <1>2, <2>1, <4>2
      <4>4. QED
        BY <4>2, <4>3
    <3>5. QED
      BY <2>1, <3>1, <3>2, <3>3, <3>4
  <2>4. QED
    BY <2>2, <2>3
<1>4. GoodRegion(V, M, top)
  BY <1>3 DEF GoodRegion
<1>5. ASSUME NEW d \in Int PROVE d \in 0 .. M - 1 <=> d >= 0 /\ d + s \in 0 .. L - 1
  BY <1>1
<1>6. ASSUME NEW b, NEW i, NEW d \in Int
      PROVE  Entry(V, M, b, d, i) <=> d >= 0 /\ Entry(W, L, b, d + s, i)
  BY <1>2, <1>5 DEF Entry
<1>7. ASSUME NEW b, NEW d \in Int
      PROVE  Revokes(V, M, b, d) <=> d >= 0 /\ Revokes(W, L, b, d + s)
  BY <1>2, <1>5 DEF Revokes
<1>8. QED
  BY <1>1, <1>4, <1>6, <1>7

LEMMA SuffixReplays ==
  ASSUME NEW top, NEW W, NEW L \in Nat, GoodRegion(W, L, top), NEW s \in 0 .. L, NEW V,
         \A d \in 0 .. (L - s) - 1 : V[d] = W[d + s],
         NEW b, NEW v, Replays(W, L, b, v),
         v # 0 => \E d \in 0 .. L - 1, i \in 1 .. L : Entry(W, L, b, d, i) /\ s <= d
  PROVE  Replays(V, L - s, b, v)
<1>1. PICK M \in Nat : M = L - s
  OBVIOUS
<1>2. /\ GoodRegion(V, M, top)
      /\ \A i : \A d \in Int : Entry(V, M, b, d, i) <=> d >= 0 /\ Entry(W, L, b, d + s, i)
      /\ \A d \in Int : Revokes(V, M, b, d) <=> d >= 0 /\ Revokes(W, L, b, d + s)
  BY <1>1, SuffixGood
<1>3. \A d \in 0 .. M - 1 : V[d] = W[d + s] /\ d \in Int
  BY <1>1
<1>4. CASE v = 0
  <2>1. ASSUME NEW d \in 0 .. M - 1, NEW i \in 1 .. M, Entry(V, M, b, d, i)
        PROVE  \E e \in 0 .. M - 1 : d < e /\ Revokes(V, M, b, e)
    <3>1. PICK x \in 0 .. L - 1 : x = d + s /\ i \in 1 .. L
      BY <1>1
    <3>2. Entry(W, L, b, x, i)
      BY <1>2, <1>3, <2>1, <3>1
    <3>3. PICK e \in 0 .. L - 1 : x < e /\ Revokes(W, L, b, e)
      BY <1>4, <3>1, <3>2 DEF Replays
    <3>4. PICK y \in 0 .. M - 1 : y = e - s /\ y + s = e /\ d < y /\ y \in Int /\ y >= 0
      BY <1>1, <3>1, <3>3
    <3>5. Revokes(V, M, b, y)
      BY <1>2, <3>3, <3>4
    <3>6. QED
      BY <3>4, <3>5
  <2>2. QED
    BY <1>1, <1>4, <2>1 DEF Replays
<1>5. CASE v # 0
  <2>1. PICK d \in 0 .. L - 1, i \in 1 .. L : LastEntry(W, L, b, d, i) /\ W[d + i].ver = v
    BY <1>5 DEF Replays
  <2>2. Entry(W, L, b, d, i) /\ \A e \in 0 .. L - 1, k \in 1 .. L : Entry(W, L, b, e, k) => e + k <= d + i
    BY <2>1 DEF LastEntry
  <2>3. PICK e \in 0 .. L - 1, k \in 1 .. L : Entry(W, L, b, e, k) /\ s <= e
    BY <1>5
  <2>4. e + k <= d + i /\ W[e].kind = "LD" /\ W[e].kind # "DATA" /\ d + i < L
    BY <2>2, <2>3, EntryPlace
  <2>5. e <= d \/ d + i < e
    BY <2>2, <2>4, EntryOrder
  <2>6. PICK x \in 0 .. M - 1 : x = d - s /\ x + s = d /\ x >= 0 /\ x \in Int /\ i \in 1 .. M /\ x + i \in 0 .. M - 1
    BY <1>1, <2>3, <2>4, <2>5
  <2>7. Entry(V, M, b, x, i)
    BY <1>2, <2>2, <2>6
  <2>8. V[x + i].ver = v
    <3>1. PICK y \in 0 .. M - 1 : y = x + i /\ y + s = d + i
      BY <2>6
    <3>2. QED
      BY <1>3, <2>1, <3>1
  <2>9. ASSUME NEW f \in 0 .. M - 1, NEW m \in 1 .. M, Entry(V, M, b, f, m) PROVE f + m <= x + i
    <3>1. PICK y \in 0 .. L - 1 : y = f + s /\ m \in 1 .. L
      BY <1>1
    <3>2. Entry(W, L, b, y, m)
      BY <1>2, <1>3, <2>9, <3>1
    <3>3. y + m <= d + i
      BY <2>2, <3>1, <3>2
    <3>4. QED
      BY <2>6, <3>1, <3>3
  <2>10. ASSUME NEW f \in 0 .. M - 1, Revokes(V, M, b, f) PROVE f < x
    <3>1. PICK y \in 0 .. L - 1 : y = f + s
      BY <1>1
    <3>2. Revokes(W, L, b, y)
      BY <1>2, <1>3, <2>10, <3>1
    <3>3. y < d
      BY <2>1, <3>2 DEF LastEntry
    <3>4. QED
      BY <2>6, <3>1, <3>3
  <2>11. LastEntry(V, M, b, x, i)
    BY <2>7, <2>9, <2>10 DEF LastEntry
  <2>12. QED
    BY <1>1, <1>5, <2>6, <2>8, <2>11 DEF Replays
<1>6. QED
  BY <1>4, <1>5

(* Region W is W1 with W2 after it.                                        *)
Joins(W, W1, L1, W2, L2) ==
    /\ L1 \in Nat /\ L2 \in Nat
    /\ \A d \in 0 .. L1 - 1 : W[d] = W1[d]
    /\ \A d \in 0 .. L2 - 1 : W[L1 + d] = W2[d]

LEMMA JoinGood ==
  ASSUME NEW top, NEW W, NEW W1, NEW L1, NEW W2, NEW L2, Joins(W, W1, L1, W2, L2),
         GoodRegion(W1, L1, top), GoodRegion(W2, L2, top)
  PROVE  /\ GoodRegion(W, L1 + L2, top)
         /\ \A b, i : \A d \in Int : Entry(W, L1 + L2, b, d, i) <=>
                \/ d < L1 /\ Entry(W1, L1, b, d, i)
                \/ d >= L1 /\ Entry(W2, L2, b, d - L1, i)
         /\ \A b : \A d \in Int : Revokes(W, L1 + L2, b, d) <=>
                \/ d < L1 /\ Revokes(W1, L1, b, d)
                \/ d >= L1 /\ Revokes(W2, L2, b, d - L1)
         /\ Sound(W1, L1) /\ Sound(W2, L2) => Sound(W, L1 + L2)
<1>1. L1 \in Nat /\ L2 \in Nat /\ \A d \in 0 .. L1 - 1 : W[d] = W1[d]
  BY DEF Joins
<1>2. PICK L \in Nat : L = L1 + L2
  BY <1>1
<1>3. ASSUME NEW d \in Int, d >= L1
      PROVE  /\ d - L1 \in Int /\ (d \in 0 .. L - 1 <=> d - L1 \in 0 .. L2 - 1)
             /\ d \in 0 .. L - 1 => W[d] = W2[d - L1]
  <2>1. PICK e \in Int : e = d - L1 /\ L1 + e = d
    BY <1>1
  <2>2. d \in 0 .. L - 1 <=> e \in 0 .. L2 - 1
    BY <1>1, <1>2, <1>3, <2>1
  <2>3. e \in 0 .. L2 - 1 => W[L1 + e] = W2[e]
    BY DEF Joins
  <2>4. QED
    BY <2>1, <2>2, <2>3
<1>4. \A d \in Int : d < L1 => (d \in 0 .. L - 1 <=> d \in 0 .. L1 - 1)
  BY <1>1, <1>2
<1>5. ASSUME NEW d \in 0 .. L - 1
      PROVE  /\ W[d].kind = "RV" => W[d].blks \subseteq FsBlocks
             /\ W[d].kind = "LD" =>
                  /\ Len(W[d].elems) \in Nat /\ d + Len(W[d].elems) < L
                  /\ \A i \in 1 .. Len(W[d].elems) : GoodElem(W[d].jdata, W[d].elems[i], W[d + i], top)
  <2>1. CASE d < L1
    <3>1. d \in 0 .. L1 - 1 /\ W[d] = W1[d]
      BY <1>1, <1>4, <2>1
    <3>2. W[d].kind = "RV" => W[d].blks \subseteq FsBlocks
      BY <3>1 DEF GoodRegion
    <3>3. ASSUME W[d].kind = "LD"
          PROVE  /\ Len(W[d].elems) \in Nat /\ d + Len(W[d].elems) < L
                 /\ \A i \in 1 .. Len(W[d].elems) : GoodElem(W[d].jdata, W[d].elems[i], W[d + i], top)
      <4>1. PICK n \in Nat : n = Len(W[d].elems) /\ d + n < L1
        BY <3>1, <3>3 DEF GoodRegion
      <4>2. \A i \in 1 .. n : GoodElem(W[d].jdata, W[d].elems[i], W1[d + i], top)
        BY <3>1, <3>3, <4>1 DEF GoodRegion
      <4>3. \A i \in 1 .. n : d + i \in 0 .. L1 - 1
        BY <1>1, <4>1
      <4>4. d + n < L
        BY <1>1, <1>2, <4>1
      <4>5. QED
        BY <1>1, <4>1, <4>2, <4>3, <4>4
    <3>4. QED
      BY <3>2, <3>3
  <2>2. CASE d >= L1
    <3>1. PICK e \in 0 .. L2 - 1 : e = d - L1 /\ W[d] = W2[e]
      BY <1>3, <2>2
    <3>2. W[d].kind = "RV" => W[d].blks \subseteq FsBlocks
      BY <3>1 DEF GoodRegion
    <3>3. ASSUME W[d].kind = "LD"
          PROVE  /\ Len(W[d].elems) \in Nat /\ d + Len(W[d].elems) < L
                 /\ \A i \in 1 .. Len(W[d].elems) : GoodElem(W[d].jdata, W[d].elems[i], W[d + i], top)
      <4>1. PICK n \in Nat : n = Len(W[d].elems) /\ e + n < L2
        BY <3>1, <3>3 DEF GoodRegion
      <4>2. \A i \in 1 .. n : GoodElem(W[d].jdata, W[d].elems[i], W2[e + i], top)
        BY <3>1, <3>3, <4>1 DEF GoodRegion
      <4>3. d + n < L
        <5>1. e + n < L2 /\ e = d - L1
          BY <3>1, <4>1
        <5>2. QED
          BY <1>1, <1>2, <5>1
      <4>4. \A i \in 1 .. n : W[d + i] = W2[e + i]
        <5>1. TAKE i \in 1 .. n
        <5>2. PICK x \in 0 .. L - 1 : x = d + i /\ x >= L1 /\ x - L1 = e + i
          BY <1>1, <1>2, <2>2, <3>1, <4>3
        <5>3. QED
          BY <1>3, <5>2
      <4>5. QED
        BY <4>1, <4>2, <4>3, <4>4
    <3>4. QED
      BY <3>2, <3>3
  <2>3. QED
    BY <1>1, <2>1, <2>2
<1>6. GoodRegion(W, L, top)
  BY <1>5 DEF GoodRegion
<1>7. ASSUME NEW b, NEW i, NEW d \in Int
      PROVE  Entry(W, L, b, d, i) <=> \/ d < L1 /\ Entry(W1, L1, b, d, i)
                                      \/ d >= L1 /\ Entry(W2, L2, b, d - L1, i)
  <2>1. CASE d < L1
    <3>1. ~(d >= L1) /\ (d \in 0 .. L - 1 <=> d \in 0 .. L1 - 1)
      BY <1>1, <1>4, <2>1
    <3>2. d \in 0 .. L1 - 1 => W[d] = W1[d]
      BY <1>1
    <3>3. Entry(W, L, b, d, i) <=> Entry(W1, L1, b, d, i)
      BY <3>1, <3>2 DEF Entry
    <3>4. QED
      BY <2>1, <3>1, <3>3
  <2>2. CASE d >= L1
    <3>0. ~(d < L1)
      BY <1>1, <2>2
    <3>1. ~(d < L1) /\ (d \in 0 .. L - 1 <=> d - L1 \in 0 .. L2 - 1)
      BY <1>3, <2>2, <3>0
    <3>2. d \in 0 .. L - 1 => W[d] = W2[d - L1]
      BY <1>3, <2>2
    <3>3. Entry(W, L, b, d, i) <=> Entry(W2, L2, b, d - L1, i)
      <4>1. PICK x : x = d - L1
        OBVIOUS
      <4>2. (d \in 0 .. L - 1 <=> x \in 0 .. L2 - 1) /\ (d \in 0 .. L - 1 => W[d] = W2[x])
        BY <3>1, <3>2, <4>1
      <4>3. Entry(W, L, b, d, i) <=> Entry(W2, L2, b, x, i)
        BY <4>2 DEF Entry
      <4>4. QED
        BY <4>1, <4>3
    <3>4. QED
      BY <2>2, <3>1, <3>3
  <2>3. QED
    BY <1>1, <2>1, <2>2
<1>8. ASSUME NEW b, NEW d \in Int
      PROVE  Revokes(W, L, b, d) <=> \/ d < L1 /\ Revokes(W1, L1, b, d)
                                     \/ d >= L1 /\ Revokes(W2, L2, b, d - L1)
  <2>1. CASE d < L1
    BY <1>1, <1>4, <2>1 DEF Revokes
  <2>2. CASE d >= L1
    BY <1>1, <1>3, <2>2 DEF Revokes
  <2>3. QED
    BY <1>1, <2>1, <2>2
<1>9. ASSUME Sound(W1, L1), Sound(W2, L2) PROVE Sound(W, L)
  <2>1. ASSUME NEW d \in 0 .. L - 1 PROVE W[d].kind # "JUNK"
    <3>1. CASE d < L1
      BY <1>1, <1>4, <1>9, <3>1 DEF Sound
    <3>2. CASE d >= L1
      BY <1>3, <1>9, <3>2 DEF Sound
    <3>3. QED
      BY <1>1, <3>1, <3>2
  <2>2. QED
    BY <2>1 DEF Sound
<1>10. QED
  BY <1>2, <1>6, <1>7, <1>8, <1>9

(* What the later part W2 holds of a block comes last.                     *)
LEMMA JoinReplays ==
  ASSUME NEW top, NEW W, NEW W1, NEW L1, NEW W2, NEW L2, Joins(W, W1, L1, W2, L2),
         GoodRegion(W1, L1, top), GoodRegion(W2, L2, top), NEW b
  PROVE  /\ \A v : v # 0 /\ Replays(W2, L2, b, v) => Replays(W, L1 + L2, b, v)
         /\ (\A i : \A d \in Int : ~Entry(W2, L2, b, d, i)) /\ (\A d \in Int : ~Revokes(W2, L2, b, d))
                => \A v : Replays(W1, L1, b, v) => Replays(W, L1 + L2, b, v)
         /\ (\A i : \A d \in Int : ~Entry(W2, L2, b, d, i)) /\ (\E d \in Int : Revokes(W2, L2, b, d))
                => Replays(W, L1 + L2, b, 0)
<1>1. L1 \in Nat /\ L2 \in Nat /\ \A d \in 0 .. L1 - 1 : W[d] = W1[d]
  BY DEF Joins
<1>2. PICK L \in Nat : L = L1 + L2
  BY <1>1
<1>3. /\ \A i : \A d \in Int : Entry(W, L, b, d, i) <=>
                \/ d < L1 /\ Entry(W1, L1, b, d, i)
                \/ d >= L1 /\ Entry(W2, L2, b, d - L1, i)
      /\ \A d \in Int : Revokes(W, L, b, d) <=>
                \/ d < L1 /\ Revokes(W1, L1, b, d)
                \/ d >= L1 /\ Revokes(W2, L2, b, d - L1)
  BY <1>2, JoinGood
<1>4. ASSUME NEW v, v # 0, Replays(W2, L2, b, v) PROVE Replays(W, L, b, v)
  <2>1. PICK d \in 0 .. L2 - 1, i \in 1 .. L2 : LastEntry(W2, L2, b, d, i) /\ W2[d + i].ver = v
    BY <1>4 DEF Replays
  <2>2. Entry(W2, L2, b, d, i)
    BY <2>1 DEF LastEntry
  <2>3. d + i < L2
    BY <1>1, <2>2, EntryPlace
  <2>4. PICK x \in 0 .. L - 1 : x = L1 + d /\ x - L1 = d /\ x >= L1 /\ x \in Int /\ i \in 1 .. L
    BY <1>1, <1>2
  <2>5. Entry(W, L, b, x, i)
    BY <1>3, <2>2, <2>4
  <2>6. W[x + i].ver = v
    <3>1. PICK y \in 0 .. L2 - 1 : y = d + i /\ L1 + y = x + i
      BY <1>1, <2>3, <2>4
    <3>2. W[L1 + y] = W2[y]
      BY DEF Joins
    <3>3. QED
      BY <2>1, <3>1, <3>2
  <2>7. ASSUME NEW e \in 0 .. L - 1, NEW k \in 1 .. L, Entry(W, L, b, e, k) PROVE e + k <= x + i
    <3>1. CASE e < L1
      <4>1. Entry(W1, L1, b, e, k)
        BY <1>1, <1>3, <2>7, <3>1
      <4>2. e + k < L1
        BY <1>1, <4>1, EntryPlace
      <4>3. QED
        BY <1>1, <2>4, <4>2
    <3>2. CASE e >= L1
      <4>1. PICK f \in Int : f = e - L1 /\ Entry(W2, L2, b, f, k)
        BY <1>1, <1>3, <2>7, <3>2
      <4>2. f \in 0 .. L2 - 1 /\ k \in 1 .. L2
        BY <1>1, <4>1, EntryPlace
      <4>3. f + k <= d + i
        BY <2>1, <4>1, <4>2 DEF LastEntry
      <4>4. QED
        BY <1>1, <2>4, <4>1, <4>3
    <3>3. QED
      BY <1>1, <3>1, <3>2
  <2>8. ASSUME NEW e \in 0 .. L - 1, Revokes(W, L, b, e) PROVE e < x
    <3>1. CASE e < L1
      BY <1>1, <2>4, <3>1
    <3>2. CASE e >= L1
      <4>1. PICK f \in Int : f = e - L1 /\ Revokes(W2, L2, b, f)
        BY <1>1, <1>3, <2>8, <3>2
      <4>2. f \in 0 .. L2 - 1
        BY <4>1 DEF Revokes
      <4>3. f < d
        BY <2>1, <4>1, <4>2 DEF LastEntry
      <4>4. QED
        BY <1>1, <2>4, <4>1, <4>3
    <3>3. QED
      BY <1>1, <3>1, <3>2
  <2>9. LastEntry(W, L, b, x, i)
    BY <2>5, <2>7, <2>8 DEF LastEntry
  <2>10. QED
    BY <1>4, <2>4, <2>6, <2>9 DEF Replays
<1>5. ASSUME \A i : \A d \in Int : ~Entry(W2, L2, b, d, i), \A d \in Int : ~Revokes(W2, L2, b, d),
             NEW v, Replays(W1, L1, b, v)
      PROVE  Replays(W, L, b, v)
  <2>1. /\ \A i : \A d \in Int : Entry(W, L, b, d, i) <=> d < L1 /\ Entry(W1, L1, b, d, i)
        /\ \A d \in Int : Revokes(W, L, b, d) <=> d < L1 /\ Revokes(W1, L1, b, d)
    <3>1. \A d \in Int : d - L1 \in Int
      BY <1>1
    <3>2. QED
      BY <1>3, <1>5, <3>1
  <2>2. \A i : \A d : Entry(W1, L1, b, d, i) => d \in 0 .. L1 - 1 /\ i \in 1 .. L1 /\ d + i \in 0 .. L1 - 1
    <3>1. ASSUME NEW d, NEW i, Entry(W1, L1, b, d, i)
          PROVE  d \in 0 .. L1 - 1 /\ i \in 1 .. L1 /\ d + i \in 0 .. L1 - 1
      <4>1. d \in 0 .. L1 - 1 /\ i \in 1 .. L1 /\ d + i < L1
        BY <1>1, <3>1, EntryPlace
      <4>2. QED
        BY <1>1, <4>1
    <3>2. QED
      BY <3>1
  <2>3. /\ \A d \in 0 .. L1 - 1 : d \in 0 .. L - 1 /\ d < L1 /\ d \in Int
        /\ \A d \in 0 .. L - 1 : d \in Int /\ (d < L1 => d \in 0 .. L1 - 1)
        /\ \A d \in 1 .. L1 : d \in 1 .. L
    BY <1>1, <1>2
  <2>4. CASE v = 0
    <3>1. ASSUME NEW d \in 0 .. L - 1, NEW i \in 1 .. L, Entry(W, L, b, d, i)
          PROVE  \E e \in 0 .. L - 1 : d < e /\ Revokes(W, L, b, e)
      <4>1. Entry(W1, L1, b, d, i)
        BY <2>1, <2>3, <3>1
      <4>2. PICK e \in 0 .. L1 - 1 : d < e /\ Revokes(W1, L1, b, e)
        BY <1>5, <2>2, <2>4, <4>1 DEF Replays
      <4>3. QED
        BY <2>1, <2>3, <4>2
    <3>2. QED
      BY <2>4, <3>1 DEF Replays
  <2>5. CASE v # 0
    <3>1. PICK d \in 0 .. L1 - 1, i \in 1 .. L1 : LastEntry(W1, L1, b, d, i) /\ W1[d + i].ver = v
      BY <1>5, <2>5 DEF Replays
    <3>2. Entry(W1, L1, b, d, i)
      BY <3>1 DEF LastEntry
    <3>3. d \in 0 .. L - 1 /\ i \in 1 .. L /\ Entry(W, L, b, d, i) /\ W[d + i].ver = v
      BY <1>1, <2>1, <2>2, <2>3, <3>1, <3>2
    <3>4. \A e \in 0 .. L - 1, k \in 1 .. L : Entry(W, L, b, e, k) => e + k <= d + i
      <4>1. ASSUME NEW e \in 0 .. L - 1, NEW k \in 1 .. L, Entry(W, L, b, e, k) PROVE e + k <= d + i
        <5>1. Entry(W1, L1, b, e, k)
          BY <2>1, <2>3, <4>1
        <5>2. QED
          BY <2>2, <3>1, <5>1 DEF LastEntry
      <4>2. QED
        BY <4>1
    <3>5. \A e \in 0 .. L - 1 : Revokes(W, L, b, e) => e < d
      BY <2>1, <2>3, <3>1 DEF LastEntry
    <3>6. QED
      BY <2>5, <3>3, <3>4, <3>5 DEF Replays, LastEntry
  <2>6. QED
    BY <2>4, <2>5
<1>6. ASSUME \A i : \A d \in Int : ~Entry(W2, L2, b, d, i), NEW r \in Int, Revokes(W2, L2, b, r)
      PROVE  Replays(W, L, b, 0)
  <2>1. r \in 0 .. L2 - 1
    BY <1>6 DEF Revokes
  <2>2. PICK x \in 0 .. L - 1 : x = L1 + r /\ x - L1 = r /\ x >= L1 /\ x \in Int
    BY <1>1, <1>2, <2>1
  <2>3. Revokes(W, L, b, x)
    BY <1>3, <1>6, <2>2
  <2>4. ASSUME NEW d \in 0 .. L - 1, NEW i \in 1 .. L, Entry(W, L, b, d, i) PROVE d < x
    <3>1. d < L1
      <4>1. d - L1 \in Int
        BY <1>1
      <4>2. QED
        BY <1>1, <1>3, <1>6, <2>4, <4>1
    <3>2. QED
      BY <1>1, <2>2, <3>1
  <2>5. QED
    BY <2>3, <2>4 DEF Replays
<1>7. QED
  BY <1>2, <1>4, <1>5, <1>6

-----------------------------------------------------------------------------
(* What a transaction puts into the journal: the blocks S in their new     *)
(* version, each once, and revokes for the blocks R.                       *)
AsRegion(q) == [d \in 0 .. Len(q) - 1 |-> q[d + 1]]
Holds(W, L, S, R) ==
    /\ L \in Nat /\ GoodRegion(W, L, bound.ver) /\ Sound(W, L)
    /\ \A b, i : \A d \in Int : Entry(W, L, b, d, i) => b \in S /\ W[d + i].ver = ver[b] + 1
    /\ \A b \in S : \E i : \E d \in Int : Entry(W, L, b, d, i)
    /\ \A b, i, k : \A d, e \in Int : Entry(W, L, b, d, i) /\ Entry(W, L, b, e, k) => d = e /\ i = k
    /\ \A b : \A d \in Int : Revokes(W, L, b, d) => b \in R
    /\ \A b \in R : \E d \in Int : Revokes(W, L, b, d)
GoodText(q, S, R) ==
    /\ \E T : q \in Seq(T)
    /\ \A i \in 1 .. Len(q) : GoodBlock(q[i]) /\ q[i].kind # "LH"
    /\ Holds(AsRegion(q), Len(q), S, R)

LEMMA SeqRange ==
  ASSUME NEW n \in Nat, NEW q, q = [i \in 1 .. n |-> q[i]]
  PROVE  q \in Seq({q[i] : i \in 1 .. n}) /\ Len(q) = n /\ DOMAIN q = 1 .. n
<1>1. PICK T : T = {q[i] : i \in 1 .. n}
  OBVIOUS
<1>2. q \in [1 .. n -> T]
  BY <1>1
<1>3. q \in Seq(T)
  BY <1>2
<1>4. QED
  BY <1>1, <1>2, <1>3

LEMMA JoinSeq ==
  ASSUME NEW T1, NEW T2, NEW p \in Seq(T1), NEW q \in Seq(T2)
  PROVE  /\ p \o q \in Seq(T1 \union T2) /\ Len(p) \in Nat /\ Len(q) \in Nat /\ Len(p \o q) = Len(p) + Len(q)
         /\ \A i \in 1 .. Len(p) : (p \o q)[i] = p[i]
         /\ \A i \in 1 .. Len(q) : (p \o q)[Len(p) + i] = q[i]
<1>1. p \in Seq(T1 \union T2) /\ q \in Seq(T1 \union T2)
  OBVIOUS
<1>2. PICK T : T = T1 \union T2
  OBVIOUS
<1>3. p \in Seq(T) /\ q \in Seq(T)
  BY <1>1, <1>2
<1>4. p \o q \in Seq(T) /\ Len(p) \in Nat /\ Len(q) \in Nat /\ Len(p \o q) = Len(p) + Len(q)
  BY <1>3
<1>5. \A i \in 1 .. Len(p) : (p \o q)[i] = p[i]
  BY <1>3, <1>4
<1>6. \A i \in 1 .. Len(q) : (p \o q)[Len(p) + i] = q[i]
  BY <1>3, <1>4
<1>7. QED
  BY <1>2, <1>4, <1>5, <1>6

LEMMA HoldsJoin ==
  ASSUME NEW W, NEW W1, NEW L1, NEW W2, NEW L2, Joins(W, W1, L1, W2, L2),
         NEW S1, Holds(W1, L1, S1, {}), NEW S2, NEW R, Holds(W2, L2, S2, R), S1 \intersect S2 = {}
  PROVE  Holds(W, L1 + L2, S1 \union S2, R)
<1>1. /\ L1 \in Nat /\ L2 \in Nat /\ \A d \in 0 .. L1 - 1 : W[d] = W1[d]
      /\ \A d \in 0 .. L2 - 1 : W[L1 + d] = W2[d]
  BY DEF Joins
<1>2. PICK L \in Nat : L = L1 + L2
  BY <1>1
<1>3. PICK top : top = bound.ver
  OBVIOUS
<1>4. GoodRegion(W1, L1, top) /\ GoodRegion(W2, L2, top) /\ Sound(W1, L1) /\ Sound(W2, L2)
  BY <1>3 DEF Holds
<1>5. /\ GoodRegion(W, L, top) /\ Sound(W, L)
      /\ \A b, i : \A d \in Int : Entry(W, L, b, d, i) <=>
                \/ d < L1 /\ Entry(W1, L1, b, d, i)
                \/ d >= L1 /\ Entry(W2, L2, b, d - L1, i)
      /\ \A b : \A d \in Int : Revokes(W, L, b, d) <=>
                \/ d < L1 /\ Revokes(W1, L1, b, d)
                \/ d >= L1 /\ Revokes(W2, L2, b, d - L1)
  BY <1>2, <1>4, JoinGood
<1>6. ASSUME NEW b, NEW i, NEW d, Entry(W1, L1, b, d, i)
      PROVE  d \in Int /\ d < L1 /\ b \in S1 /\ W[d + i].ver = ver[b] + 1
  <2>1. d \in 0 .. L1 - 1 /\ i \in 1 .. L1 /\ d + i < L1
    BY <1>1, <1>4, <1>6, EntryPlace
  <2>2. d \in Int /\ d < L1 /\ d + i \in 0 .. L1 - 1
    BY <1>1, <2>1
  <2>3. b \in S1 /\ W1[d + i].ver = ver[b] + 1
    BY <1>6, <2>2 DEF Holds
  <2>4. QED
    BY <1>1, <2>2, <2>3
<1>7. ASSUME NEW b, NEW i, NEW d, Entry(W2, L2, b, d, i)
      PROVE  d \in Int /\ d >= 0 /\ b \in S2 /\ W[(L1 + d) + i].ver = ver[b] + 1
  <2>1. d \in 0 .. L2 - 1 /\ i \in 1 .. L2 /\ d + i < L2
    BY <1>1, <1>4, <1>7, EntryPlace
  <2>2. PICK x \in 0 .. L2 - 1 : x = d + i /\ L1 + x = (L1 + d) + i /\ d \in Int /\ d >= 0
    BY <1>1, <2>1
  <2>3. b \in S2 /\ W2[d + i].ver = ver[b] + 1
    BY <1>7, <2>2 DEF Holds
  <2>4. W[L1 + x] = W2[x]
    BY <1>1
  <2>5. QED
    BY <2>2, <2>3, <2>4
<1>8. ASSUME NEW b, NEW i, NEW d \in Int, Entry(W, L, b, d, i)
      PROVE  b \in S1 \union S2 /\ W[d + i].ver = ver[b] + 1
  <2>1. CASE Entry(W1, L1, b, d, i)
    BY <1>6, <2>1
  <2>2. CASE Entry(W2, L2, b, d - L1, i)
    <3>1. PICK x : x = d - L1
      OBVIOUS
    <3>2. x \in Int /\ b \in S2 /\ W[(L1 + x) + i].ver = ver[b] + 1
      BY <1>7, <2>2, <3>1
    <3>3. L1 + x = d
      BY <1>1, <3>1
    <3>4. QED
      BY <3>2, <3>3
  <2>3. QED
    BY <1>5, <1>8, <2>1, <2>2
<1>9. ASSUME NEW b \in S1 \union S2 PROVE \E i : \E d \in Int : Entry(W, L, b, d, i)
  <2>1. CASE b \in S1
    <3>1. PICK i : \E d \in Int : Entry(W1, L1, b, d, i)
      BY <2>1 DEF Holds
    <3>2. PICK d \in Int : Entry(W1, L1, b, d, i) /\ d < L1
      BY <1>6, <3>1
    <3>3. QED
      BY <1>5, <3>2
  <2>2. CASE b \in S2
    <3>1. PICK i : \E d \in Int : Entry(W2, L2, b, d, i)
      BY <2>2 DEF Holds
    <3>2. PICK d \in Int : Entry(W2, L2, b, d, i) /\ d >= 0
      BY <1>7, <3>1
    <3>3. PICK x \in Int : x = L1 + d /\ x >= L1 /\ x - L1 = d
      BY <1>1, <3>2
    <3>4. QED
      BY <1>5, <3>2, <3>3
  <2>3. QED
    BY <2>1, <2>2
<1>10. ASSUME NEW b, NEW i, NEW k, NEW d \in Int, NEW e \in Int, Entry(W, L, b, d, i), Entry(W, L, b, e, k)
       PROVE  d = e /\ i = k
  <2>1. CASE d < L1 /\ Entry(W1, L1, b, d, i)
    <3>1. b \in S1
      BY <1>6, <2>1
    <3>2. Entry(W1, L1, b, e, k)
      BY <1>5, <1>7, <1>10, <3>1
    <3>3. QED
      BY <2>1, <3>2 DEF Holds
  <2>2. CASE d >= L1 /\ Entry(W2, L2, b, d - L1, i)
    <3>1. b \in S2
      BY <1>7, <2>2
    <3>2. Entry(W2, L2, b, e - L1, k)
      BY <1>5, <1>6, <1>10, <3>1
    <3>3. PICK x \in Int, y \in Int : x = d - L1 /\ y = e - L1
      BY <1>1
    <3>4. x = y /\ i = k
      BY <2>2, <3>2, <3>3 DEF Holds
    <3>5. QED
      BY <1>1, <3>3, <3>4
  <2>3. QED
    BY <1>5, <1>10, <2>1, <2>2
<1>11. ASSUME NEW b, NEW d \in Int, Revokes(W, L, b, d) PROVE b \in R
  <2>1. \A e : Revokes(W1, L1, b, e) => e \in Int
    BY DEF Revokes
  <2>2. \A e \in Int : ~Revokes(W1, L1, b, e)
    BY DEF Holds
  <2>3. d - L1 \in Int /\ Revokes(W2, L2, b, d - L1)
    BY <1>1, <1>5, <1>11, <2>1, <2>2
  <2>4. QED
    BY <2>3 DEF Holds
<1>12. ASSUME NEW b \in R PROVE \E d \in Int : Revokes(W, L, b, d)
  <2>1. PICK d \in Int : Revokes(W2, L2, b, d)
    BY DEF Holds
  <2>2. d >= 0
    BY <2>1 DEF Revokes
  <2>3. PICK x \in Int : x = L1 + d /\ x >= L1 /\ x - L1 = d
    BY <1>1, <2>2
  <2>4. QED
    BY <1>5, <2>1, <2>3
<1>13. Holds(W, L, S1 \union S2, R)
  BY <1>3, <1>5, <1>8, <1>9, <1>10, <1>11, <1>12 DEF Holds
<1>14. QED
  BY <1>2, <1>13

LEMMA HoldsReplays ==
  ASSUME NEW W, NEW L, NEW S, NEW R, Holds(W, L, S, R), S \intersect R = {}, NEW b \in S, ver[b] \in Nat
  PROVE  Replays(W, L, b, ver[b] + 1)
<1>1. L \in Nat /\ GoodRegion(W, L, bound.ver)
  BY DEF Holds
<1>2. PICK i : \E d \in Int : Entry(W, L, b, d, i)
  BY DEF Holds
<1>3. PICK d \in Int : Entry(W, L, b, d, i)
  BY <1>2
<1>4. W[d + i].ver = ver[b] + 1
  BY <1>3 DEF Holds
<1>5. PICK top : top = bound.ver
  OBVIOUS
<1>6. d \in 0 .. L - 1 /\ i \in 1 .. L /\ d + i < L
  BY <1>1, <1>3, <1>5, EntryPlace
<1>7. \A e \in 0 .. L - 1, k \in 1 .. L : Entry(W, L, b, e, k) => e + k <= d + i
  <2>1. ASSUME NEW e \in 0 .. L - 1, NEW k \in 1 .. L, Entry(W, L, b, e, k) PROVE e + k <= d + i
    <3>1. e \in Int
      OBVIOUS
    <3>2. d = e /\ i = k
      BY <1>3, <2>1, <3>1 DEF Holds
    <3>3. QED
      BY <1>6, <3>2
  <2>2. QED
    BY <2>1
<1>8. \A e \in 0 .. L - 1 : ~Revokes(W, L, b, e)
  <2>1. \A e \in Int : ~Revokes(W, L, b, e)
    BY DEF Holds
  <2>2. QED
    BY <2>1
<1>9. LastEntry(W, L, b, d, i)
  BY <1>3, <1>7, <1>8 DEF LastEntry
<1>10. ver[b] + 1 # 0
  OBVIOUS
<1>11. QED
  BY <1>4, <1>6, <1>9, <1>10 DEF Replays

LEMMA TextJoin ==
  ASSUME NEW p, NEW q, NEW S1, GoodText(p, S1, {}), NEW S2, NEW R, GoodText(q, S2, R), S1 \intersect S2 = {}
  PROVE  GoodText(p \o q, S1 \union S2, R) /\ Len(p \o q) = Len(p) + Len(q)
<1>1. PICK T1 : p \in Seq(T1)
  BY DEF GoodText
<1>2. PICK T2 : q \in Seq(T2)
  BY DEF GoodText
<1>3. PICK r : r = p \o q
  OBVIOUS
<1>4. PICK m \in Nat, n \in Nat : m = Len(p) /\ n = Len(q)
  BY <1>1, <1>2
<1>5. r \in Seq(T1 \union T2) /\ Len(r) = m + n /\ (\A i \in 1 .. m : r[i] = p[i]) /\ \A i \in 1 .. n : r[m + i] = q[i]
  BY <1>1, <1>2, <1>3, <1>4, JoinSeq
<1>6. ASSUME NEW i \in 1 .. m + n PROVE GoodBlock(r[i]) /\ r[i].kind # "LH"
  <2>1. CASE i <= m
    BY <1>4, <1>5, <2>1 DEF GoodText
  <2>2. CASE i > m
    <3>1. PICK k \in 1 .. n : m + k = i
      BY <2>2
    <3>2. QED
      BY <1>4, <1>5, <3>1 DEF GoodText
  <2>3. QED
    BY <2>1, <2>2
<1>7. Joins(AsRegion(r), AsRegion(p), m, AsRegion(q), n)
  <2>1. ASSUME NEW d \in 0 .. m - 1 PROVE AsRegion(r)[d] = AsRegion(p)[d]
    <3>1. d \in 0 .. (m + n) - 1 /\ d + 1 \in 1 .. m
      OBVIOUS
    <3>2. QED
      BY <1>4, <1>5, <3>1 DEF AsRegion
  <2>2. ASSUME NEW d \in 0 .. n - 1 PROVE AsRegion(r)[m + d] = AsRegion(q)[d]
    <3>1. m + d \in 0 .. (m + n) - 1 /\ d + 1 \in 1 .. n /\ (m + d) + 1 = m + (d + 1)
      OBVIOUS
    <3>2. AsRegion(r)[m + d] = r[(m + d) + 1] /\ AsRegion(q)[d] = q[d + 1]
      BY <1>4, <1>5, <3>1 DEF AsRegion
    <3>3. QED
      BY <1>5, <3>1, <3>2
  <2>3. QED
    BY <2>1, <2>2 DEF Joins
<1>8. Holds(AsRegion(r), m + n, S1 \union S2, R)
  <2>1. Holds(AsRegion(p), m, S1, {}) /\ Holds(AsRegion(q), n, S2, R)
    BY <1>4 DEF GoodText
  <2>2. QED
    BY <1>7, <2>1, HoldsJoin
<1>9. GoodText(r, S1 \union S2, R)
  BY <1>5, <1>6, <1>8 DEF GoodText
<1>10. QED
  BY <1>3, <1>4, <1>5, <1>9

LEMMA BoundFacts ==
  ASSUME bound \in Situations
  PROVE  /\ bound.ver \in Nat \ {0} /\ bound.blocks \subseteq FsBlocks /\ bound.start \subseteq Blocks
         /\ NJournals \in Nat \ {0} /\ Journals = 1 .. NJournals
  BY ReplayAssumption DEF Journals

LEMMA EmptyText == GoodText(<< >>, {}, {})
<1>1. << >> \in Seq({}) /\ Len(<< >>) = 0
  OBVIOUS
<1>2. 0 .. 0 - 1 = {} /\ 1 .. 0 = {}
  OBVIOUS
<1>3. PICK W : W = AsRegion(<< >>)
  OBVIOUS
<1>4. Holds(W, 0, {}, {})
  BY <1>2 DEF Holds, GoodRegion, Sound, Entry, Revokes
<1>5. QED
  BY <1>1, <1>2, <1>3, <1>4 DEF GoodText

LEMMA SetSeq ==
  ASSUME NEW S, IsFiniteSet(S)
  PROVE  \E n \in Nat :
            /\ SetToSeq(S) \in [1 .. n -> S] /\ \A b \in S : \E i \in 1 .. n : SetToSeq(S)[i] = b
            /\ \A i, k \in 1 .. n : SetToSeq(S)[i] = SetToSeq(S)[k] => i = k
<1>1. PICK n \in Nat : n = Cardinality(S) /\ ExistsBijection(1 .. n, S)
  BY FS_CardinalityType
<1>2. PICK g : g \in Bijection(1 .. n, S)
  BY <1>1 DEF ExistsBijection
<1>3. g \in [1 .. n -> S] /\ IsInjective(g)
  BY <1>2 DEF Bijection, Injection
<1>4. PICK f : f = SetToSeq(S)
  OBVIOUS
<1>5. f \in [1 .. n -> S] /\ IsInjective(f)
  BY <1>1, <1>3, <1>4 DEF SetToSeq
<1>6. f \in Injection(1 .. n, S)
  BY <1>5 DEF Injection
<1>7. IsFiniteSet(1 .. n) /\ Cardinality(1 .. n) = n
  <2>1. IsFiniteSet(1 .. n) /\ Cardinality(1 .. n) = IF 1 > n THEN 0 ELSE n - 1 + 1
    BY FS_Interval
  <2>2. QED
    BY <2>1
<1>8. f \in Surjection(1 .. n, S)
  BY <1>1, <1>6, <1>7, FS_Injection
<1>9. QED
  BY <1>4, <1>5, <1>8 DEF Surjection, IsInjective

LEMMA RevokeText ==
  ASSUME NEW R \in SUBSET FsBlocks
  PROVE  GoodText(<< RV(R) >>, {}, R) /\ Len(<< RV(R) >>) = 1
<1>1. PICK r : r = RV(R)
  OBVIOUS
<1>2. r.kind = "RV" /\ r.blks = R /\ "RV" # "LH" /\ "RV" # "LD" /\ "RV" # "JUNK" /\ "RV" # "DATA"
  BY <1>1 DEF RV
<1>3. PICK q : q = << r >>
  OBVIOUS
<1>4. q \in Seq({r}) /\ Len(q) = 1 /\ q[1] = r
  BY <1>3
<1>5. PICK W : W = AsRegion(q)
  OBVIOUS
<1>6. W[0] = r /\ \A d \in 0 .. 1 - 1 : d = 0
  BY <1>4, <1>5 DEF AsRegion
<1>7. GoodRegion(W, 1, bound.ver)
  BY <1>2, <1>6 DEF GoodRegion
<1>8. Sound(W, 1)
  BY <1>2, <1>6 DEF Sound
<1>9. \A b, d, i : ~Entry(W, 1, b, d, i)
  BY <1>2, <1>6 DEF Entry
<1>10. \A b, d : Revokes(W, 1, b, d) => b \in R
  BY <1>2, <1>6 DEF Revokes
<1>11. \A b \in R : Revokes(W, 1, b, 0)
  BY <1>2, <1>6 DEF Revokes
<1>12. Holds(W, 1, {}, R)
  BY <1>7, <1>8, <1>9, <1>10, <1>11 DEF Holds
<1>13. GoodBlock(r)
  BY <1>2 DEF GoodBlock, Kinds
<1>14. \A i \in 1 .. Len(q) : q[i] = r
  BY <1>4
<1>15. GoodText(q, {}, R)
  BY <1>2, <1>4, <1>5, <1>12, <1>13, <1>14 DEF GoodText
<1>16. QED
  BY <1>1, <1>3, <1>4, <1>15

LEMMA PartText ==
  ASSUME NEW jd \in BOOLEAN, NEW S \in SUBSET FsBlocks, \A b \in S : jd <=> b \in JData,
         \A b \in S : ver[b] + 1 \in 1 .. bound.ver
  PROVE  GoodText(Part(jd, S), S, {})
<1>1. CASE S = {}
  BY <1>1, EmptyText DEF Part
<1>2. CASE S # {}
  <2>1. PICK bs : bs = SetToSeq(S)
    OBVIOUS
  <2>2. IsFiniteSet(S)
    BY ReplayAssumption, FS_Subset
  <2>3. PICK n \in Nat : /\ bs \in [1 .. n -> S] /\ \A b \in S : \E i \in 1 .. n : bs[i] = b
                         /\ \A i, k \in 1 .. n : bs[i] = bs[k] => i = k
    BY <2>1, <2>2, SetSeq
  <2>4. DOMAIN bs = 1 .. n
    BY <2>3
  <2>5. PICK es : es = [i \in 1 .. n |-> [blk |-> bs[i], esc |-> Escaped(bs[i], ver[bs[i]] + 1)]]
    OBVIOUS
  <2>6. PICK cs : cs = [i \in 1 .. n |-> Logged(bs[i], ver[bs[i]] + 1)]
    OBVIOUS
  <2>7. PICK one : one = << LD(jd, es) >>
    OBVIOUS
  <2>8. PICK q : q = one \o cs
    OBVIOUS
  <2>9. Part(jd, S) = q
    BY <1>2, <2>1, <2>4, <2>5, <2>6, <2>7, <2>8 DEF Part
  <2>10. Len(es) = n
    <3>1. es = [i \in 1 .. n |-> es[i]]
      BY <2>5
    <3>2. QED
      BY <3>1, SeqRange
  <2>11. cs \in Seq({cs[i] : i \in 1 .. n}) /\ Len(cs) = n
    <3>1. cs = [i \in 1 .. n |-> cs[i]]
      BY <2>6
    <3>2. QED
      BY <3>1, SeqRange
  <2>12. one \in Seq({LD(jd, es)}) /\ Len(one) = 1 /\ one[1] = LD(jd, es)
    BY <2>7
  <2>13. /\ q \in Seq({LD(jd, es)} \union {cs[i] : i \in 1 .. n}) /\ Len(q) = 1 + n /\ q[1] = LD(jd, es)
         /\ \A i \in 1 .. n : q[1 + i] = cs[i]
    <3>1. PICK T1 : T1 = {LD(jd, es)}
      OBVIOUS
    <3>2. PICK T2 : T2 = {cs[i] : i \in 1 .. n}
      OBVIOUS
    <3>3. /\ one \o cs \in Seq(T1 \union T2) /\ Len(one \o cs) = 1 + n
          /\ \A i \in 1 .. 1 : (one \o cs)[i] = one[i]
          /\ \A i \in 1 .. n : (one \o cs)[1 + i] = cs[i]
      <4>1. one \in Seq(T1) /\ cs \in Seq(T2)
        BY <2>11, <2>12, <3>1, <3>2
      <4>2. /\ one \o cs \in Seq(T1 \union T2) /\ Len(one \o cs) = Len(one) + Len(cs)
            /\ \A i \in 1 .. Len(one) : (one \o cs)[i] = one[i]
            /\ \A i \in 1 .. Len(cs) : (one \o cs)[Len(one) + i] = cs[i]
        BY <4>1, JoinSeq
      <4>3. QED
        BY <2>11, <2>12, <4>2
    <3>4. 1 \in 1 .. 1
      OBVIOUS
    <3>5. QED
      BY <2>8, <2>12, <3>1, <3>2, <3>3, <3>4
  <2>14. PICK W : W = AsRegion(q)
    OBVIOUS
  <2>15. PICK L \in Nat : L = n + 1 /\ Len(q) = L
    BY <2>13
  <2>16. W[0] = LD(jd, es) /\ \A i \in 1 .. n : W[i] = cs[i]
    <3>1. \A d \in 0 .. L - 1 : W[d] = q[d + 1]
      BY <2>14, <2>15 DEF AsRegion
    <3>2. W[0] = q[0 + 1] /\ 0 + 1 = 1
      BY <2>15, <3>1
    <3>3. ASSUME NEW i \in 1 .. n PROVE W[i] = q[1 + i]
      <4>1. i \in 0 .. L - 1 /\ i + 1 = 1 + i
        BY <2>15
      <4>2. QED
        BY <3>1, <4>1
    <3>4. QED
      BY <2>13, <3>2, <3>3
  <2>17. LD(jd, es).kind = "LD" /\ LD(jd, es).jdata = jd /\ LD(jd, es).elems = es
    BY DEF LD
  <2>18. ASSUME NEW i \in 1 .. n
         PROVE  /\ bs[i] \in S /\ es[i].blk = bs[i] /\ (es[i].esc <=> Escaped(bs[i], ver[bs[i]] + 1))
                /\ cs[i].kind = "DATA" /\ cs[i].ver = ver[bs[i]] + 1 /\ (cs[i].magic <=> bs[i] \notin JData)
                /\ cs[i].magic \in BOOLEAN /\ cs[i] = Data(cs[i].ver, cs[i].magic)
    <3>1. bs[i] \in S
      BY <2>3
    <3>2. es[i] = [blk |-> bs[i], esc |-> Escaped(bs[i], ver[bs[i]] + 1)]
      BY <2>5
    <3>3. cs[i] = Data(ver[bs[i]] + 1, bs[i] \notin JData)
      BY <2>6 DEF Logged
    <3>4. \A v, m : Data(v, m).kind = "DATA" /\ Data(v, m).ver = v /\ Data(v, m).magic = m
      BY DEF Data
    <3>5. es[i].blk = bs[i]
      BY <3>2
    <3>6. es[i].esc <=> Escaped(bs[i], ver[bs[i]] + 1)
      BY <3>2
    <3>7. cs[i].kind = "DATA" /\ cs[i].ver = ver[bs[i]] + 1 /\ cs[i].magic = (bs[i] \notin JData)
      BY <3>3, <3>4
    <3>8. cs[i] = Data(cs[i].ver, cs[i].magic)
      BY <3>3, <3>7
    <3>9. QED
      BY <3>1, <3>5, <3>6, <3>7, <3>8
  <2>19. \A d \in 0 .. L - 1 : d = 0 \/ d \in 1 .. n
    BY <2>15
  <2>20. \A d \in 0 .. L - 1 : W[d].kind = "LD" <=> d = 0
    <3>1. "DATA" # "LD" /\ 0 \notin 1 .. n
      OBVIOUS
    <3>2. QED
      BY <2>16, <2>17, <2>18, <2>19, <3>1
  <2>21. ASSUME NEW d \in 0 .. L - 1 PROVE W[d].kind # "RV" /\ W[d].kind # "JUNK" /\ W[d].kind # "LH"
    <3>1. "DATA" # "RV" /\ "LD" # "RV" /\ "DATA" # "JUNK" /\ "LD" # "JUNK" /\ "DATA" # "LH" /\ "LD" # "LH"
      OBVIOUS
    <3>2. QED
      BY <2>16, <2>17, <2>18, <2>19, <3>1
  <2>22. GoodRegion(W, L, bound.ver)
    <3>1. ASSUME NEW i \in 1 .. n PROVE GoodElem(jd, es[i], W[i], bound.ver)
      <4>1. bs[i] \in FsBlocks /\ (jd <=> bs[i] \in JData) /\ ver[bs[i]] + 1 \in 1 .. bound.ver
        BY <2>18
      <4>2. QED
        BY <2>16, <2>18, <4>1 DEF GoodElem
    <3>2. \A i \in 1 .. n : 0 + i = i
      OBVIOUS
    <3>3. 0 + n < L
      BY <2>15
    <3>4. QED
      BY <2>10, <2>16, <2>17, <2>20, <2>21, <3>1, <3>2, <3>3 DEF GoodRegion
  <2>23. \A b, d, i : Entry(W, L, b, d, i) <=> d = 0 /\ i \in 1 .. n /\ bs[i] = b
    <3>1. 0 \in 0 .. L - 1
      BY <2>15
    <3>2. ASSUME NEW b, NEW i PROVE Entry(W, L, b, 0, i) <=> i \in 1 .. n /\ bs[i] = b
      BY <2>10, <2>16, <2>17, <2>18, <3>1 DEF Entry
    <3>3. \A b, d, i : Entry(W, L, b, d, i) => d = 0
      BY <2>20 DEF Entry
    <3>4. QED
      BY <3>2, <3>3
  <2>24. Holds(W, L, S, {})
    <3>1. \A b, d : ~Revokes(W, L, b, d)
      BY <2>21 DEF Revokes
    <3>2. Sound(W, L)
      BY <2>21 DEF Sound
    <3>3. \A b, i : \A d \in Int : Entry(W, L, b, d, i) => b \in S /\ W[d + i].ver = ver[b] + 1
      <4>1. \A i \in 1 .. n : 0 + i = i
        OBVIOUS
      <4>2. QED
        BY <2>16, <2>18, <2>23, <4>1
    <3>4. \A b \in S : \E i : \E d \in Int : Entry(W, L, b, d, i)
      <4>1. ASSUME NEW b \in S PROVE \E i : Entry(W, L, b, 0, i)
        BY <2>3, <2>23
      <4>2. 0 \in Int
        OBVIOUS
      <4>3. QED
        BY <4>1, <4>2
    <3>5. \A b, i, k : \A d, e \in Int : Entry(W, L, b, d, i) /\ Entry(W, L, b, e, k) => d = e /\ i = k
      BY <2>3, <2>23
    <3>6. QED
      BY <2>22, <3>1, <3>2, <3>3, <3>4, <3>5 DEF Holds
  <2>25. ASSUME NEW i \in 1 .. Len(q) PROVE GoodBlock(q[i]) /\ q[i].kind # "LH"
    <3>1. PICK d \in 0 .. L - 1 : d + 1 = i
      BY <2>15
    <3>2. q[i] = W[d]
      BY <2>14, <2>15, <3>1 DEF AsRegion
    <3>3. GoodBlock(W[d])
      BY <2>16, <2>17, <2>18, <2>19 DEF GoodBlock, Kinds
    <3>4. QED
      BY <2>21, <3>2, <3>3
  <2>26. GoodText(q, S, {})
    BY <2>13, <2>14, <2>15, <2>24, <2>25 DEF GoodText
  <2>27. QED
    BY <2>9, <2>26
<1>3. QED
  BY <1>1, <1>2

(* A commit's blocks.                                                      *)
LEMMA BodyText ==
  ASSUME NEW S \in SUBSET FsBlocks, NEW R \in SUBSET FsBlocks, \A b \in S : ver[b] + 1 \in 1 .. bound.ver
  PROVE  GoodText(Body(S, R), S, R)
<1>1. PICK p1 : p1 = Part(TRUE, S \intersect JData)
  OBVIOUS
<1>2. PICK p2 : p2 = Part(FALSE, S \ JData)
  OBVIOUS
<1>3. PICK p3 : p3 = IF R = {} THEN << >> ELSE << RV(R) >>
  OBVIOUS
<1>4. GoodText(p1, S \intersect JData, {})
  BY <1>1, PartText
<1>5. GoodText(p2, S \ JData, {})
  BY <1>2, PartText
<1>6. GoodText(p3, {}, R)
  BY <1>3, EmptyText, RevokeText
<1>7. GoodText(p1 \o p2, S, {})
  <2>1. PICK S1 : S1 = S \intersect JData
    OBVIOUS
  <2>2. PICK S2 : S2 = S \ JData
    OBVIOUS
  <2>3. GoodText(p1, S1, {}) /\ GoodText(p2, S2, {}) /\ S1 \intersect S2 = {} /\ S1 \union S2 = S
    BY <1>4, <1>5, <2>1, <2>2
  <2>4. GoodText(p1 \o p2, S1 \union S2, {})
    BY <2>3, TextJoin
  <2>5. QED
    BY <2>3, <2>4
<1>8. GoodText((p1 \o p2) \o p3, S, R)
  <2>1. PICK p : p = p1 \o p2
    OBVIOUS
  <2>2. GoodText(p \o p3, S \union {}, R)
    <3>1. PICK E : E = {}
      OBVIOUS
    <3>2. GoodText(p, S, {}) /\ GoodText(p3, E, R) /\ S \intersect E = {}
      BY <1>6, <1>7, <2>1, <3>1
    <3>3. GoodText(p \o p3, S \union E, R)
      BY <3>2, TextJoin
    <3>4. QED
      BY <3>1, <3>3
  <2>3. S \union {} = S
    OBVIOUS
  <2>4. QED
    BY <2>1, <2>2, <2>3
<1>9. Body(S, R) = (p1 \o p2) \o p3
  BY <1>1, <1>2, <1>3 DEF Body
<1>10. QED
  BY <1>8, <1>9

-----------------------------------------------------------------------------
(* The log written to, and what becomes of its active region.              *)
LEMMA WriteLogIs ==
  ASSUME LogsInv, NEW j \in Journals, NEW recs, WriteLog(j, Ahead(HeadPos(j), 1), recs)
  PROVE  /\ jlog'[j] = Written(jlog[j], HeadIn(jlog[j]), recs) /\ jlog' = [i \in Journals |-> jlog'[i]]
         /\ \A i \in Journals : i # j => jlog'[i] = jlog[i]
<1>1. jlog = [i \in Journals |-> jlog[i]]
  BY DEF LogsInv
<1>2. HeadPos(j) = HeadIn(jlog[j])
  BY HeadPosIs
<1>3. PICK J : J = jlog[j]
  OBVIOUS
<1>4. PICK h : h = HeadIn(J)
  OBVIOUS
<1>5. jlog' = [jlog EXCEPT ![j] = Written(J, h, recs)]
  BY <1>2, <1>3, <1>4 DEF WriteLog, Written
<1>6. QED
  BY <1>1, <1>3, <1>4, <1>5

LEMMA OtherLogs ==
  ASSUME LogsInv, NEW j \in Journals, jlog' = [i \in Journals |-> jlog'[i]],
         \A i \in Journals : i # j => jlog'[i] = jlog[i],
         GoodLog(jlog'[j]), NEW h, Ring(jlog'[j], h)
  PROVE  LogsInv'
<1>1. HeadIn(jlog'[j]) = h
  BY RingHead
<1>2. ASSUME NEW i \in Journals PROVE GoodLog(jlog'[i]) /\ Ring(jlog'[i], HeadIn(jlog'[i]))
  BY <1>1 DEF LogsInv
<1>3. QED
  BY <1>2 DEF LogsInv

LEMMA OtherJournals ==
  ASSUME RegionsInv, NEW j \in Journals, \A i \in Journals : i # j => jlog'[i] = jlog[i],
         \A i \in Journals : i # j => pend'[i] = pend[i] /\ txns'[i] = txns[i],
         up' = up, bound' = bound, GoodJournal(jlog'[j], pend'[j], txns'[j], up', bound'.ver)
  PROVE  RegionsInv'
<1>1. ASSUME NEW i \in Journals PROVE GoodJournal(jlog'[i], pend'[i], txns'[i], up', bound'.ver)
  <2>1. CASE i = j
    BY <2>1
  <2>2. CASE i # j
    BY <2>2 DEF RegionsInv
  <2>3. QED
    BY <2>1, <2>2
<1>2. QED
  BY <1>1 DEF RegionsInv

(* A write of n blocks fits beside the active region.                      *)
LEMMA Room ==
  ASSUME LogsInv, NEW j \in Journals, NEW n \in Nat, n <= FreeBlocks(j)
  PROVE  n < JdBlocks /\ (Open(jlog[j]) => Span(jlog[j]) + n < JdBlocks)
<1>1. PICK J : J = jlog[j]
  OBVIOUS
<1>2. PICK h : h = HeadIn(J) /\ h = HeadPos(j) /\ HeadOf(j) = J[h]
  BY <1>1, HeadPosIs
<1>3. GoodLog(J) /\ Ring(J, h)
  BY <1>1, <1>2 DEF LogsInv
<1>4. h \in Blocks /\ LogTail(J) \in Blocks /\ LogTail(J) = J[h].tail /\ Open(J) = ~J[h].unmount
      /\ Span(J) = Dist(LogTail(J), h)
  BY <1>3, LogFacts
<1>5. PICK t \in Blocks : t = LogTail(J)
  BY <1>4
<1>6. PICK x \in Blocks : x = Ahead(h, 1)
  BY <1>4, DistFromNext
<1>7. FreeBlocks(j) = IF J[h].unmount THEN JdBlocks - 1 ELSE Dist(x, t)
  BY <1>2, <1>4, <1>5, <1>6 DEF FreeBlocks, Dist
<1>8. JdBlocks \in Nat /\ h \in 0 .. JdBlocks - 1 /\ t \in 0 .. JdBlocks - 1 /\ x \in 0 .. JdBlocks - 1 /\ 1 \in 0 .. JdBlocks
  BY <1>4, SizeType
<1>9. x = IF h + 1 < JdBlocks THEN h + 1 ELSE h + 1 - JdBlocks
  BY <1>4, <1>6, <1>8, AheadValue
<1>10. Dist(x, t) = (IF x <= t THEN t - x ELSE t - x + JdBlocks)
  BY DistValue
<1>11. Dist(t, h) = (IF t <= h THEN h - t ELSE h - t + JdBlocks)
  BY <1>4, DistValue
<1>12. CASE J[h].unmount
  <2>1. FreeBlocks(j) = JdBlocks - 1 /\ ~Open(jlog[j])
    BY <1>1, <1>4, <1>7, <1>12
  <2>2. n < JdBlocks
    BY <1>8, <2>1
  <2>3. QED
    BY <2>1, <2>2
<1>13. CASE ~J[h].unmount
  <2>1. n <= Dist(x, t)
    BY <1>7, <1>13
  <2>2. n < JdBlocks /\ Dist(t, h) + n < JdBlocks
    BY <1>8, <1>9, <1>10, <1>11, <2>1
  <2>3. QED
    BY <1>1, <1>4, <1>5, <2>2
<1>14. QED
  BY <1>12, <1>13

(* The tail goes to where the write starts: all there is, is what is       *)
(* written.                                                                *)
LEMMA FreshRegion ==
  ASSUME NEW J, GoodLog(J), NEW h, Ring(J, h), NEW n, NEW recs, GoodRecs(recs, n, J[h].seq + 1),
         recs[n].tail = Ahead(h, 1), NEW K, K = Written(J, h, recs)
  PROVE  /\ LogTail(K) = Ahead(h, 1) /\ Open(K) = ~recs[n].unmount /\ Span(K) = n - 1
         /\ Region(K) = [d \in 0 .. (n - 1) - 1 |-> recs[d + 1]]
<1>1. n \in Nat /\ 0 < n /\ n < JdBlocks /\ DOMAIN recs = 1 .. n
  BY DEF GoodRecs
<1>2. PICK x : x = Ahead(h, n)
  OBVIOUS
<1>3. GoodLog(K) /\ Ring(K, x) /\ K[x] = recs[n]
  BY <1>2, RingWrite
<1>4. h \in Blocks
  BY DEF Ring
<1>5. PICK t \in Blocks : t = Ahead(h, 1)
  BY <1>4, DistFromNext
<1>6. LogTail(K) = t /\ Open(K) = ~recs[n].unmount /\ Span(K) = Dist(t, x)
  BY <1>3, <1>5, LogFacts
<1>7. \A d \in 0 .. n - 1 : /\ Ahead(t, d) = Ahead(h, d + 1) /\ Ahead(t, d) \in Blocks
                            /\ Dist(t, Ahead(t, d)) = d /\ Dist(h, Ahead(t, d)) = (IF d = JdBlocks - 1 THEN 0 ELSE d + 1)
  <2>1. TAKE d \in 0 .. n - 1
  <2>2. d \in Blocks /\ 1 \in Blocks /\ d \in 0 .. JdBlocks /\ 1 + d \in 0 .. JdBlocks /\ 1 + d = d + 1
    BY <1>1, SizeType
  <2>3. Ahead(t, d) = Ahead(h, 1 + d)
    BY <1>4, <1>5, <2>2, AheadAhead
  <2>4. Ahead(t, d) \in Blocks /\ Dist(t, Ahead(t, d)) = d
    BY <2>2, AheadValue, DistAhead
  <2>5. PICK e \in Blocks : e = d + 1
    BY <1>1, SizeType
  <2>6. Dist(h, Ahead(h, e)) = e
    BY <1>4, DistAhead
  <2>7. d # JdBlocks - 1
    BY <1>1, SizeType
  <2>8. QED
    BY <2>2, <2>3, <2>4, <2>5, <2>6, <2>7
<1>8. Span(K) = n - 1
  <2>1. n - 1 \in 0 .. n - 1 /\ (n - 1) + 1 = n
    BY <1>1
  <2>2. PICK d \in 0 .. n - 1 : d = n - 1 /\ d + 1 = n
    BY <2>1
  <2>3. Ahead(t, d) = x /\ Dist(t, x) = d
    BY <1>2, <1>7, <2>2
  <2>4. QED
    BY <1>6, <2>2, <2>3
<1>9. ASSUME NEW d \in 0 .. (n - 1) - 1 PROVE K[Ahead(t, d)] = recs[d + 1]
  <2>1. d \in 0 .. n - 1 /\ d + 1 \in 1 .. n /\ d # JdBlocks - 1
    BY <1>1, SizeType
  <2>2. PICK p \in Blocks : p = Ahead(t, d) /\ Dist(h, p) = d + 1
    BY <1>7, <2>1
  <2>3. K[p] = recs[Dist(h, p)]
    BY <1>1, <1>4, <2>1, <2>2, WrittenValue
  <2>4. QED
    BY <2>2, <2>3
<1>10. Region(K) = [d \in 0 .. (n - 1) - 1 |-> K[Ahead(t, d)]]
  BY <1>6, <1>8 DEF Region
<1>11. QED
  BY <1>5, <1>6, <1>8, <1>9, <1>10

(* The tail moves up by s: the rest of the region stays, then come the old *)
(* head and what is written.                                               *)
LEMMA KeptRegion ==
  ASSUME NEW J, GoodLog(J), NEW h, Ring(J, h), NEW n, NEW recs, GoodRecs(recs, n, J[h].seq + 1),
         NEW s \in 0 .. Span(J), recs[n].tail = Ahead(LogTail(J), s), Span(J) + n < JdBlocks,
         NEW K, K = Written(J, h, recs)
  PROVE  /\ LogTail(K) = Ahead(LogTail(J), s) /\ Open(K) = ~recs[n].unmount
         /\ Span(K) = (Span(J) - s) + n /\ Dist(LogTail(K), Ahead(h, 1)) = (Span(J) - s) + 1
         /\ \A d \in 0 .. (Span(J) - s) - 1 : Region(K)[d] = Region(J)[d + s]
         /\ Region(K)[Span(J) - s] = J[h]
         /\ \A i \in 1 .. n - 1 : Region(K)[(Span(J) - s) + i] = recs[i]
<1>1. n \in Nat /\ 0 < n /\ n < JdBlocks /\ DOMAIN recs = 1 .. n
  BY DEF GoodRecs
<1>2. PICK x : x = Ahead(h, n)
  OBVIOUS
<1>3. GoodLog(K) /\ Ring(K, x) /\ K[x] = recs[n]
  BY <1>2, RingWrite
<1>4. h \in Blocks /\ LogTail(J) \in Blocks /\ Span(J) = Dist(LogTail(J), h) /\ Span(J) \in Blocks
      /\ Ahead(LogTail(J), Span(J)) = h /\ Region(J) = [d \in 0 .. Span(J) - 1 |-> J[Ahead(LogTail(J), d)]]
  BY LogFacts
<1>5. PICK t \in Blocks, L \in Blocks : t = LogTail(J) /\ L = Span(J) /\ L = Dist(t, h) /\ Ahead(t, L) = h
  BY <1>4
<1>6. JdBlocks \in Nat /\ L \in 0 .. JdBlocks - 1 /\ L + n < JdBlocks /\ s \in 0 .. L /\ L \in Nat
  BY <1>5, SizeType
<1>7. PICK u \in Blocks : u = Ahead(t, s)
  <2>1. s \in 0 .. Dist(t, h)
    BY <1>5, <1>6
  <2>2. Ahead(t, s) \in Blocks
    BY <1>4, <2>1, DistLater
  <2>3. QED
    BY <2>2
<1>8. LogTail(K) = u /\ Open(K) = ~recs[n].unmount /\ Span(K) = Dist(u, x)
  BY <1>3, <1>5, <1>7, LogFacts
<1>9. PICK M \in Nat : M = L - s /\ M + n < JdBlocks
  BY <1>1, <1>6
<1>10. ASSUME NEW d \in 0 .. M + n
       PROVE  Ahead(u, d) = Ahead(t, s + d) /\ Ahead(u, d) \in Blocks /\ Dist(u, Ahead(u, d)) = d
  <2>1. d \in Blocks /\ s \in Blocks /\ s + d \in 0 .. JdBlocks /\ d \in 0 .. JdBlocks
    BY <1>1, <1>6, <1>9, SizeType
  <2>2. Ahead(u, d) = Ahead(t, s + d)
    BY <1>7, <2>1, AheadAhead
  <2>3. QED
    BY <2>1, <2>2, AheadValue, DistAhead
<1>11. ASSUME NEW i \in 0 .. n PROVE Ahead(u, M + i) = Ahead(h, i) /\ (i >= 1 => Dist(h, Ahead(h, i)) = i)
  <2>1. PICK d \in 0 .. M + n : d = M + i /\ s + d = L + i
    BY <1>1, <1>6, <1>9
  <2>2. Ahead(u, d) = Ahead(t, L + i)
    BY <1>10, <2>1
  <2>3. i \in Blocks /\ L + i \in 0 .. JdBlocks
    BY <1>1, <1>6, SizeType
  <2>4. Ahead(t, L + i) = Ahead(h, i)
    BY <1>5, <2>3, AheadAhead
  <2>5. Dist(h, Ahead(h, i)) = i
    BY <1>4, <2>3, DistAhead
  <2>6. QED
    BY <2>1, <2>2, <2>4, <2>5
<1>12. Span(K) = M + n /\ Dist(u, Ahead(h, 1)) = M + 1
  <2>1. n \in 0 .. n /\ 1 \in 0 .. n /\ M + n \in 0 .. M + n /\ M + 1 \in 0 .. M + n
    BY <1>1
  <2>2. PICK d \in 0 .. M + n, e \in 0 .. M + n : d = M + n /\ e = M + 1
    BY <2>1
  <2>3. Ahead(u, d) = Ahead(h, n) /\ Ahead(u, e) = Ahead(h, 1)
    BY <1>11, <2>1, <2>2
  <2>4. Dist(u, Ahead(u, d)) = d /\ Dist(u, Ahead(u, e)) = e
    BY <1>10
  <2>5. QED
    BY <1>2, <1>8, <2>2, <2>3, <2>4
<1>13. \A d \in 0 .. (M + n) - 1 : Region(K)[d] = K[Ahead(u, d)]
  BY <1>8, <1>12 DEF Region
<1>14. ASSUME NEW d \in 0 .. M - 1 PROVE Region(K)[d] = Region(J)[d + s]
  <2>1. PICK y \in 0 .. L - 1 : y = d + s /\ s + d = y /\ d \in 0 .. (M + n) - 1 /\ d \in 0 .. M + n
    BY <1>1, <1>6, <1>9
  <2>2. PICK p \in Blocks : p = Ahead(t, y) /\ p = Ahead(u, d)
    BY <1>10, <2>1
  <2>3. y \in 0 .. Dist(t, h) /\ y < Dist(t, h)
    BY <1>5, <1>6
  <2>4. Dist(h, Ahead(t, y)) = JdBlocks - Dist(t, h) + y
    BY <1>4, <2>3, DistBack
  <2>5. Dist(h, p) = JdBlocks - L + y
    BY <1>5, <2>2, <2>4
  <2>6. Dist(h, p) \notin 1 .. n
    BY <1>1, <1>6, <2>5
  <2>7. K[p] = J[p]
    <3>1. Written(J, h, recs)[p] = IF Dist(h, p) \in 1 .. n THEN recs[Dist(h, p)] ELSE J[p]
      BY <1>1, <1>4, WrittenValue
    <3>2. QED
      BY <2>6, <3>1
  <2>8. Region(J)[y] = J[Ahead(t, y)]
    BY <1>4, <1>5
  <2>9. QED
    BY <1>13, <2>1, <2>2, <2>7, <2>8
<1>15. Region(K)[M] = J[h]
  <2>1. M \in 0 .. (M + n) - 1 /\ 0 \in 0 .. n /\ M + 0 = M /\ 0 \in 0 .. JdBlocks /\ 0 \notin 1 .. n
    BY <1>1, <1>6
  <2>2. Ahead(u, M) = Ahead(h, 0)
    BY <1>11, <2>1
  <2>3. Ahead(h, 0) = h
    <3>1. h + 0 = h /\ h < JdBlocks
      BY <1>4, SizeType
    <3>2. QED
      BY <1>4, <2>1, <3>1, AheadValue
  <2>4. Dist(h, h) = 0
    <3>1. \A p \in Blocks : p = h => Dist(h, p) = 0
      BY <1>4, DistFromNext
    <3>2. QED
      BY <1>4, <3>1
  <2>5. K[h] = J[h]
    BY <1>1, <1>4, <2>1, <2>4, WrittenValue
  <2>6. QED
    BY <1>13, <2>1, <2>2, <2>3, <2>5
<1>16. ASSUME NEW i \in 1 .. n - 1 PROVE Region(K)[M + i] = recs[i]
  <2>1. i \in 0 .. n /\ i >= 1 /\ i \in 1 .. n /\ M + i \in 0 .. (M + n) - 1 /\ i \in 0 .. JdBlocks
    BY <1>1, <1>6
  <2>2. PICK p \in Blocks : p = Ahead(h, i) /\ Ahead(u, M + i) = p /\ Dist(h, p) = i
    BY <1>4, <1>11, <2>1, AheadValue
  <2>3. K[p] = recs[i]
    BY <1>1, <1>4, <2>1, <2>2, WrittenValue
  <2>4. QED
    BY <1>13, <2>1, <2>2, <2>3
<1>17. QED
  BY <1>5, <1>7, <1>8, <1>9, <1>12, <1>14, <1>15, <1>16

-----------------------------------------------------------------------------
(* The transactions in the active region.                                  *)
Txn == [first : Blocks, logged : SUBSET FsBlocks, need : SUBSET FsBlocks]

(* q without its first m transactions.                                     *)
KeptFrom(q, m, r) ==
    /\ q \in Seq(Txn) /\ r \in Seq(Txn) /\ m \in 0 .. Len(q) /\ Len(r) = Len(q) - m
    /\ \A k \in 1 .. Len(r) : r[k] = q[m + k]

LEMMA KeptIs ==
  ASSUME NEW q \in Seq(Txn), NEW r \in MayKeep(q)
  PROVE  \E m : KeptFrom(q, m, r) /\ \A i \in 1 .. Len(q) : i <= m => q[i].need = {}
<1>1. PICK n \in Nat : n = Len(q) /\ q \in [1 .. n -> Txn]
  OBVIOUS
<1>2. PICK m \in 0 .. n : r = SubSeq(q, m + 1, n) /\ \A i \in 1 .. m : q[i].need = {}
  BY <1>1 DEF MayKeep
<1>3. PICK l \in Nat : l = n - m
  BY <1>2
<1>4. r = [i \in 1 .. l |-> q[m + i]]
  <2>1. SubSeq(q, m + 1, n) = [i \in 1 .. (1 + n - (m + 1)) |-> q[i + (m + 1) - 1]]
    BY <1>1
  <2>2. 1 + n - (m + 1) = l
    BY <1>2, <1>3
  <2>3. \A i \in 1 .. l : i + (m + 1) - 1 = m + i
    BY <1>2
  <2>4. QED
    BY <1>2, <2>1, <2>2, <2>3
<1>5. \A i \in 1 .. l : m + i \in 1 .. n
  BY <1>2, <1>3
<1>6. r \in [1 .. l -> Txn]
  BY <1>1, <1>4, <1>5
<1>7. r \in Seq(Txn) /\ Len(r) = l
  BY <1>3, <1>6
<1>8. KeptFrom(q, m, r)
  BY <1>1, <1>2, <1>3, <1>4, <1>7 DEF KeptFrom
<1>9. QED
  BY <1>1, <1>2, <1>8

(* Transaction m + 1 starts at s; o counts from there.                     *)
FromOn(off, m, s, r, o) == s = off[m + 1] /\ \A k \in 1 .. Len(r) : o[k] = off[m + k] - s

(* What is logged from transaction m + 1 on is what lies behind its first  *)
(* block, at s.                                                            *)
LEMMA KeptTxns ==
  ASSUME NEW top, NEW W, NEW L \in Nat, GoodRegion(W, L, top), NEW q, NEW off, GoodTxns(W, L, q, off),
         NEW m, NEW r, KeptFrom(q, m, r), Len(r) # 0, NEW s, NEW o, FromOn(off, m, s, r, o),
         NEW V, \A d \in 0 .. (L - s) - 1 : V[d] = W[d + s]
  PROVE  /\ s \in 0 .. L - 1 /\ GoodTxns(V, L - s, r, o)
         /\ \A k \in DOMAIN r : \A b \in r[k].logged :
                \E d \in 0 .. L - 1, i \in 1 .. L : Entry(W, L, b, d, i) /\ s <= d
<1>1. PICK n \in Nat, l \in Nat : /\ n = Len(q) /\ l = Len(r) /\ m \in 0 .. n /\ l = n - m /\ l # 0
                                  /\ DOMAIN q = 1 .. n /\ DOMAIN r = 1 .. l
  BY DEF KeptFrom
<1>2. \A k \in 1 .. l : m + k \in 1 .. n /\ r[k] = q[m + k]
  <2>1. \A k \in 1 .. l : r[k] = q[m + k]
    BY <1>1 DEF KeptFrom
  <2>2. \A k \in 1 .. l : m + k \in 1 .. n
    BY <1>1
  <2>3. QED
    BY <2>1, <2>2
<1>3. 1 \in 1 .. l /\ m + 1 \in 1 .. n
  BY <1>1, <1>2
<1>4. /\ \A k \in 1 .. n : off[k] \in 0 .. L - 1
      /\ \A k, i \in 1 .. n : k < i => off[k] < off[i]
      /\ \A k \in 1 .. n : \A b \in q[k].logged :
            \E d \in 0 .. L - 1, i \in 1 .. L : Entry(W, L, b, d, i) /\ off[k] <= d
      /\ \A b \in FsBlocks, d \in 0 .. L - 1, i \in 1 .. L : Entry(W, L, b, d, i) =>
            \E k \in 1 .. n : b \in q[k].logged /\ \A e \in 1 .. n : off[e] <= d => e <= k
  BY <1>1 DEF GoodTxns
<1>5. s \in 0 .. L - 1 /\ s = off[m + 1]
  BY <1>3, <1>4 DEF FromOn
<1>6. ASSUME NEW k \in 1 .. l
      PROVE  off[m + k] \in 0 .. L - 1 /\ s <= off[m + k] /\ o[k] = off[m + k] - s /\ r[k] = q[m + k]
  <2>1. off[m + k] \in 0 .. L - 1 /\ r[k] = q[m + k] /\ o[k] = off[m + k] - s
    BY <1>1, <1>2, <1>4 DEF FromOn
  <2>2. CASE k = 1
    BY <1>1, <1>5, <2>1, <2>2
  <2>3. CASE k # 1
    <3>1. m + 1 < m + k
      BY <1>1, <2>3
    <3>2. off[m + 1] < off[m + k]
      BY <1>2, <1>3, <1>4, <3>1
    <3>3. QED
      BY <1>1, <1>5, <2>1, <3>2
  <2>4. QED
    BY <2>2, <2>3
<1>7. PICK M \in Nat : M = L - s
  BY <1>5
<1>8. \A k \in 1 .. l : o[k] \in 0 .. M - 1
  <2>1. TAKE k \in 1 .. l
  <2>2. PICK x \in 0 .. L - 1 : x = off[m + k] /\ s <= x /\ o[k] = x - s
    BY <1>6
  <2>3. QED
    BY <1>5, <1>7, <2>2
<1>9. ASSUME NEW k \in 1 .. l, NEW i \in 1 .. l, k < i PROVE o[k] < o[i]
  <2>1. m + k < m + i
    BY <1>1, <1>9
  <2>2. off[m + k] < off[m + i]
    BY <1>2, <1>4, <2>1
  <2>3. PICK x \in 0 .. L - 1, y \in 0 .. L - 1 : x = off[m + k] /\ y = off[m + i] /\ o[k] = x - s /\ o[i] = y - s
    BY <1>6
  <2>4. QED
    BY <1>5, <2>2, <2>3
<1>10. ASSUME NEW k \in 1 .. l, NEW b \in r[k].logged
       PROVE  \E d \in 0 .. L - 1, i \in 1 .. L : Entry(W, L, b, d, i) /\ off[m + k] <= d /\ s <= d
  <2>1. b \in q[m + k].logged
    BY <1>6
  <2>2. PICK d \in 0 .. L - 1, i \in 1 .. L : Entry(W, L, b, d, i) /\ off[m + k] <= d
    BY <1>2, <1>4, <2>1
  <2>3. PICK x \in 0 .. L - 1 : x = off[m + k] /\ s <= x
    BY <1>6
  <2>4. s <= d
    BY <1>5, <2>2, <2>3
  <2>5. QED
    BY <2>2, <2>4
<1>11. /\ GoodRegion(V, M, top)
       /\ \A b, i : \A d \in Int : Entry(V, M, b, d, i) <=> d >= 0 /\ Entry(W, L, b, d + s, i)
  <2>1. s \in 0 .. L
    BY <1>5
  <2>2. QED
    BY <1>7, <2>1, SuffixGood
<1>12. ASSUME NEW k \in 1 .. l, NEW b \in r[k].logged
       PROVE  \E d \in 0 .. M - 1, i \in 1 .. M : Entry(V, M, b, d, i) /\ o[k] <= d
  <2>1. PICK d \in 0 .. L - 1, i \in 1 .. L : Entry(W, L, b, d, i) /\ off[m + k] <= d /\ s <= d
    BY <1>10
  <2>2. PICK x \in 0 .. M - 1 : x = d - s /\ x + s = d /\ x >= 0 /\ x \in Int
    <3>1. s <= d
      BY <2>1
    <3>2. QED
      BY <1>5, <1>7, <3>1, SMTT(30)
  <2>3. Entry(V, M, b, x, i)
    BY <1>11, <2>1, <2>2
  <2>4. i \in 1 .. M
    BY <1>11, <2>3, EntryPlace
  <2>5. PICK y \in 0 .. L - 1 : y = off[m + k] /\ o[k] = y - s
    BY <1>6
  <2>6. o[k] <= x
    BY <1>5, <2>1, <2>2, <2>5
  <2>7. QED
    BY <2>3, <2>4, <2>6
<1>13. ASSUME NEW b \in FsBlocks, NEW d \in 0 .. M - 1, NEW i \in 1 .. M, Entry(V, M, b, d, i)
       PROVE  \E k \in 1 .. l : b \in r[k].logged /\ \A e \in 1 .. l : o[e] <= d => e <= k
  <2>1. PICK x \in 0 .. L - 1 : x = d + s /\ i \in 1 .. L /\ d \in Int /\ s <= x
    BY <1>5, <1>7
  <2>2. Entry(W, L, b, x, i)
    BY <1>11, <1>13, <2>1
  <2>3. PICK k \in 1 .. n : b \in q[k].logged /\ \A e \in 1 .. n : off[e] <= x => e <= k
    BY <1>4, <2>1, <2>2
  <2>4. m + 1 <= k
    BY <1>3, <1>5, <2>1, <2>3
  <2>5. PICK y \in 1 .. l : m + y = k
    BY <1>1, <2>4
  <2>6. b \in r[y].logged
    BY <1>2, <2>3, <2>5
  <2>7. ASSUME NEW e \in 1 .. l, o[e] <= d PROVE e <= y
    <3>1. PICK z \in 0 .. L - 1 : z = off[m + e] /\ o[e] = z - s
      BY <1>6
    <3>2. z <= x
      BY <1>5, <2>1, <2>7, <3>1
    <3>3. m + e <= k
      BY <1>2, <2>3, <3>1, <3>2
    <3>4. QED
      BY <1>1, <2>5, <3>3
  <2>8. QED
    BY <2>6, <2>7
<1>14. GoodTxns(V, M, r, o)
  BY <1>1, <1>8, <1>9, <1>12, <1>13 DEF GoodTxns
<1>15. QED
  BY <1>1, <1>5, <1>7, <1>10, <1>14

(* A region that gets longer by B, which holds the blocks S of one more    *)
(* transaction, or of none.                                                *)
LEMMA LongerTxns ==
  ASSUME NEW top, NEW W, NEW V, NEW M, NEW B, NEW N, Joins(W, V, M, B, N),
         GoodRegion(V, M, top), GoodRegion(B, N, top), \A b, i : \A d \in Int : ~Entry(B, N, b, d, i),
         NEW q, NEW off, GoodTxns(V, M, q, off)
  PROVE  GoodTxns(W, M + N, q, off)
<1>1. M \in Nat /\ N \in Nat
  BY DEF Joins
<1>2. PICK L \in Nat : L = M + N
  BY <1>1
<1>3. \A b, i : \A d \in Int : Entry(W, L, b, d, i) <=> d < M /\ Entry(V, M, b, d, i)
  <2>1. \A b, i : \A d \in Int : Entry(W, L, b, d, i) <=>
                \/ d < M /\ Entry(V, M, b, d, i)
                \/ d >= M /\ Entry(B, N, b, d - M, i)
    BY <1>2, JoinGood
  <2>2. \A d \in Int : d - M \in Int
    BY <1>1
  <2>3. QED
    BY <2>1, <2>2
<1>4. /\ \A d \in 0 .. M - 1 : d \in 0 .. L - 1 /\ d < M /\ d \in Int
      /\ \A i \in 1 .. M : i \in 1 .. L
      /\ \A d \in 0 .. L - 1 : d \in Int /\ (d < M => d \in 0 .. M - 1)
  BY <1>1, <1>2
<1>5. \A b, i : \A d \in 0 .. L - 1 : Entry(W, L, b, d, i) => d \in 0 .. M - 1 /\ i \in 1 .. M /\ Entry(V, M, b, d, i)
  BY <1>1, <1>3, <1>4, EntryPlace
<1>6. \A k \in DOMAIN q : off[k] \in 0 .. L - 1
  BY <1>4 DEF GoodTxns
<1>7. \A k \in DOMAIN q : \A b \in q[k].logged :
        \E d \in 0 .. L - 1, i \in 1 .. L : Entry(W, L, b, d, i) /\ off[k] <= d
  <2>1. TAKE k \in DOMAIN q
  <2>2. TAKE b \in q[k].logged
  <2>3. PICK d \in 0 .. M - 1, i \in 1 .. M : Entry(V, M, b, d, i) /\ off[k] <= d
    BY DEF GoodTxns
  <2>4. QED
    BY <1>3, <1>4, <2>3
<1>8. \A b \in FsBlocks, d \in 0 .. L - 1, i \in 1 .. L : Entry(W, L, b, d, i) =>
        \E k \in DOMAIN q : b \in q[k].logged /\ \A m \in DOMAIN q : off[m] <= d => m <= k
  BY <1>5 DEF GoodTxns
<1>9. GoodTxns(W, L, q, off)
  BY <1>6, <1>7, <1>8 DEF GoodTxns
<1>10. QED
  BY <1>2, <1>9

(* r is q and a transaction that logs S, at M.                             *)
OneMore(q, off, S, M, r, o) ==
    \E l \in Nat : /\ DOMAIN q = 1 .. l /\ DOMAIN r = 1 .. l + 1
                   /\ \A k \in 1 .. l : r[k] = q[k] /\ o[k] = off[k]
                   /\ r[l + 1].logged = S /\ o[l + 1] = M

LEMMA AddTxn ==
  ASSUME NEW W, NEW V, NEW M, NEW B, NEW N, Joins(W, V, M, B, N),
         GoodRegion(V, M, bound.ver), NEW S, NEW R, Holds(B, N, S, R), N # 0,
         NEW q, NEW off, GoodTxns(V, M, q, off), NEW r, NEW o, OneMore(q, off, S, M, r, o)
  PROVE  GoodTxns(W, M + N, r, o)
<1>1. M \in Nat /\ N \in Nat /\ N > 0
  BY DEF Joins
<1>2. PICK L \in Nat : L = M + N /\ M \in 0 .. L - 1
  BY <1>1
<1>3. PICK top : top = bound.ver
  OBVIOUS
<1>4. GoodRegion(V, M, top) /\ GoodRegion(B, N, top)
  BY <1>3 DEF Holds
<1>5. \A b, i : \A d \in Int : Entry(W, L, b, d, i) <=>
                \/ d < M /\ Entry(V, M, b, d, i)
                \/ d >= M /\ Entry(B, N, b, d - M, i)
  <2>1. \A b, i : \A d \in Int : Entry(W, M + N, b, d, i) <=>
                \/ d < M /\ Entry(V, M, b, d, i)
                \/ d >= M /\ Entry(B, N, b, d - M, i)
    BY <1>4, JoinGood
  <2>2. QED
    BY <1>2, <2>1
<1>0. PICK l \in Nat : /\ DOMAIN q = 1 .. l /\ DOMAIN r = 1 .. l + 1
                       /\ \A k \in 1 .. l : r[k] = q[k] /\ o[k] = off[k]
                       /\ r[l + 1].logged = S /\ o[l + 1] = M
  BY DEF OneMore
<1>6. /\ \A k \in 1 .. l : off[k] \in 0 .. M - 1
      /\ \A k, i \in 1 .. l : k < i => off[k] < off[i]
      /\ \A k \in 1 .. l : \A b \in q[k].logged :
            \E d \in 0 .. M - 1, i \in 1 .. M : Entry(V, M, b, d, i) /\ off[k] <= d
      /\ \A b \in FsBlocks, d \in 0 .. M - 1, i \in 1 .. M : Entry(V, M, b, d, i) =>
            \E k \in 1 .. l : b \in q[k].logged /\ \A e \in 1 .. l : off[e] <= d => e <= k
  BY <1>0 DEF GoodTxns
<1>7. /\ \A d \in 0 .. M - 1 : d \in 0 .. L - 1 /\ d < M /\ d \in Int
      /\ \A i \in 1 .. M : i \in 1 .. L
  BY <1>1, <1>2
<1>8. \A k \in 1 .. l + 1 : k \in 1 .. l \/ k = l + 1
  OBVIOUS
<1>9. \A k \in 1 .. l + 1 : o[k] \in 0 .. L - 1
  BY <1>0, <1>2, <1>6, <1>7, <1>8
<1>10. ASSUME NEW k \in 1 .. l + 1, NEW i \in 1 .. l + 1, k < i PROVE o[k] < o[i]
  <2>1. k \in 1 .. l
    BY <1>10
  <2>2. CASE i = l + 1
    BY <1>0, <1>1, <1>6, <2>1, <2>2
  <2>3. CASE i # l + 1
    <3>1. i \in 1 .. l
      BY <2>3
    <3>2. off[k] < off[i]
      BY <1>6, <1>10, <2>1, <3>1
    <3>3. QED
      BY <1>0, <2>1, <3>1, <3>2
  <2>4. QED
    BY <2>2, <2>3
<1>11. ASSUME NEW k \in 1 .. l + 1, NEW b \in r[k].logged
       PROVE  \E d \in 0 .. L - 1, i \in 1 .. L : Entry(W, L, b, d, i) /\ o[k] <= d
  <2>1. CASE k \in 1 .. l
    <3>1. PICK d \in 0 .. M - 1, i \in 1 .. M : Entry(V, M, b, d, i) /\ off[k] <= d
      BY <1>0, <1>6, <2>1
    <3>2. QED
      BY <1>0, <1>5, <1>7, <2>1, <3>1
  <2>2. CASE k = l + 1
    <3>1. b \in S
      BY <1>0, <2>2
    <3>2. PICK i : \E d \in Int : Entry(B, N, b, d, i)
      BY <3>1 DEF Holds
    <3>3. PICK d \in Int : Entry(B, N, b, d, i)
      BY <3>2
    <3>4. d \in 0 .. N - 1 /\ i \in 1 .. N
      BY <1>1, <1>4, <3>3, EntryPlace
    <3>5. PICK x \in 0 .. L - 1 : x = M + d /\ x - M = d /\ x >= M /\ x \in Int /\ i \in 1 .. L
      BY <1>1, <1>2, <3>4
    <3>6. Entry(W, L, b, x, i)
      BY <1>5, <3>3, <3>5
    <3>7. QED
      BY <1>0, <1>1, <2>2, <3>5, <3>6
  <2>3. QED
    BY <1>8, <2>1, <2>2
<1>12. ASSUME NEW b \in FsBlocks, NEW d \in 0 .. L - 1, NEW i \in 1 .. L, Entry(W, L, b, d, i)
       PROVE  \E k \in 1 .. l + 1 : b \in r[k].logged /\ \A e \in 1 .. l + 1 : o[e] <= d => e <= k
  <2>1. CASE d < M /\ Entry(V, M, b, d, i)
    <3>1. d \in 0 .. M - 1 /\ i \in 1 .. M
      BY <1>1, <1>4, <2>1, EntryPlace
    <3>2. PICK k \in 1 .. l : b \in q[k].logged /\ \A e \in 1 .. l : off[e] <= d => e <= k
      BY <1>6, <2>1, <3>1
    <3>3. \A e \in 1 .. l + 1 : o[e] <= d => e <= k
      <4>1. ~(o[l + 1] <= d)
        BY <1>0, <1>1, <3>1
      <4>2. QED
        BY <1>0, <1>8, <3>2, <4>1
    <3>4. k \in 1 .. l + 1 /\ b \in r[k].logged
      BY <1>0, <3>2
    <3>5. QED
      BY <3>3, <3>4
  <2>2. CASE d >= M /\ Entry(B, N, b, d - M, i)
    <3>1. d - M \in Int
      BY <1>1
    <3>2. b \in S
      BY <2>2, <3>1 DEF Holds
    <3>3. l + 1 \in 1 .. l + 1 /\ \A e \in 1 .. l + 1 : e <= l + 1
      OBVIOUS
    <3>4. QED
      BY <1>0, <3>2, <3>3
  <2>3. QED
    BY <1>5, <1>12, <2>1, <2>2
<1>13. GoodTxns(W, L, r, o)
  BY <1>0, <1>9, <1>10, <1>11, <1>12 DEF GoodTxns
<1>14. QED
  BY <1>2, <1>13

-----------------------------------------------------------------------------
(* A commit: what it writes, and what is pending and in the log after it.  *)
CommitRecs(body, s, t) == body \o << LH(s, t, FALSE) >>
NextPend(p, S, R, now) == [b \in FsBlocks |->
    IF b \in S THEN ver[b] + 1 ELSE IF b \in R \/ \A i \in DOMAIN now : b \notin now[i].logged THEN 0 ELSE p[b]]
NextTxns(q, body, S, pos) ==
    IF body = << >> THEN q ELSE Append(q, [first |-> pos, logged |-> S, need |-> S])

Fits(body, S, R, n) == GoodText(body, S, R) /\ n = Len(body) + 1 /\ n < JdBlocks

LEMMA RecsAre ==
  ASSUME NEW body, NEW S, NEW R, NEW n, Fits(body, S, R, n), NEW s \in Nat, NEW t \in Blocks,
         NEW recs, recs = CommitRecs(body, s, t)
  PROVE  GoodRecs(recs, n, s) /\ recs[n].tail = t /\ ~recs[n].unmount /\ \A i \in 1 .. n - 1 : recs[i] = body[i]
<1>0. GoodText(body, S, R) /\ n = Len(body) + 1 /\ n < JdBlocks
  BY DEF Fits
<1>1. PICK T1 : body \in Seq(T1)
  BY <1>0 DEF GoodText
<1>2. PICK r : r = LH(s, t, FALSE)
  OBVIOUS
<1>3. PICK one : one = << r >>
  OBVIOUS
<1>4. one \in Seq({r}) /\ Len(one) = 1 /\ one[1] = r
  BY <1>3
<1>5. recs = body \o one
  BY <1>2, <1>3 DEF CommitRecs
<1>6. PICK l \in Nat : l = Len(body) /\ n = l + 1
  BY <1>0, <1>1
<1>7. /\ recs \in Seq(T1 \union {r}) /\ Len(recs) = n /\ recs[n] = r
      /\ \A i \in 1 .. l : recs[i] = body[i]
  <2>1. PICK T2 : T2 = {r}
    OBVIOUS
  <2>2. one \in Seq(T2)
    BY <1>4, <2>1
  <2>3. /\ body \o one \in Seq(T1 \union T2) /\ Len(body \o one) = Len(body) + Len(one)
        /\ \A i \in 1 .. Len(body) : (body \o one)[i] = body[i]
        /\ \A i \in 1 .. Len(one) : (body \o one)[Len(body) + i] = one[i]
    BY <1>1, <2>2, JoinSeq
  <2>4. 1 \in 1 .. 1
    OBVIOUS
  <2>5. QED
    BY <1>4, <1>5, <1>6, <2>1, <2>3, <2>4
<1>8. DOMAIN recs = 1 .. n
  BY <1>6, <1>7
<1>9. r.kind = "LH" /\ r.seq = s /\ r.tail = t /\ ~r.unmount /\ GoodBlock(r)
  <2>1. r.kind = "LH" /\ r.seq = s /\ r.tail = t /\ r.unmount = FALSE /\ "LH" # "DATA"
    BY <1>2 DEF LH
  <2>2. QED
    BY <2>1 DEF GoodBlock, Kinds
<1>10. \A i \in 1 .. l : GoodBlock(recs[i]) /\ recs[i].kind # "LH"
  BY <1>0, <1>6, <1>7 DEF GoodText
<1>11. \A i \in 1 .. n : i \in 1 .. l \/ i = n
  BY <1>6
<1>12. \A i \in 1 .. n : i < n => i \in 1 .. l
  BY <1>6
<1>13. GoodRecs(recs, n, s)
  <2>1. n \in Nat /\ 0 < n
    BY <1>6
  <2>2. \A i \in 1 .. n : GoodBlock(recs[i])
    BY <1>7, <1>9, <1>10, <1>11
  <2>3. \A i \in 1 .. n : i < n => recs[i].kind # "LH"
    BY <1>10, <1>12
  <2>4. QED
    BY <1>0, <1>7, <1>8, <1>9, <2>1, <2>2, <2>3 DEF GoodRecs
<1>14. \A i \in 1 .. n - 1 : recs[i] = body[i]
  BY <1>6, <1>7
<1>15. QED
  BY <1>7, <1>9, <1>13, <1>14

(* What is pending after a commit is what its log replays.                 *)
LEMMA FreshPend ==
  ASSUME NEW B, NEW N, NEW S \in SUBSET FsBlocks, NEW R, Holds(B, N, S, R), S \intersect R = {},
         \A b \in FsBlocks : ver[b] \in Nat,
         NEW now, \A i \in DOMAIN now : now[i].logged = S, NEW p, NEW b \in FsBlocks
  PROVE  Replays(B, N, b, NextPend(p, S, R, now)[b])
<1>1. CASE b \in S
  <2>1. NextPend(p, S, R, now)[b] = ver[b] + 1
    BY <1>1 DEF NextPend
  <2>2. Replays(B, N, b, ver[b] + 1)
    BY <1>1, HoldsReplays
  <2>3. QED
    BY <2>1, <2>2
<1>2. CASE b \notin S
  <2>1. NextPend(p, S, R, now)[b] = 0
    BY <1>2 DEF NextPend
  <2>2. ASSUME NEW d \in 0 .. N - 1, NEW i PROVE ~Entry(B, N, b, d, i)
    <3>1. d \in Int
      BY DEF Holds
    <3>2. QED
      BY <1>2, <3>1 DEF Holds
  <2>3. Replays(B, N, b, 0)
    BY <2>2 DEF Replays
  <2>4. QED
    BY <2>1, <2>3
<1>3. QED
  BY <1>1, <1>2

LEMMA KeptPend ==
  ASSUME NEW W, NEW V, NEW M, NEW B, NEW N, Joins(W, V, M, B, N), GoodRegion(V, M, bound.ver),
         NEW S \in SUBSET FsBlocks, NEW R, Holds(B, N, S, R), S \intersect R = {},
         \A b \in FsBlocks : ver[b] \in Nat,
         NEW q, NEW off, GoodTxns(V, M, q, off),
         NEW p, \A c \in FsBlocks, k \in DOMAIN q : c \in q[k].logged => Replays(V, M, c, p[c]),
         NEW now, \A c : (\E i \in DOMAIN now : c \in now[i].logged) <=> c \in S \/ \E k \in DOMAIN q : c \in q[k].logged,
         NEW b \in FsBlocks
  PROVE  Replays(W, M + N, b, NextPend(p, S, R, now)[b])
<1>1. PICK v : v = NextPend(p, S, R, now)[b]
  OBVIOUS
<1>2. M \in Nat /\ N \in Nat
  BY DEF Joins
<1>3. PICK top : top = bound.ver
  OBVIOUS
<1>4. GoodRegion(V, M, top) /\ GoodRegion(B, N, top)
  BY <1>3 DEF Holds
<1>5. /\ \A w : w # 0 /\ Replays(B, N, b, w) => Replays(W, M + N, b, w)
      /\ (\A i : \A d \in Int : ~Entry(B, N, b, d, i)) /\ (\A d \in Int : ~Revokes(B, N, b, d))
                => \A w : Replays(V, M, b, w) => Replays(W, M + N, b, w)
      /\ (\A i : \A d \in Int : ~Entry(B, N, b, d, i)) /\ (\E d \in Int : Revokes(B, N, b, d))
                => Replays(W, M + N, b, 0)
  BY <1>4, JoinReplays
<1>6. CASE b \in S
  <2>1. v = ver[b] + 1 /\ v # 0
    BY <1>1, <1>6 DEF NextPend
  <2>2. Replays(B, N, b, v)
    BY <1>6, <2>1, HoldsReplays
  <2>3. QED
    BY <1>1, <1>5, <2>1, <2>2
<1>7. CASE b \notin S /\ b \in R
  <2>1. v = 0
    BY <1>1, <1>7 DEF NextPend
  <2>2. (\A i : \A d \in Int : ~Entry(B, N, b, d, i)) /\ \E d \in Int : Revokes(B, N, b, d)
    BY <1>7 DEF Holds
  <2>3. QED
    BY <1>1, <1>5, <2>1, <2>2
<1>8. CASE b \notin S /\ b \notin R
  <2>1. (\A i : \A d \in Int : ~Entry(B, N, b, d, i)) /\ \A d \in Int : ~Revokes(B, N, b, d)
    BY <1>8 DEF Holds
  <2>2. CASE \E k \in DOMAIN q : b \in q[k].logged
    <3>1. v = p[b]
      BY <1>1, <1>8, <2>2 DEF NextPend
    <3>2. Replays(V, M, b, v)
      BY <2>2, <3>1
    <3>3. QED
      BY <1>1, <1>5, <2>1, <3>2
  <2>3. CASE ~\E k \in DOMAIN q : b \in q[k].logged
    <3>1. v = 0
      BY <1>1, <1>8, <2>3 DEF NextPend
    <3>2. Replays(V, M, b, 0)
      BY <2>3 DEF Replays, GoodTxns
    <3>3. QED
      BY <1>1, <1>5, <2>1, <3>1, <3>2
  <2>4. QED
    BY <2>2, <2>3
<1>9. QED
  BY <1>6, <1>7, <1>8

-----------------------------------------------------------------------------
(* What a commit makes of the journal it is written to.                    *)
CommitTo(J, h, S, R, body, n) ==
    /\ GoodLog(J) /\ Ring(J, h)
    /\ S \in SUBSET FsBlocks /\ S \intersect R = {} /\ GoodText(body, S, R)
    /\ n = Len(body) + 1 /\ n < JdBlocks
    /\ \A b \in FsBlocks : ver[b] \in Nat

LEMMA CommitFacts ==
  ASSUME NEW J, NEW h, NEW S, NEW R, NEW body, NEW n, CommitTo(J, h, S, R, body, n)
  PROVE  /\ h \in Blocks /\ J[h].seq + 1 \in Nat /\ Ahead(h, 1) \in Blocks
         /\ Len(body) \in Nat /\ n \in Nat /\ n - 1 = Len(body) /\ (body = << >> <=> Len(body) = 0)
         /\ Holds(AsRegion(body), Len(body), S, R) /\ (body = << >> => S = {})
<1>1. h \in Blocks /\ J[h].seq \in Nat
  BY LogFacts DEF CommitTo
<1>2. Ahead(h, 1) \in Blocks
  BY <1>1, DistFromNext
<1>3. PICK T : body \in Seq(T)
  BY DEF CommitTo, GoodText
<1>4. Len(body) \in Nat /\ (body = << >> <=> Len(body) = 0)
  BY <1>3
<1>5. n \in Nat /\ n - 1 = Len(body)
  BY <1>4 DEF CommitTo
<1>6. Holds(AsRegion(body), Len(body), S, R)
  BY DEF CommitTo, GoodText
<1>7. ASSUME Len(body) = 0 PROVE S = {}
  <2>1. \A b, i : \A d \in Int : ~Entry(AsRegion(body), Len(body), b, d, i)
    BY <1>7 DEF Entry
  <2>2. QED
    BY <1>6, <2>1 DEF Holds
<1>8. QED
  BY <1>1, <1>2, <1>4, <1>5, <1>6, <1>7

LEMMA SameOffsets ==
  ASSUME NEW W, NEW L, NEW q, NEW off, GoodTxns(W, L, q, off), NEW o, \A k \in DOMAIN q : o[k] = off[k]
  PROVE  GoodTxns(W, L, q, o)
  BY DEF GoodTxns

(* No transaction is kept: the region is what is written.                  *)
LEMMA CommitFresh ==
  ASSUME NEW J, NEW h, NEW S, NEW R, NEW body, NEW n, CommitTo(J, h, S, R, body, n),
         NEW K, K = Written(J, h, CommitRecs(body, J[h].seq + 1, Ahead(h, 1))),
         NEW p, NEW now, now = NextTxns(<< >>, body, S, Ahead(h, 1))
  PROVE  /\ GoodLog(K) /\ \E x : Ring(K, x)
         /\ GoodJournal(K, NextPend(p, S, R, now), now, TRUE, bound.ver)
<1>1. /\ h \in Blocks /\ J[h].seq + 1 \in Nat /\ Ahead(h, 1) \in Blocks
      /\ Len(body) \in Nat /\ n \in Nat /\ n - 1 = Len(body) /\ (body = << >> <=> Len(body) = 0)
      /\ Holds(AsRegion(body), Len(body), S, R) /\ (body = << >> => S = {})
  BY CommitFacts
<1>2. /\ GoodLog(J) /\ Ring(J, h) /\ S \in SUBSET FsBlocks /\ S \intersect R = {} /\ GoodText(body, S, R)
      /\ n = Len(body) + 1 /\ n < JdBlocks /\ \A b \in FsBlocks : ver[b] \in Nat
  BY DEF CommitTo
<1>3. PICK x \in Blocks : x = Ahead(h, 1)
  BY <1>1
<1>4. PICK s \in Nat : s = J[h].seq + 1
  BY <1>1
<1>5. PICK recs : recs = CommitRecs(body, s, x)
  OBVIOUS
<1>6. GoodRecs(recs, n, s) /\ recs[n].tail = x /\ ~recs[n].unmount /\ \A i \in 1 .. n - 1 : recs[i] = body[i]
  <2>1. Fits(body, S, R, n)
    BY <1>2 DEF Fits
  <2>2. QED
    BY <1>3, <1>4, <1>5, <2>1, RecsAre
<1>7. recs[n].tail = x /\ ~recs[n].unmount
  BY <1>6
<1>8. K = Written(J, h, recs)
  BY <1>3, <1>4, <1>5
<1>9. GoodLog(K) /\ Ring(K, Ahead(h, n))
  BY <1>2, <1>4, <1>6, <1>8, RingWrite
<1>10. /\ LogTail(K) = Ahead(h, 1) /\ Open(K) = ~recs[n].unmount /\ Span(K) = n - 1
       /\ Region(K) = [d \in 0 .. (n - 1) - 1 |-> recs[d + 1]]
  <2>1. GoodRecs(recs, n, J[h].seq + 1) /\ recs[n].tail = Ahead(h, 1)
    BY <1>3, <1>4, <1>6, <1>7
  <2>2. QED
    BY <1>2, <1>8, <2>1, FreshRegion
<1>11. PICK N \in Nat : N = Len(body)
  BY <1>1
<1>12. PICK B : B = AsRegion(body)
  OBVIOUS
<1>13. LogTail(K) = x /\ Open(K) /\ Span(K) = N /\ Region(K) = B
  <2>1. \A d \in 0 .. N - 1 : d + 1 \in 1 .. n - 1
    BY <1>1, <1>11
  <2>2. [d \in 0 .. (n - 1) - 1 |-> recs[d + 1]] = [d \in 0 .. N - 1 |-> body[d + 1]]
    BY <1>1, <1>6, <1>11, <2>1
  <2>3. QED
    BY <1>1, <1>3, <1>7, <1>10, <1>11, <1>12, <2>2 DEF AsRegion
<1>14. Holds(B, N, S, R)
  BY <1>1, <1>11, <1>12
<1>15. PICK top : top = bound.ver
  OBVIOUS
<1>16. GoodRegion(B, N, top) /\ Sound(B, N)
  BY <1>14, <1>15 DEF Holds
<1>17. /\ body = << >> => now = << >> /\ DOMAIN now = {}
       /\ body # << >> => DOMAIN now = 1 .. 1 /\ now[1].logged = S /\ now[1].first = x
  <2>1. CASE body = << >>
    BY <2>1 DEF NextTxns
  <2>2. CASE body # << >>
    <3>1. PICK e : e = [first |-> x, logged |-> S, need |-> S]
      OBVIOUS
    <3>2. e.logged = S /\ e.first = x
      BY <3>1
    <3>3. now = Append(<< >>, e)
      BY <1>3, <2>2, <3>1 DEF NextTxns
    <3>4. now = << e >>
      BY <3>3
    <3>5. DOMAIN now = 1 .. 1 /\ now[1] = e
      BY <3>4
    <3>6. QED
      BY <2>2, <3>2, <3>5
  <2>3. QED
    BY <2>1, <2>2
<1>18. \A i \in DOMAIN now : now[i].logged = S
  BY <1>17
<1>19. ASSUME NEW b \in FsBlocks PROVE Replays(B, N, b, NextPend(p, S, R, now)[b])
  BY <1>2, <1>14, <1>18, FreshPend
<1>20. PICK o : o = Offsets(x, now)
  OBVIOUS
<1>21. GoodTxns(B, N, now, o)
  <2>1. CASE body = << >>
    <3>1. N = 0 /\ DOMAIN now = {} /\ 0 .. N - 1 = {}
      BY <1>1, <1>11, <1>17, <2>1
    <3>2. QED
      BY <3>1 DEF GoodTxns
  <2>2. CASE body # << >>
    <3>1. N > 0 /\ 0 \in 0 .. N - 1
      BY <1>1, <1>11, <2>2
    <3>2. DOMAIN now = 1 .. 1 /\ now[1].logged = S /\ now[1].first = x
      BY <1>17, <2>2
    <3>3. o[1] = 0
      <4>1. \A y \in Blocks : y = x => Dist(x, y) = 0
        BY <1>3, DistFromNext
      <4>2. o[1] = Dist(x, x)
        BY <1>20, <3>2 DEF Offsets
      <4>3. QED
        BY <1>3, <4>1, <4>2
    <3>4. \A k \in 1 .. 1 : k = 1 /\ \A i \in 1 .. 1 : ~(k < i) /\ i <= k
      OBVIOUS
    <3>5. ASSUME NEW b \in S PROVE \E d \in 0 .. N - 1, i \in 1 .. N : Entry(B, N, b, d, i) /\ 0 <= d
      <4>1. PICK i : \E d \in Int : Entry(B, N, b, d, i)
        BY <1>14 DEF Holds
      <4>2. PICK d \in Int : Entry(B, N, b, d, i)
        BY <4>1
      <4>3. d \in 0 .. N - 1 /\ i \in 1 .. N
        BY <1>11, <1>16, <4>2, EntryPlace
      <4>4. QED
        BY <4>2, <4>3
    <3>6. ASSUME NEW b \in FsBlocks, NEW d \in 0 .. N - 1, NEW i \in 1 .. N, Entry(B, N, b, d, i) PROVE b \in S
      <4>1. d \in Int
        OBVIOUS
      <4>2. QED
        BY <1>14, <3>6, <4>1 DEF Holds
    <3>7. QED
      BY <3>1, <3>2, <3>3, <3>4, <3>5, <3>6 DEF GoodTxns
  <2>3. QED
    BY <2>1, <2>2
<1>22. GoodJournal(K, NextPend(p, S, R, now), now, TRUE, bound.ver)
  BY <1>13, <1>15, <1>16, <1>19, <1>20, <1>21 DEF GoodJournal
<1>23. QED
  BY <1>9, <1>22

(* The old head, once it lies in the region, holds nothing.                *)
LEMMA HeaderPart ==
  ASSUME NEW top, NEW H, H[0].kind = "LH"
  PROVE  /\ GoodRegion(H, 1, top) /\ Sound(H, 1)
         /\ \A b, i, d : ~Entry(H, 1, b, d, i)
         /\ \A b, d : ~Revokes(H, 1, b, d)
<1>1. \A d \in 0 .. 1 - 1 : d = 0
  OBVIOUS
<1>2. \A d \in 0 .. 1 - 1 : H[d].kind = "LH"
  BY <1>1
<1>3. "LH" # "RV" /\ "LH" # "LD" /\ "LH" # "JUNK"
  OBVIOUS
<1>4. QED
  BY <1>2, <1>3 DEF GoodRegion, Sound, Entry, Revokes

LEMMA WithHeader ==
  ASSUME NEW top, NEW A, NEW V, NEW M \in Nat, GoodRegion(V, M, top), Sound(V, M),
         \A d \in 0 .. M - 1 : A[d] = V[d], A[M].kind = "LH",
         NEW r, NEW o, GoodTxns(V, M, r, o)
  PROVE  /\ GoodRegion(A, M + 1, top) /\ Sound(A, M + 1) /\ GoodTxns(A, M + 1, r, o)
         /\ \A b, v : Replays(V, M, b, v) => Replays(A, M + 1, b, v)
<1>1. PICK H : H = [d \in 0 .. 0 |-> A[M]]
  OBVIOUS
<1>2. H[0] = A[M]
  BY <1>1
<1>3. /\ GoodRegion(H, 1, top) /\ Sound(H, 1)
      /\ \A b, i, d : ~Entry(H, 1, b, d, i)
      /\ \A b, d : ~Revokes(H, 1, b, d)
  BY <1>2, HeaderPart
<1>4. Joins(A, V, M, H, 1)
  <2>1. \A d \in 0 .. 1 - 1 : d = 0 /\ M + d = M
    OBVIOUS
  <2>2. QED
    BY <1>2, <2>1 DEF Joins
<1>5. GoodRegion(A, M + 1, top) /\ Sound(A, M + 1)
  BY <1>3, <1>4, JoinGood
<1>6. ASSUME NEW b, NEW v, Replays(V, M, b, v) PROVE Replays(A, M + 1, b, v)
  <2>1. (\A i : \A d \in Int : ~Entry(H, 1, b, d, i)) /\ (\A d \in Int : ~Revokes(H, 1, b, d))
    BY <1>3
  <2>2. \A w : Replays(V, M, b, w) => Replays(A, M + 1, b, w)
    BY <1>3, <1>4, <2>1, JoinReplays
  <2>3. QED
    BY <1>6, <2>2
<1>7. GoodTxns(A, M + 1, r, o)
  <2>1. \A b, i : \A d \in Int : ~Entry(H, 1, b, d, i)
    BY <1>3
  <2>2. QED
    BY <1>3, <1>4, <2>1, LongerTxns
<1>8. QED
  BY <1>5, <1>6, <1>7

(* What is kept of an open journal J from transaction m + 1 on: region A,  *)
(* which ends with the old head.                                           *)
Kept(J, p, r, f, A, M, o, top) ==
    /\ M \in Nat /\ M > 0 /\ M <= Span(J) /\ f = Ahead(LogTail(J), Span(J) - M)
    /\ GoodRegion(A, M + 1, top) /\ Sound(A, M + 1) /\ GoodTxns(A, M + 1, r, o)
    /\ \A c \in FsBlocks, k \in DOMAIN r : c \in r[k].logged => Replays(A, M + 1, c, p[c])
    /\ \A d \in 0 .. M - 1 : A[d] = Region(J)[d + (Span(J) - M)]
    /\ A[M] = J[HeadIn(J)]
    /\ \A k \in DOMAIN r : o[k] = Dist(f, r[k].first)

LEMMA KeptPart ==
  ASSUME NEW J, GoodLog(J), NEW h, Ring(J, h), Open(J), NEW top,
         NEW p, NEW q, GoodJournal(J, p, q, TRUE, top),
         NEW m, NEW r, KeptFrom(q, m, r), Len(r) # 0
  PROVE  r[1].first \in Blocks /\ \E A, M, o : Kept(J, p, r, r[1].first, A, M, o, top)
<1>0. PICK W : W = Region(J)
  OBVIOUS
<1>1. PICK t \in Blocks, L \in Nat :
        /\ t = LogTail(J) /\ L = Span(J) /\ W = Region(J) /\ h \in Blocks /\ HeadIn(J) = h /\ J[h].kind = "LH"
        /\ L = Dist(t, h)
  <2>1. LogTail(J) \in Blocks /\ Span(J) \in Nat
    BY LogFacts, SizeType
  <2>2. QED
    BY <1>0, <2>1, LogFacts
<1>2. PICK off : off = Offsets(t, q)
  OBVIOUS
<1>3. /\ GoodRegion(W, L, top) /\ Sound(W, L) /\ GoodTxns(W, L, q, off)
      /\ \A b \in FsBlocks : Replays(W, L, b, p[b])
  BY <1>1, <1>2 DEF GoodJournal
<1>4. PICK n \in Nat, l \in Nat : /\ n = Len(q) /\ l = Len(r) /\ m \in 0 .. n /\ l = n - m /\ l > 0
                                  /\ DOMAIN q = 1 .. n /\ DOMAIN r = 1 .. l
  <2>1. Len(q) \in Nat /\ Len(r) \in Nat /\ DOMAIN q = 1 .. Len(q) /\ DOMAIN r = 1 .. Len(r)
        /\ m \in 0 .. Len(q) /\ Len(r) = Len(q) - m
    BY DEF KeptFrom
  <2>2. PICK a \in Nat, c \in Nat : a = Len(q) /\ c = Len(r)
    BY <2>1
  <2>3. m \in 0 .. a /\ c = a - m /\ c # 0 /\ DOMAIN q = 1 .. a /\ DOMAIN r = 1 .. c
    BY <2>1, <2>2
  <2>4. QED
    BY <2>2, <2>3
<1>5. \A k \in 1 .. l : /\ m + k \in 1 .. n /\ r[k] = q[m + k] /\ r[k] \in Txn /\ r[k].first \in Blocks
                        /\ off[m + k] = Dist(t, r[k].first)
  <2>1. \A k \in 1 .. l : r[k] = q[m + k] /\ r[k] \in Txn
    BY <1>4 DEF KeptFrom
  <2>2. \A k \in 1 .. l : m + k \in 1 .. n
    BY <1>4
  <2>3. \A x \in Txn : x.first \in Blocks
    BY DEF Txn
  <2>4. \A k \in 1 .. n : off[k] = Dist(t, q[k].first)
    BY <1>2, <1>4 DEF Offsets
  <2>5. QED
    BY <2>1, <2>2, <2>3, <2>4
<1>6. PICK f \in Blocks : f = r[1].first
  BY <1>4, <1>5
<1>7. PICK s : s = off[m + 1]
  OBVIOUS
<1>8. s = Dist(t, f)
  BY <1>4, <1>5, <1>6, <1>7
<1>9. PICK o : o = [k \in 1 .. l |-> off[m + k] - s]
  OBVIOUS
<1>10. FromOn(off, m, s, r, o)
  BY <1>4, <1>7, <1>9 DEF FromOn
<1>11. PICK V : V = [d \in 0 .. (L - s) - 1 |-> W[d + s]]
  OBVIOUS
<1>12. \A d \in 0 .. (L - s) - 1 : V[d] = W[d + s]
  BY <1>11
<1>13. /\ s \in 0 .. L - 1 /\ GoodTxns(V, L - s, r, o)
       /\ \A k \in DOMAIN r : \A b \in r[k].logged :
                \E d \in 0 .. L - 1, i \in 1 .. L : Entry(W, L, b, d, i) /\ s <= d
  BY <1>3, <1>10, <1>12, KeptTxns
<1>14. PICK M \in Nat : M = L - s /\ M > 0 /\ M <= L /\ L - M = s /\ s \in 0 .. L
  BY <1>13
<1>15. GoodRegion(V, M, top)
  BY <1>3, <1>12, <1>14, SuffixGood
<1>16. Sound(V, M)
  <2>1. \A d \in 0 .. M - 1 : d + s \in 0 .. L - 1
    BY <1>13, <1>14
  <2>2. QED
    BY <1>3, <1>12, <1>14, <2>1 DEF Sound
<1>17. ASSUME NEW c \in FsBlocks, NEW k \in DOMAIN r, c \in r[k].logged PROVE Replays(V, M, c, p[c])
  <2>1. PICK v : v = p[c]
    OBVIOUS
  <2>2. Replays(W, L, c, v)
    BY <1>3, <2>1
  <2>3. \E d \in 0 .. L - 1, i \in 1 .. L : Entry(W, L, c, d, i) /\ s <= d
    BY <1>13, <1>17
  <2>4. Replays(V, L - s, c, v)
    BY <1>3, <1>12, <1>14, <2>2, <2>3, SuffixReplays
  <2>5. QED
    BY <1>14, <2>1, <2>4
<1>18. PICK A : A = [d \in 0 .. M |-> IF d = M THEN J[h] ELSE V[d]]
  OBVIOUS
<1>19. A[M] = J[h] /\ \A d \in 0 .. M - 1 : A[d] = V[d]
  <2>1. M \in 0 .. M /\ \A d \in 0 .. M - 1 : d \in 0 .. M /\ d # M
    BY <1>14
  <2>2. QED
    BY <1>18, <2>1
<1>20. /\ GoodRegion(A, M + 1, top) /\ Sound(A, M + 1) /\ GoodTxns(A, M + 1, r, o)
       /\ \A b, v : Replays(V, M, b, v) => Replays(A, M + 1, b, v)
  <2>1. A[M].kind = "LH"
    BY <1>1, <1>19
  <2>2. GoodTxns(V, M, r, o)
    BY <1>13, <1>14
  <2>3. QED
    BY <1>14, <1>15, <1>16, <1>19, <2>1, <2>2, WithHeader
<1>21. f = Ahead(t, s)
  BY <1>8, DistValue
<1>22. ASSUME NEW k \in 1 .. l PROVE o[k] = Dist(f, r[k].first)
  <2>2. PICK g \in Blocks : g = r[k].first
    BY <1>5
  <2>3. off[m + k] = Dist(t, g) /\ Dist(t, g) \in Nat
    <3>1. Dist(t, g) \in Blocks
      BY DistValue
    <3>2. QED
      BY <1>5, <2>2, <3>1, SizeType
  <2>4. o[k] = Dist(t, g) - s
    BY <1>9, <2>3
  <2>5. o[k] \in 0 .. M - 1
    BY <1>4, <1>13, <1>14 DEF GoodTxns
  <2>6. s \in 0 .. Dist(t, g)
    BY <1>13, <2>3, <2>4, <2>5
  <2>7. Dist(Ahead(t, s), g) = Dist(t, g) - s
    BY <2>6, DistLater
  <2>8. QED
    BY <1>21, <2>2, <2>4, <2>7
<1>23. \A d \in 0 .. M - 1 : A[d] = Region(J)[d + (Span(J) - M)]
  BY <1>1, <1>12, <1>14, <1>19
<1>24. Kept(J, p, r, f, A, M, o, top)
  BY <1>1, <1>4, <1>14, <1>17, <1>19, <1>20, <1>21, <1>22, <1>23 DEF Kept
<1>25. QED
  BY <1>6, <1>24

(* Transactions are kept: behind them and the old head comes what is       *)
(* written.                                                                *)
LEMMA CommitKeep ==
  ASSUME NEW J, NEW h, NEW S, NEW R, NEW body, NEW n, CommitTo(J, h, S, R, body, n), Span(J) + n < JdBlocks,
         NEW p, NEW r \in Seq(Txn), NEW f \in Blocks, NEW A, NEW M, NEW o, Kept(J, p, r, f, A, M, o, bound.ver),
         NEW K, K = Written(J, h, CommitRecs(body, J[h].seq + 1, f)),
         NEW now, now = NextTxns(r, body, S, Ahead(h, 1))
  PROVE  /\ GoodLog(K) /\ \E x : Ring(K, x)
         /\ GoodJournal(K, NextPend(p, S, R, now), now, TRUE, bound.ver)
<1>1. /\ h \in Blocks /\ J[h].seq + 1 \in Nat /\ Ahead(h, 1) \in Blocks
      /\ Len(body) \in Nat /\ n \in Nat /\ n - 1 = Len(body) /\ (body = << >> <=> Len(body) = 0)
      /\ Holds(AsRegion(body), Len(body), S, R) /\ (body = << >> => S = {})
  BY CommitFacts
<1>2. /\ GoodLog(J) /\ Ring(J, h) /\ S \in SUBSET FsBlocks /\ S \intersect R = {} /\ GoodText(body, S, R)
      /\ n = Len(body) + 1 /\ n < JdBlocks /\ \A b \in FsBlocks : ver[b] \in Nat
  BY DEF CommitTo
<1>3. PICK x \in Blocks, L \in Nat, N \in Nat : x = Ahead(h, 1) /\ L = Span(J) /\ N = Len(body) /\ n = N + 1
  <2>1. Span(J) \in Nat
    BY <1>2, LogFacts, SizeType
  <2>2. QED
    BY <1>1, <1>2, <2>1
<1>4. PICK s \in Nat : s = J[h].seq + 1
  BY <1>1
<1>5. PICK recs : recs = CommitRecs(body, s, f)
  OBVIOUS
<1>6. GoodRecs(recs, n, s) /\ recs[n].tail = f /\ ~recs[n].unmount /\ \A i \in 1 .. n - 1 : recs[i] = body[i]
  <2>1. Fits(body, S, R, n)
    BY <1>2 DEF Fits
  <2>2. QED
    BY <1>4, <1>5, <2>1, RecsAre
<1>7. K = Written(J, h, recs)
  BY <1>4, <1>5
<1>8. GoodLog(K) /\ Ring(K, Ahead(h, n))
  BY <1>2, <1>4, <1>6, <1>7, RingWrite
<1>9. PICK top : top = bound.ver
  OBVIOUS
<1>10. /\ M \in Nat /\ M > 0 /\ M <= L /\ f = Ahead(LogTail(J), L - M)
       /\ GoodRegion(A, M + 1, top) /\ Sound(A, M + 1) /\ GoodTxns(A, M + 1, r, o)
       /\ \A c \in FsBlocks, k \in DOMAIN r : c \in r[k].logged => Replays(A, M + 1, c, p[c])
       /\ \A d \in 0 .. M - 1 : A[d] = Region(J)[d + (L - M)]
       /\ A[M] = J[h]
       /\ \A k \in DOMAIN r : o[k] = Dist(f, r[k].first)
  <2>1. HeadIn(J) = h
    BY <1>2, LogFacts
  <2>2. QED
    BY <1>3, <1>9, <2>1 DEF Kept
<1>11. PICK U : U = Region(K)
  OBVIOUS
<1>12. /\ LogTail(K) = f /\ Open(K) /\ Span(K) = M + n /\ Dist(f, x) = M + 1
       /\ \A d \in 0 .. M - 1 : U[d] = A[d]
       /\ U[M] = A[M] /\ \A i \in 1 .. n - 1 : U[M + i] = body[i]
  <2>1. PICK y \in 0 .. Span(J) : y = L - M /\ Span(J) - y = M
    BY <1>3, <1>10, SMTT(30)
  <2>2. GoodRecs(recs, n, J[h].seq + 1) /\ recs[n].tail = Ahead(LogTail(J), y)
    BY <1>4, <1>6, <1>10, <2>1
  <2>3. /\ LogTail(K) = Ahead(LogTail(J), y) /\ Open(K) = ~recs[n].unmount
        /\ Span(K) = (Span(J) - y) + n /\ Dist(LogTail(K), Ahead(h, 1)) = (Span(J) - y) + 1
        /\ \A d \in 0 .. (Span(J) - y) - 1 : Region(K)[d] = Region(J)[d + y]
        /\ Region(K)[Span(J) - y] = J[h]
        /\ \A i \in 1 .. n - 1 : Region(K)[(Span(J) - y) + i] = recs[i]
    BY <1>2, <1>7, <2>2, KeptRegion
  <2>4. Span(K) = M + n /\ Dist(f, x) = M + 1 /\ LogTail(K) = f
    BY <1>3, <1>10, <2>1, <2>3
  <2>5. \A d \in 0 .. M - 1 : U[d] = A[d]
    BY <1>10, <1>11, <2>1, <2>3
  <2>6. U[M] = A[M]
    BY <1>10, <1>11, <2>1, <2>3
  <2>7. \A i \in 1 .. n - 1 : U[M + i] = body[i]
    BY <1>6, <1>11, <2>1, <2>3
  <2>8. Open(K)
    BY <1>6, <2>3
  <2>9. QED
    BY <2>4, <2>5, <2>6, <2>7, <2>8
<1>13. PICK B : B = AsRegion(body)
  OBVIOUS
<1>14. PICK Q \in Nat : Q = M + 1
  BY <1>10
<1>15. Holds(B, N, S, R)
  BY <1>1, <1>3, <1>13
<1>16. GoodRegion(B, N, top) /\ Sound(B, N)
  BY <1>9, <1>15 DEF Holds
<1>17. Joins(U, A, Q, B, N)
  <2>1. \A d \in 0 .. Q - 1 : U[d] = A[d]
    <3>1. \A d \in 0 .. Q - 1 : d = M \/ d \in 0 .. M - 1
      BY <1>10, <1>14
    <3>2. QED
      BY <1>12, <3>1
  <2>2. ASSUME NEW d \in 0 .. N - 1 PROVE U[Q + d] = B[d]
    <3>1. PICK i \in 1 .. n - 1 : i = d + 1 /\ Q + d = M + i
      BY <1>3, <1>10, <1>14
    <3>2. B[d] = body[i]
      BY <1>3, <1>13, <3>1 DEF AsRegion
    <3>3. QED
      BY <1>12, <3>1, <3>2
  <2>3. QED
    BY <1>3, <1>14, <2>1, <2>2 DEF Joins
<1>18. Span(K) = Q + N
  <2>1. Span(K) = M + n
    BY <1>12
  <2>2. M \in Nat /\ n = N + 1 /\ N \in Nat /\ Q = M + 1
    BY <1>3, <1>10, <1>14
  <2>3. M + n = Q + N
    BY <2>2
  <2>4. QED
    BY <2>1, <2>3
<1>19. GoodRegion(A, Q, top) /\ Sound(A, Q) /\ GoodTxns(A, Q, r, o)
  BY <1>10, <1>14
<1>20. GoodRegion(U, Q + N, top) /\ Sound(U, Q + N)
  BY <1>16, <1>17, <1>19, JoinGood
<1>21. PICK l \in Nat : l = Len(r) /\ DOMAIN r = 1 .. l
  <2>1. Len(r) \in Nat /\ DOMAIN r = 1 .. Len(r)
    OBVIOUS
  <2>2. QED
    BY <2>1
<1>22. /\ body = << >> => now = r
       /\ body # << >> => /\ DOMAIN now = 1 .. l + 1 /\ \A k \in 1 .. l : now[k] = r[k]
                          /\ now[l + 1].logged = S /\ now[l + 1].first = x
  <2>1. CASE body = << >>
    BY <2>1 DEF NextTxns
  <2>2. CASE body # << >>
    <3>1. PICK e : e = [first |-> x, logged |-> S, need |-> S]
      OBVIOUS
    <3>2. e.logged = S /\ e.first = x
      BY <3>1
    <3>3. now = Append(r, e)
      BY <1>3, <2>2, <3>1 DEF NextTxns
    <3>4. DOMAIN now = 1 .. l + 1 /\ (\A k \in 1 .. l : now[k] = r[k]) /\ now[l + 1] = e
      BY <1>21, <3>3
    <3>5. QED
      BY <2>2, <3>2, <3>4
  <2>3. QED
    BY <2>1, <2>2
<1>23. \A c : (\E i \in DOMAIN now : c \in now[i].logged) <=> c \in S \/ \E k \in DOMAIN r : c \in r[k].logged
  <2>1. CASE body = << >>
    BY <1>1, <1>22, <2>1
  <2>2. CASE body # << >>
    <3>1. \A k \in 1 .. l + 1 : k \in 1 .. l \/ k = l + 1
      OBVIOUS
    <3>2. l + 1 \in 1 .. l + 1 /\ \A k \in 1 .. l : k \in 1 .. l + 1
      OBVIOUS
    <3>3. QED
      BY <1>21, <1>22, <2>2, <3>1, <3>2
  <2>3. QED
    BY <2>1, <2>2
<1>24. ASSUME NEW b \in FsBlocks PROVE Replays(U, Q + N, b, NextPend(p, S, R, now)[b])
  <2>1. GoodRegion(A, Q, bound.ver)
    BY <1>9, <1>19
  <2>2. \A c \in FsBlocks, k \in DOMAIN r : c \in r[k].logged => Replays(A, Q, c, p[c])
    BY <1>10, <1>14
  <2>3. QED
    BY <1>2, <1>15, <1>17, <1>19, <1>23, <2>1, <2>2, KeptPend
<1>25. PICK off : off = Offsets(f, now)
  OBVIOUS
<1>26. GoodTxns(U, Q + N, now, off)
  <2>1. CASE body = << >>
    <3>1. now = r /\ N = 0
      BY <1>1, <1>3, <1>22, <2>1
    <3>2. \A b, i : \A d \in Int : ~Entry(B, N, b, d, i)
      BY <1>1, <1>15, <2>1 DEF Holds
    <3>3. GoodTxns(U, Q + N, r, o)
      BY <1>16, <1>17, <1>19, <3>2, LongerTxns
    <3>4. \A k \in DOMAIN r : off[k] = o[k]
      BY <1>10, <1>25, <3>1 DEF Offsets
    <3>5. GoodTxns(U, Q + N, r, off)
      BY <3>3, <3>4, SameOffsets
    <3>6. QED
      BY <3>1, <3>5
  <2>2. CASE body # << >>
    <3>1. N # 0
      BY <1>1, <1>3, <2>2
    <3>2. DOMAIN now = 1 .. l + 1 /\ (\A k \in 1 .. l : now[k] = r[k]) /\ now[l + 1].logged = S /\ now[l + 1].first = x
      BY <1>22, <2>2
    <3>3. l + 1 \in 1 .. l + 1 /\ \A k \in 1 .. l : k \in 1 .. l + 1
      OBVIOUS
    <3>4. \A k \in 1 .. l : off[k] = o[k]
      BY <1>10, <1>21, <1>25, <3>2, <3>3 DEF Offsets
    <3>5. off[l + 1] = Q
      BY <1>12, <1>14, <1>25, <3>2, <3>3 DEF Offsets
    <3>6. OneMore(r, o, S, Q, now, off)
      BY <1>21, <3>2, <3>4, <3>5 DEF OneMore
    <3>7. GoodRegion(A, Q, bound.ver)
      BY <1>9, <1>19
    <3>8. QED
      BY <1>15, <1>17, <1>19, <3>1, <3>6, <3>7, AddTxn
  <2>3. QED
    BY <2>1, <2>2
<1>27. GoodJournal(K, NextPend(p, S, R, now), now, TRUE, bound.ver)
  BY <1>9, <1>11, <1>12, <1>18, <1>20, <1>24, <1>25, <1>26 DEF GoodJournal
<1>28. QED
  BY <1>8, <1>27

-----------------------------------------------------------------------------
(* A step here and what it is in LogRecovery.                              *)
Simulates == LR!Next \/ UNCHANGED LR!vars

LEMMA MaxVerIs ==
  /\ Max({s.ver : s \in Situations}) \in Nat \ {0}
  /\ \A t \in Situations : t.ver <= Max({s.ver : s \in Situations})
<1>1. PICK V : V = {s.ver : s \in Situations}
  OBVIOUS
<1>2. PICK m \in Situations : \A t \in Situations : t.ver <= m.ver
  BY ReplayAssumption
<1>3. \A v \in V : v \in Nat \ {0} /\ m.ver >= v
  BY <1>1, <1>2, ReplayAssumption
<1>4. m.ver \in V /\ \A v \in V : m.ver >= v
  BY <1>1, <1>3
<1>5. Max(V) \in V /\ \A v \in V : Max(V) >= v
  BY <1>4 DEF Max
<1>6. \A t \in Situations : t.ver \in V
  BY <1>1
<1>7. Max(V) \in Nat \ {0} /\ \A t \in Situations : t.ver <= Max(V)
  BY <1>3, <1>5, <1>6
<1>8. QED
  BY <1>1, <1>7

LEMMA ContentVer ==
  /\ \A b, v : Content(b, v).ver = v
  /\ \A b, v, w : Content(b, v) = Content(b, w) => v = w
<1>1. \A b, v : Content(b, v).ver = v
  BY DEF Content
<1>2. QED
  BY <1>1

LEMMA DiskVersionIs == ASSUME DiskInv PROVE DiskVersion = [b \in FsBlocks |-> disk[b].ver]
  BY DEF DiskInv, DiskVersion

LEMMA DiskVersionNext == ASSUME DiskInv' PROVE DiskVersion' = [b \in FsBlocks |-> disk'[b].ver]
  BY DEF DiskInv, DiskVersion

(* While the nodes run fsck does not.                                      *)
LEMMA NodeInv ==
  ASSUME FsckInv, up, pc' = pc
  PROVE  FsckInv' /\ pc = "off"
<1>1. pc = "off" /\ pc' = "off"
  BY DEF FsckInv
<1>2. "off" # "look" /\ "off" \notin {"scan", "elems", "clean"} /\ "off" # "scan" /\ "off" # "elems" /\ "off" # "clean"
  OBVIOUS
<1>3. QED
  BY <1>1, <1>2 DEF FsckInv

LEMMA SameTxns ==
  ASSUME NEW J, Open(J), NEW p, NEW q, NEW r, NEW top, GoodJournal(J, p, q, TRUE, top),
         DOMAIN r = DOMAIN q, \A k \in DOMAIN q : r[k].first = q[k].first /\ r[k].logged = q[k].logged
  PROVE  GoodJournal(J, p, r, TRUE, top)
<1>1. Offsets(LogTail(J), r) = Offsets(LogTail(J), q)
  BY DEF Offsets
<1>2. GoodTxns(Region(J), Span(J), q, Offsets(LogTail(J), q))
  BY DEF GoodJournal
<1>3. GoodTxns(Region(J), Span(J), r, Offsets(LogTail(J), r))
  <2>1. PICK off : off = Offsets(LogTail(J), q)
    OBVIOUS
  <2>2. GoodTxns(Region(J), Span(J), r, off)
    BY <1>2, <2>1 DEF GoodTxns
  <2>3. QED
    BY <1>1, <2>1, <2>2
<1>4. QED
  BY <1>3 DEF GoodJournal

LEMMA AcquireStep ==
  ASSUME IInv, NEW j \in Journals, NEW b \in FsBlocks, Acquire(j, b)
  PROVE  IInv' /\ Simulates
<1>1. TypesInv /\ LogsInv /\ DiskInv /\ RegionsInv /\ LocksInv /\ FsckInv /\ CleanInv
  BY DEF IInv
<1>2. /\ up /\ disk[b] = Content(b, ver[b]) /\ pend[owner[b]][b] = 0
      /\ owner' = [owner EXCEPT ![b] = j]
      /\ UNCHANGED <<jlog, disk, up, ver, txns, pend, lost, fsckVars, bound>>
  BY DEF Acquire, MayPass, boundVars
<1>3. /\ owner' \in [FsBlocks -> Journals] /\ owner'[b] = j /\ \A c \in FsBlocks : c # b => owner'[c] = owner[c]
      /\ owner \in [FsBlocks -> Journals]
  BY <1>1, <1>2 DEF TypesInv
<1>4. TypesInv'
  BY <1>1, <1>2, <1>3 DEF TypesInv, fsckVars
<1>5. LogsInv' /\ DiskInv' /\ RegionsInv'
  BY <1>1, <1>2 DEF LogsInv, DiskInv, RegionsInv
<1>6. LocksInv'
  <2>1. ASSUME NEW i \in Journals, NEW c \in FsBlocks, pend'[i][c] # 0 PROVE owner'[c] = i
    <3>1. owner[c] = i /\ pend[i][c] # 0
      BY <1>1, <1>2, <2>1 DEF LocksInv
    <3>2. QED
      BY <1>2, <1>3, <3>1
  <2>2. ASSUME NEW c \in FsBlocks, disk'[c] # Content(c, ver'[c])
        PROVE  \E k \in DOMAIN txns'[owner'[c]] : c \in txns'[owner'[c]][k].need
    <3>1. c # b
      BY <1>2, <2>2
    <3>2. QED
      BY <1>1, <1>2, <1>3, <2>2, <3>1 DEF LocksInv
  <2>3. \A i \in Journals : \A k \in DOMAIN txns'[i] : txns'[i][k].need \subseteq txns'[i][k].logged
    BY <1>1, <1>2 DEF LocksInv
  <2>4. up'
    BY <1>2
  <2>5. QED
    BY <2>1, <2>2, <2>3, <2>4 DEF LocksInv
<1>7. FsckInv' /\ pc = "off"
  BY <1>1, <1>2, NodeInv DEF fsckVars
<1>8. CleanInv'
  BY <1>2, <1>7 DEF CleanInv, fsckVars
<1>9. Simulates
  <2>1. DiskVersion' = DiskVersion /\ DiskVersion[b] = ver[b]
    <3>1. DiskVersion = [c \in FsBlocks |-> disk[c].ver]
      BY <1>1, DiskVersionIs
    <3>2. DiskVersion' = DiskVersion
      BY <1>2 DEF DiskVersion
    <3>3. QED
      BY <1>2, <3>1, <3>2, ContentVer
  <2>2. LR!Acquire(j, b)
    BY <1>2, <2>1 DEF LR!Acquire, LR!MayPass, LR!Nothing
  <2>3. QED
    BY <2>2 DEF Simulates, LR!Next
<1>10. QED
  BY <1>4, <1>5, <1>6, <1>7, <1>8, <1>9 DEF IInv

(* A header with the unmount flag closes the journal.                      *)
LEMMA UnmountHeader ==
  ASSUME LogsInv, NEW j \in Journals, NEW tail \in Blocks,
         WriteLog(j, Ahead(HeadPos(j), 1), << LH(HeadOf(j).seq + 1, tail, TRUE) >>)
  PROVE  LogsInv' /\ ~Open(jlog'[j]) /\ \A i \in Journals : i # j => jlog'[i] = jlog[i]
<1>1. PICK J : J = jlog[j]
  OBVIOUS
<1>2. PICK h : h = HeadIn(J) /\ HeadOf(j) = J[h]
  BY <1>1, HeadPosIs
<1>3. GoodLog(J) /\ Ring(J, h)
  BY <1>1, <1>2 DEF LogsInv
<1>4. J[h].seq + 1 \in Nat
  BY <1>3, LogFacts
<1>5. PICK r : r = LH(J[h].seq + 1, tail, TRUE)
  OBVIOUS
<1>6. r.kind = "LH" /\ r.seq = J[h].seq + 1 /\ r.unmount = TRUE /\ GoodBlock(r)
  <2>1. r.kind = "LH" /\ r.seq = J[h].seq + 1 /\ r.tail = tail /\ r.unmount = TRUE /\ "LH" # "DATA"
    BY <1>5 DEF LH
  <2>2. QED
    BY <1>4, <2>1 DEF GoodBlock, Kinds
<1>7. PICK recs : recs = << r >>
  OBVIOUS
<1>8. DOMAIN recs = 1 .. 1 /\ recs[1] = r
  BY <1>7
<1>9. GoodRecs(recs, 1, J[h].seq + 1)
  <2>1. 1 \in Nat /\ 0 < 1 /\ 1 < JdBlocks /\ \A i \in 1 .. 1 : i = 1 /\ ~(i < 1)
    BY SizeType
  <2>2. QED
    BY <1>6, <1>8, <2>1 DEF GoodRecs
<1>10. /\ jlog'[j] = Written(J, h, recs) /\ jlog' = [i \in Journals |-> jlog'[i]]
       /\ \A i \in Journals : i # j => jlog'[i] = jlog[i]
  <2>1. WriteLog(j, Ahead(HeadPos(j), 1), recs)
    BY <1>2, <1>5, <1>7
  <2>2. QED
    BY <1>1, <1>2, <2>1, WriteLogIs
<1>11. PICK K : K = Written(J, h, recs)
  OBVIOUS
<1>12. GoodLog(K) /\ Ring(K, Ahead(h, 1)) /\ K[Ahead(h, 1)] = r
  BY <1>3, <1>8, <1>9, <1>11, RingWrite
<1>13. ~Open(K)
  BY <1>6, <1>12, LogFacts
<1>14. QED
  BY <1>10, <1>11, <1>12, <1>13, OtherLogs

LEMMA UnmountStep ==
  ASSUME IInv, NEW j \in Journals, Unmount(j)
  PROVE  IInv' /\ Simulates
<1>1. TypesInv /\ LogsInv /\ DiskInv /\ RegionsInv /\ LocksInv /\ FsckInv /\ CleanInv
  BY DEF IInv
<1>2. /\ up /\ \A i \in DOMAIN txns[j] : txns[j][i].need = {}
      /\ WriteLog(j, Ahead(HeadPos(j), 1), << LH(HeadOf(j).seq + 1, Ahead(HeadPos(j), 1), TRUE) >>)
      /\ txns' = [txns EXCEPT ![j] = <<>>]
      /\ pend' = [pend EXCEPT ![j] = [b \in FsBlocks |-> 0]]
      /\ UNCHANGED <<disk, up, ver, owner, lost, fsckVars, bound>>
  BY DEF Unmount, boundVars
<1>3. Ahead(HeadPos(j), 1) \in Blocks
  <2>1. PICK h : h = HeadPos(j)
    OBVIOUS
  <2>2. Ring(jlog[j], h)
    BY <1>1, <2>1, HeadPosIs DEF LogsInv
  <2>3. h \in Blocks
    BY <2>2 DEF Ring
  <2>4. Ahead(h, 1) \in Blocks
    BY <2>3, DistFromNext
  <2>5. QED
    BY <2>1, <2>4
<1>4. LogsInv' /\ ~Open(jlog'[j]) /\ \A i \in Journals : i # j => jlog'[i] = jlog[i]
  <2>1. PICK t \in Blocks : t = Ahead(HeadPos(j), 1)
    BY <1>3
  <2>2. WriteLog(j, Ahead(HeadPos(j), 1), << LH(HeadOf(j).seq + 1, t, TRUE) >>)
    BY <1>2, <2>1
  <2>3. QED
    BY <1>1, <2>2, UnmountHeader
<1>5. /\ txns' \in [Journals -> Seq(Txn)] /\ txns'[j] = <<>> /\ \A i \in Journals : i # j => txns'[i] = txns[i]
      /\ pend' \in [Journals -> [FsBlocks -> 0 .. bound.ver]] /\ \A b \in FsBlocks : pend'[j][b] = 0
      /\ \A i \in Journals : i # j => pend'[i] = pend[i]
  <2>1. txns \in [Journals -> Seq(Txn)] /\ <<>> \in Seq(Txn)
    <3>1. txns \in [Journals -> Seq(Txn)]
      BY <1>1 DEF TypesInv, Txn
    <3>2. <<>> \in Seq(Txn)
      OBVIOUS
    <3>3. QED
      BY <3>1, <3>2
  <2>2. pend \in [Journals -> [FsBlocks -> 0 .. bound.ver]] /\ [b \in FsBlocks |-> 0] \in [FsBlocks -> 0 .. bound.ver]
    <3>1. bound.ver \in Nat
      BY <1>1, BoundFacts DEF TypesInv
    <3>2. QED
      BY <1>1, <3>1 DEF TypesInv
  <2>3. QED
    BY <1>2, <2>1, <2>2
<1>6. TypesInv'
  BY <1>1, <1>2, <1>5 DEF TypesInv, fsckVars, Txn
<1>7. DiskInv'
  BY <1>1, <1>2 DEF DiskInv
<1>8. RegionsInv'
  <2>1. GoodJournal(jlog'[j], pend'[j], txns'[j], up', bound'.ver)
    BY <1>4, <1>5 DEF GoodJournal
  <2>2. QED
    BY <1>1, <1>2, <1>4, <1>5, <2>1, OtherJournals
<1>9. \A b \in FsBlocks : owner[b] = j => disk[b] = Content(b, ver[b])
  BY <1>1, <1>2 DEF LocksInv
<1>10. LocksInv'
  <2>1. \A i \in Journals, b \in FsBlocks : pend'[i][b] # 0 => owner'[b] = i
    BY <1>1, <1>2, <1>5 DEF LocksInv
  <2>2. \A i \in Journals : \A k \in DOMAIN txns'[i] : txns'[i][k].need \subseteq txns'[i][k].logged
    <3>1. DOMAIN txns'[j] = {}
      BY <1>5
    <3>2. QED
      BY <1>1, <1>5, <3>1 DEF LocksInv
  <2>3. ASSUME NEW b \in FsBlocks, disk'[b] # Content(b, ver'[b])
        PROVE  \E k \in DOMAIN txns'[owner'[b]] : b \in txns'[owner'[b]][k].need
    <3>1. disk[b] # Content(b, ver[b]) /\ owner'[b] = owner[b] /\ owner[b] \in Journals
      BY <1>1, <1>2, <2>3 DEF TypesInv
    <3>2. owner[b] # j
      BY <1>9, <3>1
    <3>3. QED
      BY <1>1, <1>2, <1>5, <3>1, <3>2 DEF LocksInv
  <2>4. up'
    BY <1>2
  <2>5. QED
    BY <2>1, <2>2, <2>3, <2>4 DEF LocksInv
<1>11. FsckInv' /\ pc = "off"
  BY <1>1, <1>2, NodeInv DEF fsckVars
<1>12. CleanInv'
  BY <1>2, <1>11 DEF CleanInv, fsckVars
<1>13. Simulates
  <2>1. PICK R \in SUBSET FsBlocks : R = {b \in FsBlocks : pend[j][b] # 0}
    OBVIOUS
  <2>2. DiskVersion' = DiskVersion /\ DiskVersion = [b \in FsBlocks |-> disk[b].ver]
    BY <1>1, <1>2, DiskVersionIs DEF DiskVersion
  <2>3. \A b \in R : pend[j][b] # 0 /\ DiskVersion[b] = ver[b]
    BY <1>1, <1>9, <2>1, <2>2, ContentVer DEF LocksInv
  <2>4. ver' = [b \in FsBlocks |-> IF b \in {} THEN ver[b] + 1 ELSE ver[b]]
    BY <1>1, <1>2 DEF TypesInv
  <2>5. pend' = [pend EXCEPT ![j] = [b \in FsBlocks |-> IF b \in {} THEN ver[b] + 1 ELSE IF b \in R THEN 0 ELSE pend[j][b]]]
    <3>1. [b \in FsBlocks |-> IF b \in {} THEN ver[b] + 1 ELSE IF b \in R THEN 0 ELSE pend[j][b]]
            = [b \in FsBlocks |-> 0]
      BY <2>1
    <3>2. QED
      BY <1>2, <3>1
  <2>6. LR!Commit(j, {}, R)
    BY <1>2, <2>2, <2>3, <2>4, <2>5 DEF LR!Commit, LR!Revocable, LR!Nothing
  <2>7. {} \in SUBSET FsBlocks
    OBVIOUS
  <2>8. QED
    BY <2>1, <2>6, <2>7 DEF Simulates, LR!Next
<1>14. QED
  BY <1>4, <1>6, <1>7, <1>8, <1>10, <1>11, <1>12, <1>13 DEF IInv

-----------------------------------------------------------------------------
(* What went bad shows: a descriptor became junk, a block of data lost its *)
(* magic.                                                                  *)
WentBad(V, W, L) == \A d \in 0 .. L - 1 :
    \/ V[d] = W[d]
    \/ W[d].kind \in {"LD", "RV"} /\ V[d].kind = "JUNK"
    \/ /\ W[d].kind = "DATA" /\ V[d].kind = "DATA"
       /\ V[d].ver = W[d].ver /\ V[d].magic = FALSE

LEMMA BadRegion ==
  ASSUME NEW top, NEW W, NEW L \in Nat, GoodRegion(W, L, top), NEW V, WentBad(V, W, L)
  PROVE  /\ GoodRegion(V, L, top)
         /\ Sound(V, L) => Sound(W, L) /\ \A b, v : Replays(W, L, b, v) => Replays(V, L, b, v)
<1>0. "JUNK" # "LD" /\ "JUNK" # "RV" /\ "DATA" # "LD" /\ "DATA" # "RV" /\ "DATA" # "JUNK"
  OBVIOUS
<1>1. \A d \in 0 .. L - 1 :
        /\ V[d].kind \in {"LD", "RV"} => V[d] = W[d]
        /\ W[d].kind \in {"LD", "RV"} => V[d] = W[d] \/ V[d].kind = "JUNK"
        /\ W[d].kind = "JUNK" => V[d].kind = "JUNK"
        /\ W[d].kind = "DATA" => V[d].kind = "DATA" /\ V[d].ver = W[d].ver /\ (V[d] = W[d] \/ V[d].magic = FALSE)
  BY <1>0 DEF WentBad
<1>2. ASSUME NEW d \in 0 .. L - 1, V[d].kind = "LD"
      PROVE  /\ Len(V[d].elems) \in Nat /\ d + Len(V[d].elems) < L
             /\ \A i \in 1 .. Len(V[d].elems) : GoodElem(V[d].jdata, V[d].elems[i], V[d + i], top)
  <2>1. V[d] = W[d]
    BY <1>1, <1>2
  <2>2. /\ Len(W[d].elems) \in Nat /\ d + Len(W[d].elems) < L
        /\ \A i \in 1 .. Len(W[d].elems) : GoodElem(W[d].jdata, W[d].elems[i], W[d + i], top)
    BY <1>2, <2>1 DEF GoodRegion
  <2>3. ASSUME NEW i \in 1 .. Len(W[d].elems) PROVE GoodElem(W[d].jdata, W[d].elems[i], V[d + i], top)
    <3>1. d + i \in 0 .. L - 1
      BY <2>2
    <3>2. GoodElem(W[d].jdata, W[d].elems[i], W[d + i], top)
      BY <2>2
    <3>3. V[d + i].kind = "DATA" /\ V[d + i].ver = W[d + i].ver /\ (V[d + i] = W[d + i] \/ V[d + i].magic = FALSE)
      BY <1>1, <3>1, <3>2 DEF GoodElem
    <3>4. CASE V[d + i] = W[d + i]
      BY <3>2, <3>4
    <3>5. CASE V[d + i].magic = FALSE
      BY <3>2, <3>3, <3>5 DEF GoodElem
    <3>6. QED
      BY <3>3, <3>4, <3>5
  <2>4. QED
    BY <2>1, <2>2, <2>3
<1>3. GoodRegion(V, L, top)
  <2>1. \A d \in 0 .. L - 1 : V[d].kind = "RV" => V[d].blks \subseteq FsBlocks
    BY <1>1 DEF GoodRegion
  <2>2. QED
    BY <1>2, <2>1 DEF GoodRegion
<1>4. ASSUME Sound(V, L) PROVE Sound(W, L) /\ \A b, v : Replays(W, L, b, v) => Replays(V, L, b, v)
  <2>1. \A d \in 0 .. L - 1 :
          /\ V[d].kind # "JUNK" /\ W[d].kind # "JUNK"
          /\ V[d].kind \in {"LD", "RV"} \/ W[d].kind \in {"LD", "RV"} => V[d] = W[d]
    BY <1>1, <1>4 DEF Sound
  <2>2. \A b, d, i : Entry(V, L, b, d, i) <=> Entry(W, L, b, d, i)
    BY <2>1 DEF Entry
  <2>3. \A b, d : Revokes(V, L, b, d) <=> Revokes(W, L, b, d)
    BY <2>1 DEF Revokes
  <2>4. \A b, d, i : LastEntry(V, L, b, d, i) <=> LastEntry(W, L, b, d, i)
    BY <2>2, <2>3 DEF LastEntry
  <2>5. ASSUME NEW b, NEW v, Replays(W, L, b, v) PROVE Replays(V, L, b, v)
    <3>1. CASE v = 0
      BY <2>2, <2>3, <2>5, <3>1 DEF Replays
    <3>2. CASE v # 0
      <4>1. PICK d \in 0 .. L - 1, i \in 1 .. L : LastEntry(W, L, b, d, i) /\ W[d + i].ver = v
        BY <2>5, <3>2 DEF Replays
      <4>2. Entry(W, L, b, d, i)
        BY <4>1 DEF LastEntry
      <4>3. d + i < L /\ W[d + i].kind = "DATA"
        <5>1. d + i < L /\ GoodElem(W[d].jdata, W[d].elems[i], W[d + i], top)
          BY <4>2, EntryPlace
        <5>2. QED
          BY <5>1 DEF GoodElem
      <4>4. d + i \in 0 .. L - 1
        BY <4>3
      <4>5. V[d + i].ver = v
        BY <1>1, <4>1, <4>3, <4>4
      <4>6. QED
        BY <2>4, <3>2, <4>1, <4>5 DEF Replays
    <3>3. QED
      BY <3>1, <3>2
  <2>6. Sound(W, L)
    BY <2>1 DEF Sound
  <2>7. QED
    BY <2>5, <2>6
<1>5. QED
  BY <1>3, <1>4

(* A set of numbers has a least one, and a greatest if it has a bound.     *)
LEMMA HasLeast == ASSUME NEW S, S \subseteq Nat, S # {} PROVE \E x \in S : \A y \in S : x <= y
<1> DEFINE Lower == {p \in Nat \X Nat : p[1] < p[2]}
<1>1. IsWellFoundedOn(Lower, Nat)
  BY NatLessThanWellFounded, Zenon DEF OpToRel
<1>2. PICK x \in S : \A y \in S : ~(<<y, x>> \in Lower)
  BY <1>1, WFMin
<1>3. ASSUME NEW y \in S PROVE x <= y
  <2>1. x \in Nat /\ y \in Nat /\ <<y, x>> \in Nat \X Nat /\ <<y, x>>[1] = y /\ <<y, x>>[2] = x
    OBVIOUS
  <2>2. ~(<<y, x>>[1] < <<y, x>>[2])
    BY <1>2, <2>1, Zenon
  <2>3. QED
    BY <2>1, <2>2
<1>4. QED
  BY <1>3

LEMMA HasMost ==
  ASSUME NEW N \in Nat, NEW T \in SUBSET (0 .. N), T # {}
  PROVE  \E n \in T : \A m \in T : m <= n
<1>1. PICK U : U = {N - x : x \in T}
  OBVIOUS
<1>2. U \subseteq Nat /\ U # {}
  <2>1. \A x \in T : N - x \in Nat
    OBVIOUS
  <2>2. PICK x : x \in T
    OBVIOUS
  <2>3. N - x \in U
    BY <1>1, <2>2
  <2>4. U \subseteq Nat
    BY <1>1, <2>1
  <2>5. QED
    BY <2>3, <2>4
<1>3. PICK u \in U : \A w \in U : u <= w
  BY <1>2, HasLeast
<1>4. PICK n \in T : u = N - n
  BY <1>1, <1>3
<1>5. \A m \in T : N - m \in U
  BY <1>1, Zenon
<1>6. \A m \in T : m <= n
  BY <1>3, <1>4, <1>5
<1>7. QED
  BY <1>6

LEMMA FreeType ==
  ASSUME LogsInv, NEW j \in Journals
  PROVE  FreeBlocks(j) \in Nat /\ FreeBlocks(j) < JdBlocks
<1>1. PICK J : J = jlog[j]
  OBVIOUS
<1>2. PICK h : h = HeadIn(J) /\ h = HeadPos(j) /\ HeadOf(j) = J[h]
  BY <1>1, HeadPosIs
<1>3. h \in Blocks /\ J[h].tail \in Blocks
  <2>1. GoodLog(J) /\ Ring(J, h)
    BY <1>1, <1>2 DEF LogsInv
  <2>2. QED
    BY <2>1, LogFacts
<1>4. PICK x \in Blocks : x = Ahead(h, 1)
  BY <1>3, DistFromNext
<1>5. PICK t \in Blocks : t = J[h].tail
  BY <1>3
<1>6. FreeBlocks(j) = IF J[h].unmount THEN JdBlocks - 1 ELSE Dist(x, t)
  BY <1>2, <1>4, <1>5 DEF FreeBlocks, Dist
<1>7. Dist(x, t) \in Blocks
  BY DistValue
<1>8. QED
  BY <1>6, <1>7, SizeType

(* A transaction cut short: blocks ahead of the head are junk, another     *)
(* header and the active region are as they were.                          *)
Torn(J, h, T) == [p \in Blocks |-> IF Dist(h, p) \in T THEN Junk ELSE J[p]]
SameRegion(K, J) == Open(K) = Open(J) /\ (Open(J) => Span(K) = Span(J) /\ Region(K) = Region(J))

LEMMA TornLog ==
  ASSUME LogsInv, NEW j \in Journals, NEW T \in SUBSET (1 .. FreeBlocks(j) - 1),
         NEW n \in T, \A m \in T : m <= n, LeavesAHeader(j, n),
         NEW J, J = jlog[j], NEW h, h = HeadIn(J), NEW K, K = Torn(J, h, T)
  PROVE  GoodLog(K) /\ Ring(K, h) /\ SameRegion(K, J)
<1>1. h = HeadPos(j) /\ HeadOf(j) = J[h] /\ GoodLog(J) /\ Ring(J, h)
  BY HeadPosIs DEF LogsInv
<1>2. PICK F \in Nat : F = FreeBlocks(j) /\ F < JdBlocks
  BY FreeType
<1>3. \A m \in T : m \in 1 .. F - 1 /\ m <= n
  BY <1>2
<1>4. h \in Blocks /\ Dist(h, h) = 0
  <2>1. h \in Blocks
    BY <1>1 DEF Ring
  <2>2. \A p \in Blocks : p = h => Dist(h, p) = 0
    BY <2>1, DistFromNext
  <2>3. QED
    BY <2>1, <2>2
<1>5. K = [p \in Blocks |-> K[p]] /\ \A p \in Blocks : K[p] = IF Dist(h, p) \in T THEN Junk ELSE J[p]
  BY DEF Torn
<1>6. K[h] = J[h]
  <2>1. 0 \notin T
    BY <1>3
  <2>2. QED
    BY <1>4, <1>5, <2>1
<1>7. \A p \in Blocks : K[p] = J[p] \/ (GoodBlock(K[p]) /\ K[p].kind # "LH")
  <2>1. Junk.kind = "JUNK" /\ GoodBlock(Junk)
    BY DEF Junk, GoodBlock, Kinds
  <2>2. QED
    BY <1>5, <2>1
<1>8. \E q \in Blocks : q # h /\ J[q].kind = "LH" /\ K[q] = J[q]
  <2>1. PICK x \in Blocks : x = Ahead(h, 1)
    BY <1>4, DistFromNext
  <2>2. PICK q \in Blocks : J[q].kind = "LH" /\ q # h /\ Dist(x, q) >= n
    BY <1>1, <2>1 DEF LeavesAHeader, Dist
  <2>3. Dist(x, q) + 1 = Dist(h, q)
    BY <1>4, <2>1, <2>2, DistFromNext
  <2>4. Dist(x, q) \in Nat
    <3>1. Dist(x, q) \in Blocks
      BY DistValue
    <3>2. QED
      BY <3>1, SizeType
  <2>5. Dist(h, q) \notin T
    <3>1. PICK y \in Nat : y = Dist(x, q) /\ y >= n /\ Dist(h, q) = y + 1
      BY <2>2, <2>3, <2>4
    <3>2. QED
      BY <1>3, <3>1
  <2>6. QED
    BY <1>5, <2>2, <2>5
<1>9. GoodLog(K) /\ Ring(K, h)
  BY <1>1, <1>5, <1>6, <1>7, <1>8, RingOverwrite
<1>10. LogTail(K) = LogTail(J) /\ Open(K) = Open(J) /\ Span(K) = Span(J)
  <2>1. LogTail(K) = K[h].tail /\ Open(K) = ~K[h].unmount /\ Span(K) = Dist(LogTail(K), h)
    BY <1>9, LogFacts
  <2>2. LogTail(J) = J[h].tail /\ Open(J) = ~J[h].unmount /\ Span(J) = Dist(LogTail(J), h)
    BY <1>1, LogFacts
  <2>3. QED
    BY <1>6, <2>1, <2>2
<1>11. ASSUME Open(J) PROVE Region(K) = Region(J)
  <2>1. PICK t \in Blocks, L \in Blocks : t = LogTail(J) /\ L = Span(J) /\ L = Dist(t, h)
    BY <1>1, LogFacts
  <2>2. L + F < JdBlocks
    <3>1. F <= FreeBlocks(j) /\ Open(jlog[j])
      BY <1>2, <1>11
    <3>2. Span(jlog[j]) + F < JdBlocks
      BY <3>1, Room
    <3>3. QED
      BY <2>1, <3>2
  <2>3. ASSUME NEW d \in 0 .. L - 1 PROVE K[Ahead(t, d)] = J[Ahead(t, d)]
    <3>1. d \in 0 .. Dist(t, h) /\ d < Dist(t, h) /\ JdBlocks \in Nat /\ L \in Nat
      BY <2>1, SizeType
    <3>2. Ahead(t, d) \in Blocks /\ Dist(h, Ahead(t, d)) = JdBlocks - Dist(t, h) + d
      BY <1>4, <3>1, DistBack
    <3>3. PICK p \in Blocks : p = Ahead(t, d) /\ Dist(h, p) = JdBlocks - L + d
      BY <2>1, <3>2
    <3>4. Dist(h, p) \notin T
      BY <1>3, <2>2, <3>1, <3>3
    <3>5. QED
      BY <1>5, <3>3, <3>4
  <2>4. Region(K) = [d \in 0 .. L - 1 |-> K[Ahead(t, d)]] /\ Region(J) = [d \in 0 .. L - 1 |-> J[Ahead(t, d)]]
    BY <1>10, <2>1 DEF Region
  <2>5. QED
    BY <2>3, <2>4
<1>12. QED
  BY <1>9, <1>10, <1>11 DEF SameRegion

LEMMA CrashLogs ==
  ASSUME LogsInv, Crash
  PROVE  LogsInv' /\ \A i \in Journals : SameRegion(jlog'[i], jlog[i])
<1>1. CASE UNCHANGED jlog
  BY <1>1 DEF LogsInv, SameRegion
<1>2. CASE \E j \in Journals : \E T \in SUBSET (1 .. FreeBlocks(j) - 1) :
            /\ T # {} /\ LeavesAHeader(j, CHOOSE n \in T : \A m \in T : m <= n)
            /\ jlog' = [jlog EXCEPT ![j] = [p \in Blocks |->
                 IF (p - HeadPos(j)) % JdBlocks \in T THEN Junk ELSE jlog[j][p]]]
  <2>0. PICK j \in Journals : \E T \in SUBSET (1 .. FreeBlocks(j) - 1) :
            /\ T # {} /\ LeavesAHeader(j, CHOOSE n \in T : \A m \in T : m <= n)
            /\ jlog' = [jlog EXCEPT ![j] = [p \in Blocks |->
                 IF (p - HeadPos(j)) % JdBlocks \in T THEN Junk ELSE jlog[j][p]]]
    BY <1>2
  <2>1. PICK T \in SUBSET (1 .. FreeBlocks(j) - 1) :
            /\ T # {} /\ LeavesAHeader(j, CHOOSE n \in T : \A m \in T : m <= n)
            /\ jlog' = [jlog EXCEPT ![j] = [p \in Blocks |->
                 IF (p - HeadPos(j)) % JdBlocks \in T THEN Junk ELSE jlog[j][p]]]
    BY <2>0
  <2>2. PICK n : n = CHOOSE k \in T : \A m \in T : m <= k
    OBVIOUS
  <2>3. n \in T /\ \A m \in T : m <= n
    <3>1. PICK F \in Nat : F = FreeBlocks(j)
      BY FreeType
    <3>2. T \in SUBSET (0 .. F)
      BY <3>1
    <3>3. \E k \in T : \A m \in T : m <= k
      BY <2>1, <3>2, HasMost
    <3>4. QED
      BY <2>2, <3>3
  <2>4. PICK J : J = jlog[j]
    OBVIOUS
  <2>5. PICK h : h = HeadIn(J) /\ h = HeadPos(j)
    BY <2>4, HeadPosIs
  <2>6. PICK K : K = Torn(J, h, T)
    OBVIOUS
  <2>7. GoodLog(K) /\ Ring(K, h) /\ SameRegion(K, J)
    BY <2>1, <2>2, <2>3, <2>4, <2>5, <2>6, TornLog
  <2>8. jlog'[j] = K /\ jlog' = [i \in Journals |-> jlog'[i]] /\ \A i \in Journals : i # j => jlog'[i] = jlog[i]
    <3>1. jlog = [i \in Journals |-> jlog[i]]
      BY DEF LogsInv
    <3>2. jlog' = [jlog EXCEPT ![j] = K]
      BY <2>1, <2>4, <2>5, <2>6 DEF Torn, Dist
    <3>3. QED
      BY <3>1, <3>2
  <2>9. LogsInv'
    BY <2>7, <2>8, OtherLogs
  <2>10. QED
    BY <2>4, <2>7, <2>8, <2>9 DEF SameRegion
<1>3. QED
  BY <1>1, <1>2 DEF Crash

LEMMA CrashStep ==
  ASSUME IInv, Crash
  PROVE  IInv' /\ Simulates
<1>1. TypesInv /\ LogsInv /\ DiskInv /\ RegionsInv /\ LocksInv /\ FsckInv /\ CleanInv
  BY DEF IInv
<1>2. /\ up /\ up' = FALSE /\ txns' = [j \in Journals |-> <<>>]
      /\ UNCHANGED <<disk, ver, owner, pend, lost, fsckVars, bound>>
  BY DEF Crash, boundVars
<1>3. LogsInv' /\ \A i \in Journals : SameRegion(jlog'[i], jlog[i])
  BY <1>1, CrashLogs
<1>4. TypesInv'
  <2>1. <<>> \in Seq(Txn)
    OBVIOUS
  <2>2. txns' \in [Journals -> Seq(Txn)]
    BY <1>2, <2>1
  <2>3. QED
    BY <1>1, <1>2, <2>2 DEF TypesInv, Txn, fsckVars
<1>5. DiskInv'
  BY <1>1, <1>2 DEF DiskInv
<1>6. RegionsInv'
  <2>1. ASSUME NEW i \in Journals PROVE GoodJournal(jlog'[i], pend'[i], txns'[i], up', bound'.ver)
    <3>1. GoodJournal(jlog[i], pend[i], txns[i], up, bound.ver)
      BY <1>1 DEF RegionsInv
    <3>2. SameRegion(jlog'[i], jlog[i]) /\ txns'[i] = <<>>
      BY <1>2, <1>3
    <3>3. CASE Open(jlog[i])
      BY <1>2, <3>1, <3>2, <3>3 DEF GoodJournal, SameRegion
    <3>4. CASE ~Open(jlog[i])
      BY <1>2, <3>1, <3>2, <3>4 DEF GoodJournal, SameRegion
    <3>5. QED
      BY <3>3, <3>4
  <2>2. QED
    BY <2>1 DEF RegionsInv
<1>7. LocksInv'
  <2>1. \A i \in Journals : txns'[i] = <<>> /\ DOMAIN txns'[i] = {}
    BY <1>2
  <2>2. \A i \in Journals, b \in FsBlocks : pend'[i][b] # 0 => owner'[b] = i
    BY <1>1, <1>2 DEF LocksInv
  <2>3. QED
    BY <1>2, <2>1, <2>2 DEF LocksInv
<1>8. pc' = "off" /\ FsckInv' /\ CleanInv'
  <2>1. pc' = "off"
    BY <1>1, <1>2 DEF FsckInv, fsckVars
  <2>2. "off" # "look" /\ "off" \notin {"scan", "elems", "clean"} /\ "off" # "scan" /\ "off" # "elems"
        /\ "off" # "clean" /\ "off" # "done" /\ "off" \in {"off", "done"}
    OBVIOUS
  <2>3. QED
    BY <2>1, <2>2 DEF FsckInv, CleanInv
<1>9. Simulates
  <2>1. DiskVersion' = DiskVersion
    BY <1>2 DEF DiskVersion
  <2>2. LR!Crash
    BY <1>2, <2>1 DEF LR!Crash
  <2>3. QED
    BY <2>2 DEF Simulates, LR!Next
<1>10. QED
  BY <1>3, <1>4, <1>5, <1>6, <1>7, <1>8, <1>9 DEF IInv

-----------------------------------------------------------------------------
(* A commit.                                                               *)
NowAre(r, body, S, now) ==
    /\ now \in Seq(Txn)
    /\ \A k \in DOMAIN r : k \in DOMAIN now /\ now[k] = r[k]
    /\ \A k \in DOMAIN now : k \in DOMAIN r \/ (now[k].logged = S /\ now[k].need = S)
    /\ body # << >> => \E k \in DOMAIN now : now[k].need = S

LEMMA NextTxnsAre ==
  ASSUME NEW r \in Seq(Txn), NEW body, NEW S \in SUBSET FsBlocks, NEW x \in Blocks,
         NEW now, now = NextTxns(r, body, S, x)
  PROVE  NowAre(r, body, S, now)
<1>1. CASE body = << >>
  BY <1>1 DEF NextTxns, NowAre
<1>2. CASE body # << >>
  <2>1. PICK e : e = [first |-> x, logged |-> S, need |-> S]
    OBVIOUS
  <2>2. e.logged = S /\ e.need = S /\ e \in Txn
    BY <2>1 DEF Txn
  <2>3. now = Append(r, e)
    BY <1>2, <2>1 DEF NextTxns
  <2>4. PICK l \in Nat : l = Len(r) /\ DOMAIN r = 1 .. l
    <3>1. Len(r) \in Nat /\ DOMAIN r = 1 .. Len(r)
      OBVIOUS
    <3>2. QED
      BY <3>1
  <2>5. now \in Seq(Txn) /\ DOMAIN now = 1 .. l + 1 /\ (\A k \in 1 .. l : now[k] = r[k]) /\ now[l + 1] = e
    <3>1. now \in Seq(Txn)
      BY <2>2, <2>3
    <3>2. DOMAIN now = 1 .. l + 1 /\ (\A k \in 1 .. l : now[k] = r[k]) /\ now[l + 1] = e
      BY <2>3, <2>4
    <3>3. QED
      BY <3>1, <3>2
  <2>6. /\ \A k \in 1 .. l + 1 : k \in 1 .. l \/ k = l + 1
        /\ l + 1 \in 1 .. l + 1 /\ \A k \in 1 .. l : k \in 1 .. l + 1
    OBVIOUS
  <2>7. QED
    BY <1>2, <2>2, <2>4, <2>5, <2>6 DEF NowAre
<1>3. QED
  BY <1>1, <1>2

(* The journal after a commit that keeps the transactions r, those from    *)
(* m + 1 on.                                                               *)
LEMMA CommitJournal ==
  ASSUME IInv, NEW j \in Journals, NEW S \in SUBSET FsBlocks, NEW R \in SUBSET FsBlocks, Commit(j, S, R)
  PROVE  \E m, r, body, x :
           /\ KeptFrom(txns[j], m, r) /\ \A i \in 1 .. Len(txns[j]) : i <= m => txns[j][i].need = {}
           /\ x \in Blocks /\ (body = << >> => S = {})
           /\ txns' = [txns EXCEPT ![j] = NextTxns(r, body, S, x)]
           /\ pend' = [pend EXCEPT ![j] = NextPend(pend[j], S, R, NextTxns(r, body, S, x))]
           /\ GoodJournal(jlog'[j], NextPend(pend[j], S, R, NextTxns(r, body, S, x)), NextTxns(r, body, S, x),
                          TRUE, bound.ver)
           /\ LogsInv' /\ \A i \in Journals : i # j => jlog'[i] = jlog[i]
<1>1. TypesInv /\ LogsInv /\ RegionsInv
  BY DEF IInv
<1>2. up /\ S \intersect R = {} /\ \A b \in S : ver[b] < bound.ver
  BY DEF Commit
<1>3. PICK J : J = jlog[j]
  OBVIOUS
<1>4. PICK h : h = HeadIn(J) /\ h = HeadPos(j) /\ HeadOf(j) = J[h]
  BY <1>3, HeadPosIs
<1>5. GoodLog(J) /\ Ring(J, h) /\ h \in Blocks
  BY <1>1, <1>3, <1>4 DEF LogsInv, Ring
<1>6. PICK x \in Blocks : x = Ahead(h, 1)
  BY <1>5, DistFromNext
<1>7. PICK body : body = Body(S, R)
  OBVIOUS
<1>8. PICK r \in MayKeep(txns[j]) :
        /\ Len(body) + 1 <= FreeBlocks(j)
        /\ WriteLog(j, Ahead(HeadPos(j), 1), CommitRecs(body, J[h].seq + 1, IF r = << >> THEN x ELSE r[1].first))
        /\ txns' = [txns EXCEPT ![j] = NextTxns(r, body, S, x)]
        /\ pend' = [pend EXCEPT ![j] = NextPend(pend[j], S, R, NextTxns(r, body, S, x))]
  <2>1. \E kept \in MayKeep(txns[j]) :
          /\ Len(Body(S, R)) + 1 <= FreeBlocks(j)
          /\ WriteLog(j, Ahead(HeadPos(j), 1), Body(S, R) \o << LH(HeadOf(j).seq + 1,
                IF kept = << >> THEN Ahead(HeadPos(j), 1) ELSE kept[1].first, FALSE) >>)
          /\ txns' = [txns EXCEPT ![j] = NextTxns(kept, Body(S, R), S, Ahead(HeadPos(j), 1))]
          /\ pend' = [pend EXCEPT ![j] = NextPend(pend[j], S, R, NextTxns(kept, Body(S, R), S, Ahead(HeadPos(j), 1)))]
    BY Zenon DEF Commit, NextTxns, NextPend
  <2>2. QED
    BY <1>4, <1>6, <1>7, <2>1 DEF CommitRecs
<1>9. PICK q \in Seq(Txn) : q = txns[j]
  BY <1>1 DEF TypesInv, Txn
<1>10. PICK m : KeptFrom(q, m, r) /\ \A i \in 1 .. Len(q) : i <= m => q[i].need = {}
  BY <1>8, <1>9, KeptIs
<1>11. bound.ver \in Nat /\ \A b \in FsBlocks : ver[b] \in Nat /\ ver[b] >= 1
  BY <1>1, BoundFacts DEF TypesInv
<1>12. GoodText(body, S, R)
  <2>1. \A b \in S : ver[b] + 1 \in 1 .. bound.ver
    BY <1>2, <1>11
  <2>2. QED
    BY <1>7, <2>1, BodyText
<1>13. PICK n \in Nat : n = Len(body) + 1
  <2>1. \E T : body \in Seq(T)
    BY <1>12 DEF GoodText
  <2>2. QED
    BY <2>1
<1>14. n < JdBlocks /\ (Open(J) => Span(J) + n < JdBlocks)
  BY <1>1, <1>3, <1>8, <1>13, Room
<1>15. CommitTo(J, h, S, R, body, n)
  BY <1>2, <1>5, <1>11, <1>12, <1>13, <1>14 DEF CommitTo
<1>16. PICK K : K = jlog'[j]
  OBVIOUS
<1>17. /\ K = Written(J, h, CommitRecs(body, J[h].seq + 1, IF r = << >> THEN x ELSE r[1].first))
       /\ jlog' = [i \in Journals |-> jlog'[i]] /\ \A i \in Journals : i # j => jlog'[i] = jlog[i]
  <2>1. PICK recs : recs = CommitRecs(body, J[h].seq + 1, IF r = << >> THEN x ELSE r[1].first)
    OBVIOUS
  <2>2. WriteLog(j, Ahead(HeadPos(j), 1), recs)
    BY <1>8, <2>1
  <2>3. /\ jlog'[j] = Written(jlog[j], HeadIn(jlog[j]), recs) /\ jlog' = [i \in Journals |-> jlog'[i]]
        /\ \A i \in Journals : i # j => jlog'[i] = jlog[i]
    BY <1>1, <2>2, WriteLogIs
  <2>4. QED
    BY <1>3, <1>4, <1>16, <2>1, <2>3
<1>18. PICK now : now = NextTxns(r, body, S, x)
  OBVIOUS
<1>19. PICK p : p = pend[j]
  OBVIOUS
<1>20. GoodLog(K) /\ (\E y : Ring(K, y)) /\ GoodJournal(K, NextPend(p, S, R, now), now, TRUE, bound.ver)
  <2>1. CASE r = << >>
    <3>1. K = Written(J, h, CommitRecs(body, J[h].seq + 1, Ahead(h, 1)))
      BY <1>6, <1>17, <2>1
    <3>2. now = NextTxns(<< >>, body, S, Ahead(h, 1))
      BY <1>6, <1>18, <2>1
    <3>3. QED
      BY <1>15, <3>1, <3>2, CommitFresh
  <2>2. CASE r # << >>
    <3>1. r \in Seq(Txn) /\ Len(r) # 0
      <4>1. r \in Seq(Txn)
        BY <1>10 DEF KeptFrom
      <4>2. QED
        BY <2>2, <4>1
    <3>2. PICK top : top = bound.ver
      OBVIOUS
    <3>3. GoodJournal(J, p, q, TRUE, top)
      BY <1>1, <1>2, <1>3, <1>9, <1>19, <3>2 DEF RegionsInv, TypesInv
    <3>4. Open(J)
      <4>1. q # << >>
        <5>1. Len(r) = Len(q) - m /\ m \in 0 .. Len(q) /\ Len(r) \in Nat /\ Len(q) \in Nat
          BY <1>10, <3>1 DEF KeptFrom
        <5>2. Len(q) # 0
          BY <3>1, <5>1
        <5>3. QED
          BY <5>2
      <4>2. QED
        BY <3>3, <4>1 DEF GoodJournal
    <3>5. r[1].first \in Blocks /\ \E A, M, o : Kept(J, p, r, r[1].first, A, M, o, top)
      BY <1>5, <1>10, <3>1, <3>3, <3>4, KeptPart
    <3>6. PICK f \in Blocks : f = r[1].first
      BY <3>5
    <3>7. PICK A, M, o : Kept(J, p, r, f, A, M, o, top)
      BY <3>5, <3>6
    <3>8. Kept(J, p, r, f, A, M, o, bound.ver)
      BY <3>2, <3>7
    <3>9. K = Written(J, h, CommitRecs(body, J[h].seq + 1, f))
      BY <1>17, <2>2, <3>6
    <3>10. now = NextTxns(r, body, S, Ahead(h, 1))
      BY <1>6, <1>18
    <3>11. Span(J) + n < JdBlocks
      BY <1>14, <3>4
    <3>12. QED
      BY <1>15, <3>1, <3>6, <3>8, <3>9, <3>10, <3>11, CommitKeep
  <2>3. QED
    BY <2>1, <2>2
<1>21. LogsInv'
  BY <1>1, <1>16, <1>17, <1>20, OtherLogs
<1>22. body = << >> => S = {}
  BY <1>15, CommitFacts
<1>23. GoodJournal(jlog'[j], NextPend(pend[j], S, R, now), now, TRUE, bound.ver)
  BY <1>16, <1>19, <1>20
<1>24. QED
  BY <1>6, <1>8, <1>9, <1>10, <1>17, <1>18, <1>21, <1>22, <1>23

LEMMA CommitStep ==
  ASSUME IInv, NEW j \in Journals, NEW S \in SUBSET FsBlocks, NEW R \in SUBSET FsBlocks, Commit(j, S, R)
  PROVE  IInv' /\ Simulates
<1>1. TypesInv /\ LogsInv /\ DiskInv /\ RegionsInv /\ LocksInv /\ FsckInv /\ CleanInv
  BY DEF IInv
<1>2. /\ up /\ S \intersect R = {} /\ \A b \in S : owner[b] = j /\ ver[b] < bound.ver
      /\ \A b \in R : disk[b] = Content(b, ver[b])
      /\ ver' = [b \in FsBlocks |-> IF b \in S THEN ver[b] + 1 ELSE ver[b]]
      /\ UNCHANGED <<disk, up, owner, lost, fsckVars, bound>>
  BY DEF Commit, boundVars
<1>3. PICK m, r, body, x :
           /\ KeptFrom(txns[j], m, r) /\ \A i \in 1 .. Len(txns[j]) : i <= m => txns[j][i].need = {}
           /\ x \in Blocks /\ (body = << >> => S = {})
           /\ txns' = [txns EXCEPT ![j] = NextTxns(r, body, S, x)]
           /\ pend' = [pend EXCEPT ![j] = NextPend(pend[j], S, R, NextTxns(r, body, S, x))]
           /\ GoodJournal(jlog'[j], NextPend(pend[j], S, R, NextTxns(r, body, S, x)), NextTxns(r, body, S, x),
                          TRUE, bound.ver)
           /\ LogsInv' /\ \A i \in Journals : i # j => jlog'[i] = jlog[i]
  BY CommitJournal
<1>4. PICK now : now = NextTxns(r, body, S, x)
  OBVIOUS
<1>5. /\ now \in Seq(Txn)
      /\ \A k \in DOMAIN r : k \in DOMAIN now /\ now[k] = r[k]
      /\ \A k \in DOMAIN now : k \in DOMAIN r \/ (now[k].logged = S /\ now[k].need = S)
      /\ body # << >> => \E k \in DOMAIN now : now[k].need = S
  <2>1. r \in Seq(Txn) /\ x \in Blocks
    BY <1>3 DEF KeptFrom
  <2>2. NowAre(r, body, S, now)
    BY <1>4, <2>1, NextTxnsAre
  <2>3. QED
    BY <2>2 DEF NowAre
<1>6. /\ txns \in [Journals -> Seq(Txn)] /\ pend \in [Journals -> [FsBlocks -> 0 .. bound.ver]]
      /\ ver \in [FsBlocks -> 1 .. bound.ver] /\ bound.ver \in Nat /\ owner \in [FsBlocks -> Journals]
  BY <1>1, BoundFacts DEF TypesInv, Txn
<1>7. PICK np : np = NextPend(pend[j], S, R, now)
  OBVIOUS
<1>8. /\ np = [b \in FsBlocks |-> np[b]]
      /\ \A b \in FsBlocks : np[b] = IF b \in S THEN ver[b] + 1
                                     ELSE IF b \in R \/ \A i \in DOMAIN now : b \notin now[i].logged THEN 0 ELSE pend[j][b]
  BY <1>7 DEF NextPend
<1>9. /\ txns' = [txns EXCEPT ![j] = now] /\ pend' = [pend EXCEPT ![j] = np]
      /\ GoodJournal(jlog'[j], np, now, TRUE, bound.ver)
  BY <1>3, <1>4, <1>7
<1>10. /\ txns'[j] = now /\ pend'[j] = np /\ \A i \in Journals : i # j => txns'[i] = txns[i] /\ pend'[i] = pend[i]
  BY <1>6, <1>9
<1>11. TypesInv'
  <2>1. \A b \in FsBlocks : ver[b] \in 1 .. bound.ver /\ pend[j][b] \in 0 .. bound.ver
    BY <1>6
  <2>2. \A b \in S : ver[b] + 1 \in 1 .. bound.ver
    BY <1>2, <1>6, <2>1
  <2>3. ver' \in [FsBlocks -> 1 .. bound.ver]
    BY <1>2, <2>1, <2>2
  <2>4. \A b \in FsBlocks : np[b] \in 0 .. bound.ver
    <3>1. TAKE b \in FsBlocks
    <3>2. 0 \in 0 .. bound.ver
      BY <1>6
    <3>3. b \in S => ver[b] + 1 \in 0 .. bound.ver
      BY <1>6, <2>2
    <3>4. QED
      BY <1>8, <2>1, <3>2, <3>3
  <2>5. np \in [FsBlocks -> 0 .. bound.ver]
    BY <1>8, <2>4
  <2>6. pend' \in [Journals -> [FsBlocks -> 0 .. bound.ver]] /\ txns' \in [Journals -> Seq(Txn)]
    BY <1>5, <1>6, <1>9, <2>5
  <2>7. QED
    BY <1>1, <1>2, <2>3, <2>6 DEF TypesInv, Txn, fsckVars
<1>12. DiskInv'
  BY <1>1, <1>2 DEF DiskInv
<1>13. RegionsInv'
  <2>1. up = TRUE /\ up' = up /\ bound' = bound
    BY <1>1, <1>2 DEF TypesInv
  <2>2. GoodJournal(jlog'[j], pend'[j], txns'[j], up', bound'.ver)
    BY <1>9, <1>10, <2>1
  <2>3. QED
    BY <1>1, <1>3, <1>10, <2>1, <2>2, OtherJournals
<1>14. /\ \A k \in DOMAIN r : r[k] \in Txn /\ \E i \in DOMAIN txns[j] : r[k] = txns[j][i]
       /\ \A i \in DOMAIN txns[j] : txns[j][i].need # {} => \E k \in DOMAIN r : r[k] = txns[j][i]
  <2>1. PICK n \in Nat, l \in Nat : /\ n = Len(txns[j]) /\ l = Len(r) /\ DOMAIN txns[j] = 1 .. n /\ DOMAIN r = 1 .. l
                                    /\ m \in 0 .. n /\ l = n - m
    <3>1. /\ txns[j] \in Seq(Txn) /\ r \in Seq(Txn) /\ m \in 0 .. Len(txns[j]) /\ Len(r) = Len(txns[j]) - m
      BY <1>3 DEF KeptFrom
    <3>2. PICK a \in Nat, c \in Nat : a = Len(txns[j]) /\ c = Len(r) /\ DOMAIN txns[j] = 1 .. a /\ DOMAIN r = 1 .. c
      <4>1. /\ Len(txns[j]) \in Nat /\ DOMAIN txns[j] = 1 .. Len(txns[j])
            /\ Len(r) \in Nat /\ DOMAIN r = 1 .. Len(r)
        BY <3>1
      <4>2. QED
        BY <4>1
    <3>3. QED
      BY <3>1, <3>2
  <2>2. \A k \in 1 .. l : r[k] \in Txn /\ r[k] = txns[j][m + k]
    BY <1>3, <2>1 DEF KeptFrom
  <2>3. \A k \in 1 .. l : m + k \in 1 .. n
    BY <2>1
  <2>4. ASSUME NEW i \in 1 .. n, txns[j][i].need # {} PROVE \E k \in 1 .. l : r[k] = txns[j][i]
    <3>1. ~(i <= m)
      BY <1>3, <2>1, <2>4
    <3>2. PICK k \in 1 .. l : i = m + k
      BY <2>1, <3>1
    <3>3. QED
      BY <2>2, <3>2
  <2>5. QED
    BY <2>1, <2>2, <2>3, <2>4
<1>15. /\ \A k \in DOMAIN now : now[k].need \subseteq now[k].logged
       /\ \A b : \A i \in DOMAIN txns[j] : b \in txns[j][i].need => \E k \in DOMAIN now : b \in now[k].need
  <2>1. \A k \in DOMAIN r : r[k].need \subseteq r[k].logged
    BY <1>1, <1>14 DEF LocksInv
  <2>2. \A k \in DOMAIN now : now[k].need \subseteq now[k].logged
    BY <1>5, <2>1
  <2>3. ASSUME NEW b, NEW i \in DOMAIN txns[j], b \in txns[j][i].need PROVE \E k \in DOMAIN now : b \in now[k].need
    <3>1. PICK k \in DOMAIN r : r[k] = txns[j][i]
      BY <1>14, <2>3
    <3>2. QED
      BY <1>5, <2>3, <3>1
  <2>4. QED
    BY <2>2, <2>3
<1>16. LocksInv'
  <2>1. ASSUME NEW i \in Journals, NEW b \in FsBlocks, pend'[i][b] # 0 PROVE owner'[b] = i
    <3>1. CASE i = j
      BY <1>1, <1>2, <1>8, <1>10, <2>1, <3>1 DEF LocksInv
    <3>2. CASE i # j
      BY <1>1, <1>2, <1>10, <2>1, <3>2 DEF LocksInv
    <3>3. QED
      BY <3>1, <3>2
  <2>2. \A i \in Journals : \A k \in DOMAIN txns'[i] : txns'[i][k].need \subseteq txns'[i][k].logged
    BY <1>1, <1>10, <1>15 DEF LocksInv
  <2>3. ASSUME NEW b \in FsBlocks, disk'[b] # Content(b, ver'[b])
        PROVE  \E k \in DOMAIN txns'[owner'[b]] : b \in txns'[owner'[b]][k].need
    <3>1. owner'[b] = owner[b] /\ owner[b] \in Journals /\ disk'[b] = disk[b]
      BY <1>2, <1>6
    <3>2. CASE b \in S
      <4>1. owner'[b] = j /\ body # << >>
        BY <1>2, <1>3, <3>2
      <4>2. PICK k \in DOMAIN now : now[k].need = S
        BY <1>5, <4>1
      <4>3. QED
        BY <1>10, <3>2, <4>1, <4>2
    <3>3. CASE b \notin S
      <4>1. disk[b] # Content(b, ver[b])
        BY <1>2, <2>3, <3>3
      <4>2. PICK k \in DOMAIN txns[owner[b]] : b \in txns[owner[b]][k].need
        BY <1>1, <1>2, <4>1 DEF LocksInv
      <4>3. CASE owner[b] = j
        BY <1>10, <1>15, <3>1, <4>2, <4>3
      <4>4. CASE owner[b] # j
        BY <1>10, <3>1, <4>2, <4>4
      <4>5. QED
        BY <4>3, <4>4
    <3>4. QED
      BY <3>2, <3>3
  <2>4. up'
    BY <1>2
  <2>5. QED
    BY <2>1, <2>2, <2>3, <2>4 DEF LocksInv
<1>17. FsckInv' /\ pc = "off"
  BY <1>1, <1>2, NodeInv DEF fsckVars
<1>18. CleanInv'
  BY <1>2, <1>17 DEF CleanInv, fsckVars
<1>19. Simulates
  <2>1. PICK G \in SUBSET FsBlocks : G = {b \in FsBlocks : b \notin S /\ pend[j][b] # 0 /\ np[b] = 0}
    OBVIOUS
  <2>2. DiskVersion' = DiskVersion /\ DiskVersion = [b \in FsBlocks |-> disk[b].ver]
    BY <1>1, <1>2, DiskVersionIs DEF DiskVersion
  <2>3. ASSUME NEW b \in G PROVE b \notin S /\ pend[j][b] # 0 /\ DiskVersion[b] = ver[b]
    <3>1. b \in FsBlocks /\ b \notin S /\ pend[j][b] # 0 /\ np[b] = 0
      BY <2>1
    <3>2. disk[b] = Content(b, ver[b])
      <4>1. CASE b \in R
        BY <1>2, <4>1
      <4>2. CASE b \notin R
        <5>1. \A i \in DOMAIN now : b \notin now[i].logged
          BY <1>8, <3>1, <4>2
        <5>2. owner[b] = j
          BY <1>1, <3>1 DEF LocksInv
        <5>3. \A i \in DOMAIN txns[j] : b \notin txns[j][i].need
          BY <1>15, <5>1
        <5>4. QED
          BY <1>1, <1>2, <3>1, <5>2, <5>3 DEF LocksInv
      <4>3. QED
        BY <4>1, <4>2
    <3>3. QED
      BY <2>2, <3>1, <3>2, ContentVer
  <2>4. PICK top : top = Max({s.ver : s \in Situations})
    OBVIOUS
  <2>5. \A b \in S : owner[b] = j /\ ver[b] < top
    <3>1. bound.ver <= top /\ top \in Nat
      BY <1>1, <2>4, MaxVerIs DEF TypesInv
    <3>2. QED
      BY <1>2, <1>6, <3>1
  <2>6. pend' = [pend EXCEPT ![j] = [b \in FsBlocks |-> IF b \in S THEN ver[b] + 1 ELSE IF b \in G THEN 0 ELSE pend[j][b]]]
    <3>1. ASSUME NEW b \in FsBlocks PROVE np[b] = IF b \in S THEN ver[b] + 1 ELSE IF b \in G THEN 0 ELSE pend[j][b]
      BY <1>8, <2>1
    <3>2. np = [b \in FsBlocks |-> IF b \in S THEN ver[b] + 1 ELSE IF b \in G THEN 0 ELSE pend[j][b]]
      BY <1>8, <3>1
    <3>3. QED
      BY <1>9, <3>2
  <2>7. LR!Commit(j, S, G)
    BY <1>2, <2>2, <2>3, <2>4, <2>5, <2>6 DEF LR!Commit, LR!Revocable, LR!Nothing
  <2>8. QED
    BY <2>1, <2>7 DEF Simulates, LR!Next
<1>20. QED
  BY <1>3, <1>11, <1>12, <1>13, <1>16, <1>17, <1>18, <1>19 DEF IInv


LEMMA WriteBackStep ==
  ASSUME IInv, NEW b \in FsBlocks, WriteBack(b)
  PROVE  IInv' /\ Simulates
<1>1. TypesInv /\ LogsInv /\ DiskInv /\ RegionsInv /\ LocksInv /\ FsckInv /\ CleanInv
  BY DEF IInv
<1>2. PICK j \in Journals : j = owner[b]
  BY <1>1 DEF TypesInv
<1>3. /\ up /\ \E i \in DOMAIN txns[j] : b \in txns[j][i].need
      /\ disk' = [disk EXCEPT ![b] = Content(b, ver[b])]
      /\ txns' = [txns EXCEPT ![j] = [i \in DOMAIN txns[j] |-> [txns[j][i] EXCEPT !.need = txns[j][i].need \ {b}]]]
      /\ UNCHANGED <<jlog, up, ver, owner, pend, lost, fsckVars, boundVars>>
  BY <1>2 DEF WriteBack, InPlace
<1>4. /\ txns[j] \in Seq(Txn) /\ txns \in [Journals -> Seq(Txn)]
      /\ ver \in [FsBlocks -> 1 .. bound.ver] /\ owner \in [FsBlocks -> Journals] /\ up = TRUE
      /\ disk = [c \in FsBlocks |-> disk[c]]
  BY <1>1, <1>3 DEF TypesInv, Txn, DiskInv
<1>5. PICK n \in Nat : n = Len(txns[j]) /\ DOMAIN txns[j] = 1 .. n /\ txns[j] \in [1 .. n -> Txn]
  <2>1. Len(txns[j]) \in Nat /\ DOMAIN txns[j] = 1 .. Len(txns[j])
    BY <1>4
  <2>2. txns[j] \in [1 .. Len(txns[j]) -> Txn]
    BY <1>4
  <2>3. QED
    BY <2>1, <2>2
<1>6. /\ txns'[j] = [i \in 1 .. n |-> [txns[j][i] EXCEPT !.need = txns[j][i].need \ {b}]]
      /\ \A i \in Journals : i # j => txns'[i] = txns[i]
      /\ txns' = [txns EXCEPT ![j] = txns'[j]]
  BY <1>3, <1>4, <1>5
<1>7. \A i \in 1 .. n : /\ txns'[j][i] \in Txn /\ txns'[j][i].first = txns[j][i].first
                        /\ txns'[j][i].logged = txns[j][i].logged
                        /\ txns'[j][i].need = txns[j][i].need \ {b}
  <2>1. ASSUME NEW x \in Txn
        PROVE  LET y == [x EXCEPT !.need = x.need \ {b}]
               IN  y \in Txn /\ y.first = x.first /\ y.logged = x.logged /\ y.need = x.need \ {b}
    BY DEF Txn
  <2>2. QED
    BY <1>5, <1>6, <2>1
<1>8. txns'[j] \in Seq(Txn) /\ DOMAIN txns'[j] = 1 .. n
  <2>1. DOMAIN txns'[j] = 1 .. n /\ txns'[j] \in [1 .. n -> Txn]
    BY <1>6, <1>7
  <2>2. QED
    BY <2>1
<1>9. TypesInv'
  <2>1. txns' \in [Journals -> Seq(Txn)]
    BY <1>4, <1>6, <1>8
  <2>2. QED
    BY <1>1, <1>3, <2>1 DEF TypesInv, fsckVars, boundVars, Txn
<1>10. LogsInv'
  BY <1>1, <1>3 DEF LogsInv
<1>11. DiskInv'
  <2>1. disk' = [c \in FsBlocks |-> disk'[c]] /\ \A c \in FsBlocks : disk'[c] = IF c = b THEN Content(b, ver[b]) ELSE disk[c]
    BY <1>3, <1>4
  <2>2. Content(b, ver[b]).ver = ver[b] /\ ver[b] \in 1 .. bound.ver /\ bound' = bound
    BY <1>3, <1>4, ContentVer DEF boundVars
  <2>3. QED
    BY <1>1, <2>1, <2>2 DEF DiskInv
<1>12. RegionsInv'
  <2>1. GoodJournal(jlog[j], pend[j], txns[j], TRUE, bound.ver)
    BY <1>1, <1>4 DEF RegionsInv
  <2>2. Open(jlog[j])
    <3>1. txns[j] # << >>
      BY <1>3
    <3>2. QED
      BY <2>1, <3>1 DEF GoodJournal
  <2>3. PICK J : J = jlog[j]
    OBVIOUS
  <2>4. GoodJournal(J, pend[j], txns'[j], TRUE, bound.ver)
    <3>1. PICK q : q = txns[j]
      OBVIOUS
    <3>2. PICK r : r = txns'[j]
      OBVIOUS
    <3>3. DOMAIN r = DOMAIN q /\ \A k \in DOMAIN q : r[k].first = q[k].first /\ r[k].logged = q[k].logged
      BY <1>5, <1>7, <1>8, <3>1, <3>2
    <3>4. PICK p : p = pend[j]
      OBVIOUS
    <3>5. PICK top : top = bound.ver
      OBVIOUS
    <3>6. GoodJournal(J, p, r, TRUE, top)
      BY <2>1, <2>2, <2>3, <3>1, <3>3, <3>4, <3>5, SameTxns
    <3>7. QED
      BY <3>2, <3>4, <3>5, <3>6
  <2>5. GoodJournal(jlog'[j], pend'[j], txns'[j], up', bound'.ver)
    BY <1>3, <1>4, <2>3, <2>4 DEF boundVars
  <2>6. /\ \A i \in Journals : i # j => jlog'[i] = jlog[i]
        /\ \A i \in Journals : i # j => pend'[i] = pend[i] /\ txns'[i] = txns[i]
        /\ up' = up /\ bound' = bound
    BY <1>3, <1>6 DEF boundVars
  <2>7. QED
    BY <1>1, <2>5, <2>6, OtherJournals
<1>13. LocksInv'
  <2>1. \A i \in Journals : \A k \in DOMAIN txns'[i] : txns'[i][k].need \subseteq txns'[i][k].logged
    BY <1>1, <1>5, <1>6, <1>7, <1>8 DEF LocksInv
  <2>2. \A i \in Journals, c \in FsBlocks : pend'[i][c] # 0 => owner'[c] = i
    BY <1>1, <1>3 DEF LocksInv
  <2>3. ASSUME NEW c \in FsBlocks, disk'[c] # Content(c, ver'[c])
        PROVE  \E k \in DOMAIN txns'[owner'[c]] : c \in txns'[owner'[c]][k].need
    <3>1. c # b /\ disk'[c] = disk[c] /\ ver' = ver /\ owner' = owner /\ owner[c] \in Journals
      BY <1>3, <1>4, <2>3
    <3>2. PICK k \in DOMAIN txns[owner[c]] : c \in txns[owner[c]][k].need
      BY <1>1, <1>3, <2>3, <3>1 DEF LocksInv
    <3>3. CASE owner[c] = j
      BY <1>5, <1>7, <1>8, <3>1, <3>2, <3>3
    <3>4. CASE owner[c] # j
      BY <1>6, <3>1, <3>2, <3>4
    <3>5. QED
      BY <3>3, <3>4
  <2>4. up'
    BY <1>3
  <2>5. QED
    BY <2>1, <2>2, <2>3, <2>4 DEF LocksInv
<1>14. FsckInv' /\ pc = "off" /\ CleanInv'
  <2>1. FsckInv' /\ pc = "off"
    BY <1>1, <1>3, NodeInv DEF fsckVars
  <2>2. QED
    BY <1>3, <2>1 DEF CleanInv, fsckVars
<1>15. Simulates
  <2>1. DiskVersion' = [DiskVersion EXCEPT ![b] = ver[b]]
    <3>1. DiskVersion = [c \in FsBlocks |-> disk[c].ver] /\ DiskVersion' = [c \in FsBlocks |-> disk'[c].ver]
      BY <1>1, <1>11, DiskVersionIs, DiskVersionNext
    <3>2. \A c \in FsBlocks : disk'[c].ver = IF c = b THEN ver[b] ELSE disk[c].ver
      BY <1>3, <1>4, ContentVer
    <3>3. QED
      BY <3>1, <3>2
  <2>2. LR!WriteBack(b)
    BY <1>3, <2>1 DEF LR!WriteBack
  <2>3. QED
    BY <2>2 DEF Simulates, LR!Next
<1>16. QED
  BY <1>9, <1>10, <1>11, <1>12, <1>13, <1>14, <1>15 DEF IInv

LEMMA MountStep ==
  ASSUME IInv, Mount
  PROVE  IInv' /\ Simulates
<1>1. TypesInv /\ LogsInv /\ DiskInv /\ RegionsInv /\ LocksInv /\ FsckInv /\ CleanInv
  BY DEF IInv
<1>2. /\ ~up /\ \A j \in Journals : HeadOf(j).unmount
      /\ up' = TRUE /\ ver' = [b \in FsBlocks |-> disk[b].ver] /\ lost' = {}
      /\ pc' = "off"
      /\ UNCHANGED <<jlog, disk, owner, txns, pend, jid, pass, start, elem, bound>>
  BY DEF Mount
<1>3. \A j \in Journals : ~Open(jlog[j]) /\ txns[j] = << >> /\ \A b \in FsBlocks : pend[j][b] = 0
  <2>1. TAKE j \in Journals
  <2>2. ~Open(jlog[j])
    BY <1>2, HeadPosIs DEF Open
  <2>3. QED
    BY <1>1, <2>2 DEF RegionsInv, GoodJournal
<1>4. TypesInv'
  <2>1. ver' \in [FsBlocks -> 1 .. bound.ver]
    BY <1>1, <1>2 DEF DiskInv
  <2>2. QED
    BY <1>1, <1>2, <2>1 DEF TypesInv
<1>5. LogsInv' /\ DiskInv'
  BY <1>1, <1>2 DEF LogsInv, DiskInv
<1>6. RegionsInv'
  BY <1>2, <1>3 DEF RegionsInv, GoodJournal
<1>7. LocksInv'
  <2>1. \A b \in FsBlocks : disk'[b] = Content(b, ver'[b])
    BY <1>1, <1>2 DEF DiskInv
  <2>2. QED
    BY <1>1, <1>2, <2>1 DEF LocksInv
<1>8. FsckInv' /\ CleanInv'
  <2>1. "off" # "look" /\ "off" \notin {"scan", "elems", "clean"} /\ "off" # "done" /\ "off" \in {"off", "done"}
    OBVIOUS
  <2>2. QED
    BY <1>2, <2>1 DEF FsckInv, CleanInv
<1>9. Simulates
  <2>1. DiskVersion = [b \in FsBlocks |-> disk[b].ver] /\ DiskVersion' = DiskVersion
    BY <1>1, <1>2, DiskVersionIs DEF DiskVersion
  <2>2. LR!Mountable
    BY <1>1, <1>3, <2>1 DEF LR!Mountable, LR!Clean, LR!Nothing, DiskInv
  <2>3. owner' \in [FsBlocks -> Journals]
    BY <1>1, <1>2 DEF TypesInv
  <2>4. LR!Mount
    BY <1>2, <2>1, <2>2, <2>3 DEF LR!Mount
  <2>5. QED
    BY <2>4 DEF Simulates, LR!Next
<1>10. QED
  BY <1>4, <1>5, <1>6, <1>7, <1>8, <1>9 DEF IInv

-----------------------------------------------------------------------------
(* Damage, and the start and the end of fsck.                              *)

(* What SameNodes and SameRecovery say: a step that leaves the journals,   *)
(* the blocks and the nodes alone.                                         *)
LEMMA SameNodes ==
  ASSUME IInv, UNCHANGED <<jlog, disk, up, ver, owner, txns, pend, bound>>,
         jid' \in Journals, pass' \in {0, 1}, start' \in Blocks, elem' \in Nat,
         pc' \in {"off", "look", "scan", "elems", "clean", "clear", "done"}
  PROVE  TypesInv' /\ LogsInv' /\ DiskInv' /\ RegionsInv' /\ LocksInv'
<1>1. TypesInv'
  BY DEF IInv, TypesInv
<1>2. LogsInv' /\ DiskInv' /\ RegionsInv' /\ LocksInv'
  BY DEF IInv, LogsInv, DiskInv, RegionsInv, LocksInv
<1>3. QED
  BY <1>1, <1>2

LEMMA SameRecovery == ASSUME UNCHANGED <<disk, up, ver, owner, pend, lost>> PROVE Simulates
<1>1. DiskVersion' = DiskVersion
  BY DEF DiskVersion
<1>2. QED
  BY <1>1 DEF Simulates, LR!vars

LEMMA DamageStep ==
  ASSUME IInv, NEW j \in Journals, NEW p \in Blocks, Damage(j, p)
  PROVE  IInv' /\ Simulates
<1> DEFINE J == jlog[j]
           h == HeadIn(J)
           t == LogTail(J)
           L == Span(J)
           K == jlog'[j]
<1>1. TypesInv /\ LogsInv /\ DiskInv /\ RegionsInv /\ LocksInv /\ FsckInv /\ CleanInv
  BY DEF IInv
<1>2. /\ up = FALSE /\ pc = "off"
      /\ \/ J[p].kind \in {"LD", "RV"}
         \/ J[p].kind = "DATA" /\ J[p].magic
      /\ UNCHANGED <<disk, up, nodeVars, pend, lost, fsckVars, bound>>
  BY <1>1 DEF Damage, TypesInv, fsckVars
<1>3. jlog' = [jlog EXCEPT ![j] = [jlog[j] EXCEPT ![p] =
                IF jlog[j][p].kind = "DATA" THEN [jlog[j][p] EXCEPT !.magic = FALSE] ELSE Junk]]
  BY DEF Damage
<1>4. jlog = [i \in Journals |-> jlog[i]] /\ GoodLog(J) /\ Ring(J, h) /\ GoodJournal(J, pend[j], txns[j], FALSE, bound.ver)
  BY <1>1, <1>2 DEF LogsInv, RegionsInv
<1>5. J = [q \in Blocks |-> J[q]] /\ \A q \in Blocks : GoodBlock(J[q])
  BY <1>4 DEF GoodLog
<1>6. /\ jlog' = [i \in Journals |-> jlog'[i]] /\ \A i \in Journals : i # j => jlog'[i] = jlog[i]
      /\ K = [q \in Blocks |-> K[q]] /\ \A q \in Blocks : q # p => K[q] = J[q]
      /\ K[p] = IF J[p].kind = "DATA" THEN [J[p] EXCEPT !.magic = FALSE] ELSE Junk
  BY <1>3, <1>4, <1>5
<1>7. \/ J[p].kind \in {"LD", "RV"} /\ K[p] = Junk
      \/ J[p].kind = "DATA" /\ K[p] = Data(J[p].ver, FALSE)
  <2>1. CASE J[p].kind \in {"LD", "RV"}
    BY <1>6, <2>1
  <2>2. CASE J[p].kind = "DATA"
    <3>1. J[p] = Data(J[p].ver, J[p].magic)
      BY <1>5, <2>2 DEF GoodBlock
    <3>2. K[p] = [J[p] EXCEPT !.magic = FALSE]
      BY <1>6, <2>2
    <3>3. \A v, m : [Data(v, m) EXCEPT !.magic = FALSE] = Data(v, FALSE)
      <4>1. \A v, m, x : [Data(v, m) EXCEPT !.magic = x] = Data(v, x)
        BY DEF Data
      <4>2. QED
        BY <4>1
    <3>4. PICK x, v, m : x = J[p] /\ v = x.ver /\ m = x.magic
      OBVIOUS
    <3>5. x = Data(v, m) /\ K[p] = [x EXCEPT !.magic = FALSE]
      BY <3>1, <3>2, <3>4
    <3>6. K[p] = Data(v, FALSE)
      BY <3>3, <3>5
    <3>7. QED
      BY <2>2, <3>4, <3>6
  <2>3. QED
    BY <1>2, <2>1, <2>2
<1>8. /\ Junk.kind = "JUNK" /\ GoodBlock(Junk)
      /\ \A v : Data(v, FALSE).kind = "DATA" /\ GoodBlock(Data(v, FALSE)) /\ Data(v, FALSE).ver = v /\ Data(v, FALSE).magic = FALSE
  BY DEF Junk, Data, GoodBlock, Kinds
<1>9. /\ J[p].kind # "LH" /\ GoodBlock(K[p]) /\ K[p].kind # "LH"
      /\ \/ J[p].kind \in {"LD", "RV"} /\ K[p].kind = "JUNK"
         \/ J[p].kind = "DATA" /\ K[p].kind = "DATA" /\ K[p].ver = J[p].ver /\ K[p].magic = FALSE
  BY <1>7, <1>8
<1> HIDE DEF K, J, h, t, L
<1>10. h \in Blocks /\ t \in Blocks /\ t = J[h].tail /\ Open(J) = ~J[h].unmount /\ L = Dist(t, h) /\ J[h].kind = "LH" /\ L \in Blocks
  BY <1>4, LogFacts DEF t, L
<1>11. K[h] = J[h]
  BY <1>6, <1>9, <1>10
<1>12. GoodLog(K) /\ Ring(K, h)
  <2>1. \E q \in Blocks : q # h /\ J[q].kind = "LH" /\ K[q] = J[q]
    BY <1>4, <1>6, <1>9 DEF Ring
  <2>2. \A q \in Blocks : K[q] = J[q] \/ (GoodBlock(K[q]) /\ K[q].kind # "LH")
    BY <1>6, <1>9
  <2>3. K = [q \in Blocks |-> K[q]]
    BY <1>6
  <2>4. QED
    BY <1>4, <1>11, <2>1, <2>2, <2>3, RingOverwrite
<1>13. LogTail(K) = t /\ Open(K) = Open(J) /\ Span(K) = L
  <2>1. LogTail(K) = K[h].tail /\ Open(K) = ~K[h].unmount /\ Span(K) = Dist(LogTail(K), h)
    BY <1>12, LogFacts
  <2>2. QED
    BY <1>10, <1>11, <2>1
<1>14. WentBad(Region(K), Region(J), L)
  <2>1. ASSUME NEW d \in 0 .. L - 1
        PROVE  Ahead(t, d) \in Blocks /\ Region(K)[d] = K[Ahead(t, d)] /\ Region(J)[d] = J[Ahead(t, d)]
    <3>1. d \in 0 .. JdBlocks
      BY <1>10, SizeType
    <3>2. Ahead(t, d) \in Blocks
      BY <1>10, <3>1, AheadValue
    <3>3. Region(K)[d] = K[Ahead(t, d)]
      BY <1>13 DEF Region
    <3>4. Region(J)[d] = J[Ahead(t, d)]
      BY DEF Region, t, L
    <3>5. QED
      BY <3>2, <3>3, <3>4
  <2>2. \A q \in Blocks :
          \/ K[q] = J[q]
          \/ J[q].kind \in {"LD", "RV"} /\ K[q].kind = "JUNK"
          \/ /\ J[q].kind = "DATA" /\ K[q].kind = "DATA"
             /\ K[q].ver = J[q].ver /\ K[q].magic = FALSE
    BY <1>6, <1>9
  <2>3. QED
    BY <2>1, <2>2 DEF WentBad
<1>15. GoodJournal(K, pend[j], txns[j], FALSE, bound.ver)
  <2>1. CASE Open(J)
    <3>1. /\ GoodRegion(Region(J), L, bound.ver)
          /\ Sound(Region(J), L) => \A b \in FsBlocks : Replays(Region(J), L, b, pend[j][b])
      BY <1>4, <2>1 DEF GoodJournal, L
    <3>2. L \in Nat
      BY <1>10, SizeType
    <3>3. /\ GoodRegion(Region(K), L, bound.ver)
          /\ Sound(Region(K), L) => Sound(Region(J), L)
                /\ \A b, v : Replays(Region(J), L, b, v) => Replays(Region(K), L, b, v)
      <4>1. PICK V : V = Region(K)
        OBVIOUS
      <4>2. PICK W : W = Region(J)
        OBVIOUS
      <4>3. PICK top : top = bound.ver
        OBVIOUS
      <4>4. /\ GoodRegion(V, L, top)
            /\ Sound(V, L) => Sound(W, L) /\ \A b, v : Replays(W, L, b, v) => Replays(V, L, b, v)
        BY <1>14, <3>1, <3>2, <4>1, <4>2, <4>3, BadRegion
      <4>5. QED
        BY <4>1, <4>2, <4>3, <4>4
    <3>4. QED
      BY <1>13, <2>1, <3>1, <3>3 DEF GoodJournal
  <2>2. CASE ~Open(J)
    BY <1>4, <1>13, <2>2 DEF GoodJournal
  <2>3. QED
    BY <2>1, <2>2
<1>16. LogsInv'
  BY <1>1, <1>6, <1>12, OtherLogs DEF K
<1>17. RegionsInv'
  <2>1. GoodJournal(jlog'[j], pend'[j], txns'[j], up', bound'.ver)
    BY <1>2, <1>15 DEF K, nodeVars
  <2>2. QED
    BY <1>1, <1>2, <1>6, <2>1, OtherJournals DEF nodeVars
<1>18. TypesInv' /\ DiskInv' /\ LocksInv'
  <2>1. TypesInv'
    BY <1>1, <1>2 DEF TypesInv, fsckVars, nodeVars
  <2>2. DiskInv'
    BY <1>1, <1>2 DEF DiskInv
  <2>3. LocksInv'
    BY <1>1, <1>2 DEF LocksInv, nodeVars
  <2>4. QED
    BY <2>1, <2>2, <2>3
<1>19. FsckInv' /\ CleanInv'
  <2>1. "off" # "look" /\ "off" \notin {"scan", "elems", "clean"} /\ "off" # "done" /\ "off" \in {"off", "done"}
    OBVIOUS
  <2>2. pc' = "off"
    BY <1>2 DEF fsckVars
  <2>3. QED
    BY <2>1, <2>2 DEF FsckInv, CleanInv
<1>20. Simulates
  BY <1>2, SameRecovery DEF nodeVars
<1>21. QED
  BY <1>16, <1>17, <1>18, <1>19, <1>20 DEF IInv

LEMMA DamageFileStep ==
  ASSUME IInv, NEW j \in Journals, DamageFile(j)
  PROVE  IInv' /\ Simulates
<1>1. pc' = "off" /\ UNCHANGED <<jlog, disk, up, ver, owner, txns, pend, lost, bound, jid, pass, start, elem>>
  BY DEF DamageFile, nodeVars, fsckVars
<1>2. TypesInv' /\ LogsInv' /\ DiskInv' /\ RegionsInv' /\ LocksInv'
  <2>1. jid' \in Journals /\ pass' \in {0, 1} /\ start' \in Blocks /\ elem' \in Nat
        /\ pc' \in {"off", "look", "scan", "elems", "clean", "clear", "done"}
    BY <1>1 DEF IInv, TypesInv
  <2>2. QED
    BY <1>1, <2>1, SameNodes
<1>3. FsckInv' /\ CleanInv'
  <2>1. "off" # "look" /\ "off" \notin {"scan", "elems", "clean"} /\ "off" # "done" /\ "off" \in {"off", "done"}
    OBVIOUS
  <2>2. QED
    BY <1>1, <2>1 DEF FsckInv, CleanInv
<1>4. Simulates
  BY <1>1, SameRecovery
<1>5. QED
  BY <1>2, <1>3, <1>4 DEF IInv

LEMMA StartFsckStep ==
  ASSUME IInv, NEW m, StartFsck(m)
  PROVE  IInv' /\ Simulates
<1>1. /\ ~up /\ pc' = "look" /\ jid' = 1 /\ pass' = 0 /\ start' = 0 /\ elem' = 1 /\ revoked' = <<>> /\ nclean' = 0
      /\ UNCHANGED <<jlog, disk, up, ver, owner, txns, pend, lost, bound>>
  BY DEF StartFsck, Reset, nodeVars
<1>2. 1 \in Journals /\ 0 \in {0, 1} /\ 0 \in Blocks /\ 1 \in Nat
      /\ "look" \in {"off", "look", "scan", "elems", "clean", "clear", "done"}
  BY SizeType, ReplayAssumption DEF Journals
<1>3. TypesInv' /\ LogsInv' /\ DiskInv' /\ RegionsInv' /\ LocksInv'
  <2>1. jid' \in Journals /\ pass' \in {0, 1} /\ start' \in Blocks /\ elem' \in Nat
        /\ pc' \in {"off", "look", "scan", "elems", "clean", "clear", "done"}
    BY <1>1, <1>2
  <2>2. QED
    BY <1>1, <2>1, SameNodes
<1>4. FsckInv'
  <2>1. "look" \notin {"scan", "elems", "clean"} /\ "look" # "scan" /\ "look" # "elems" /\ "look" # "clean"
    OBVIOUS
  <2>2. QED
    BY <1>1, <2>1 DEF FsckInv
<1>5. CleanInv'
  <2>1. "look" # "done" /\ 0 \in 0 .. 1 - 1 /\ 1 .. 1 - 1 = {}
    OBVIOUS
  <2>2. QED
    BY <1>1, <2>1 DEF CleanInv
<1>6. Simulates
  BY <1>1, SameRecovery
<1>7. QED
  BY <1>3, <1>4, <1>5, <1>6 DEF IInv

LEMMA FsckCrashStep ==
  ASSUME IInv, FsckCrash
  PROVE  IInv' /\ Simulates
<1>1. /\ pc' = "off" /\ jid' = 1 /\ pass' = 0 /\ start' = 0 /\ elem' = 1
      /\ UNCHANGED <<jlog, disk, up, ver, owner, txns, pend, lost, bound>>
  BY DEF FsckCrash, Reset, nodeVars, boundVars
<1>2. 1 \in Journals /\ 0 \in {0, 1} /\ 0 \in Blocks /\ 1 \in Nat
      /\ "off" \in {"off", "look", "scan", "elems", "clean", "clear", "done"}
  BY SizeType, ReplayAssumption DEF Journals
<1>3. TypesInv' /\ LogsInv' /\ DiskInv' /\ RegionsInv' /\ LocksInv'
  <2>1. jid' \in Journals /\ pass' \in {0, 1} /\ start' \in Blocks /\ elem' \in Nat
        /\ pc' \in {"off", "look", "scan", "elems", "clean", "clear", "done"}
    BY <1>1, <1>2
  <2>2. QED
    BY <1>1, <2>1, SameNodes
<1>4. FsckInv' /\ CleanInv'
  <2>1. "off" # "look" /\ "off" \notin {"scan", "elems", "clean"} /\ "off" # "done" /\ "off" \in {"off", "done"}
    OBVIOUS
  <2>2. QED
    BY <1>1, <2>1 DEF FsckInv, CleanInv
<1>5. Simulates
  BY <1>1, SameRecovery
<1>6. QED
  BY <1>3, <1>4, <1>5 DEF IInv

-----------------------------------------------------------------------------
(* The steps of fsck.                                                      *)
LEMMA ScanFacts ==
  ASSUME IInv, pc \in {"scan", "elems", "clean"}
  PROVE  /\ GoodLog(jlog[jid]) /\ Ring(jlog[jid], HeadPos(jid)) /\ ~up /\ Open(jlog[jid])
         /\ HeadOf(jid).tail = LogTail(jlog[jid]) /\ LogTail(jlog[jid]) \in Blocks
         /\ Span(jlog[jid]) \in Nat /\ Span(jlog[jid]) < JdBlocks
         /\ Dist(LogTail(jlog[jid]), start) \in Nat /\ Dist(LogTail(jlog[jid]), start) <= Span(jlog[jid])
         /\ start = Ahead(LogTail(jlog[jid]), Dist(LogTail(jlog[jid]), start))
         /\ start = HeadPos(jid) <=> Dist(LogTail(jlog[jid]), start) = Span(jlog[jid])
         /\ \A d \in 0 .. Span(jlog[jid]) - 1 : Region(jlog[jid])[d] = jlog[jid][Ahead(LogTail(jlog[jid]), d)]
         /\ GoodRegion(Region(jlog[jid]), Span(jlog[jid]), bound.ver)
         /\ Sound(Region(jlog[jid]), Span(jlog[jid])) =>
                \A b \in FsBlocks : Replays(Region(jlog[jid]), Span(jlog[jid]), b, pend[jid][b])
<1> DEFINE J == jlog[jid]
           h == HeadPos(jid)
           t == LogTail(J)
           L == Span(J)
           c == Dist(t, start)
<1>1. jid \in Journals /\ start \in Blocks
  BY DEF IInv, TypesInv
<1>2. GoodLog(J) /\ Ring(J, h) /\ HeadOf(jid) = J[h]
  BY <1>1, HeadPosIs DEF IInv, LogsInv
<1>3. h \in Blocks /\ t \in Blocks /\ t = J[h].tail /\ L = Dist(t, h) /\ L \in Blocks /\ Ahead(t, L) = h
      /\ Region(J) = [d \in 0 .. L - 1 |-> J[Ahead(t, d)]]
  BY <1>2, LogFacts
<1>4. Open(J) /\ c <= L /\ ~up
  <2>1. Open(J) /\ c <= L
    BY DEF IInv, FsckInv
  <2>2. ~up
    BY DEF IInv, FsckInv
  <2>3. QED
    BY <2>1, <2>2
<1>5. /\ GoodRegion(Region(J), L, bound.ver)
      /\ Sound(Region(J), L) => \A b \in FsBlocks : Replays(Region(J), L, b, pend[jid][b])
  BY <1>1, <1>4 DEF IInv, RegionsInv, GoodJournal
<1> HIDE DEF J, h, t, L
<1>6. L \in Nat /\ L < JdBlocks
  BY <1>3, SizeType
<1>7. c \in Blocks /\ Ahead(t, c) = start
  BY <1>1, <1>3, DistValue
<1>8. c \in Nat
  BY <1>7, SizeType
<1>9. start = h <=> c = L
  BY <1>3, <1>7
<1>10. \A d \in 0 .. L - 1 : Region(J)[d] = J[Ahead(t, d)]
  BY <1>3
<1>11. QED
  BY <1>2, <1>3, <1>4, <1>5, <1>6, <1>7, <1>8, <1>9, <1>10 DEF J, h, t, L

(* Moving on in the region.                                                *)
LEMMA MoveOn ==
  ASSUME NEW t \in Blocks, NEW L \in Nat, L < JdBlocks, NEW c \in Nat, NEW n \in Nat, c + n <= L
  PROVE  /\ Ahead(Ahead(t, c), n) = Ahead(t, c + n) /\ Ahead(t, c + n) \in Blocks
         /\ Dist(t, Ahead(t, c + n)) = c + n
<1>1. c \in Blocks /\ n \in Blocks /\ c + n \in 0 .. JdBlocks /\ c + n \in Blocks
  BY SizeType
<1>2. Ahead(Ahead(t, c), n) = Ahead(t, c + n)
  BY <1>1, AheadAhead
<1>3. PICK x \in Blocks : x = c + n
  BY <1>1
<1>4. x \in 0 .. JdBlocks
  BY <1>1, <1>3
<1>5. Ahead(t, x) \in Blocks /\ Dist(t, Ahead(t, x)) = x
  BY <1>4, AheadValue, DistAhead
<1>6. QED
  BY <1>2, <1>3, <1>5

(* gfs2_revoke_check: revoked further on.                                  *)
LEMMA RevokeCheckIs ==
  ASSUME NEW t \in Blocks, NEW x \in 1 .. JdBlocks - 1, NEW r \in 0 .. JdBlocks - 1,
         NEW b, revoked[b] = Ahead(t, r), HeadOf(jid).tail = t, b \in DOMAIN revoked
  PROVE  RevokeCheck(b, Ahead(t, x)) <=> x < r
<1>1. JdBlocks \in Nat /\ t \in 0 .. JdBlocks - 1 /\ x \in 0 .. JdBlocks /\ r \in 0 .. JdBlocks
  BY SizeType
<1>2. Ahead(t, x) = IF t + x < JdBlocks THEN t + x ELSE t + x - JdBlocks
  BY <1>1, AheadValue
<1>3. Ahead(t, r) = IF t + r < JdBlocks THEN t + r ELSE t + r - JdBlocks
  BY <1>1, AheadValue
<1>4. RevokeCheck(b, Ahead(t, x)) <=>
        IF Ahead(t, r) < t THEN t < Ahead(t, x) \/ Ahead(t, x) < Ahead(t, r)
                           ELSE t < Ahead(t, x) /\ Ahead(t, x) < Ahead(t, r)
  BY DEF RevokeCheck
<1>5. QED
  BY <1>1, <1>2, <1>3, <1>4

LEMMA RecoveredStep ==
  ASSUME TypesInv, CleanInv, pc \notin {"off", "done"}, NEW err, NEW clean, Recovered(err, clean),
         \A i \in Journals : i # jid => jlog'[i] = jlog[i],
         clean = 0 \/ (clean = 1 /\ ~Open(jlog'[jid])), ~up'
  PROVE  /\ CleanInv' /\ FsckInv' /\ jid' \in Journals /\ pass' \in {0, 1} /\ start' \in Blocks /\ elem' \in Nat
         /\ pc' \in {"off", "look", "scan", "elems", "clean", "clear", "done"}
<1>1. jid \in Journals /\ Journals = 1 .. NJournals /\ NJournals \in Nat \ {0}
  BY ReplayAssumption DEF TypesInv, Journals
<1>2. nclean \in 0 .. jid - 1 /\ (nclean = jid - 1 => \A i \in 1 .. jid - 1 : ~Open(jlog[i]))
  BY DEF CleanInv
<1>3. /\ nclean' = nclean + clean /\ pass' = 0 /\ start' = 0 /\ elem' = 1 /\ revoked' = <<>>
      /\ \/ jid = NJournals /\ pc' = "done" /\ jid' = jid
         \/ jid # NJournals /\ pc' = "look" /\ jid' = jid + 1
  BY DEF Recovered
<1>4. nclean' \in 0 .. jid /\ (nclean' = jid => \A i \in 1 .. jid : ~Open(jlog'[i]))
  <2>1. nclean' \in 0 .. jid
    BY <1>1, <1>2, <1>3
  <2>2. ASSUME nclean' = jid PROVE clean = 1 /\ nclean = jid - 1
    BY <1>1, <1>2, <1>3, <2>2
  <2>3. ASSUME nclean' = jid, NEW i \in 1 .. jid PROVE ~Open(jlog'[i])
    <3>1. clean = 1 /\ nclean = jid - 1 /\ clean # 0
      BY <2>2, <2>3
    <3>2. CASE i = jid
      BY <3>1, <3>2
    <3>3. CASE i # jid
      <4>1. i \in 1 .. jid - 1 /\ i \in Journals
        BY <1>1, <3>3
      <4>2. ~Open(jlog[i])
        BY <1>2, <3>1, <4>1
      <4>3. QED
        BY <3>3, <4>1, <4>2
    <3>4. QED
      BY <3>2, <3>3
  <2>4. QED
    BY <2>1, <2>3
<1>5. jid' \in Journals /\ pass' \in {0, 1} /\ start' \in Blocks /\ elem' \in Nat
      /\ pc' \in {"off", "look", "scan", "elems", "clean", "clear", "done"}
  BY <1>1, <1>3, SizeType
<1>6. CASE jid = NJournals
  <2>1. pc' = "done" /\ nclean' \in 0 .. NJournals /\ (nclean' = NJournals => \A i \in Journals : ~Open(jlog'[i]))
    BY <1>1, <1>3, <1>4, <1>6
  <2>2. CleanInv'
    BY <2>1 DEF CleanInv
  <2>3. FsckInv'
    <3>1. "done" # "look" /\ "done" \notin {"scan", "elems", "clean"} /\ "done" # "scan" /\ "done" # "elems" /\ "done" # "clean"
      OBVIOUS
    <3>2. QED
      BY <2>1, <3>1 DEF FsckInv
  <2>4. QED
    BY <1>5, <2>2, <2>3
<1>7. CASE jid # NJournals
  <2>1. pc' = "look" /\ jid' = jid + 1
    BY <1>3, <1>7
  <2>2. jid' - 1 = jid
    BY <1>1, <2>1
  <2>3. CleanInv'
    BY <1>4, <2>1, <2>2 DEF CleanInv
  <2>4. FsckInv'
    <3>1. "look" \notin {"scan", "elems", "clean"} /\ "look" # "scan" /\ "look" # "elems" /\ "look" # "clean"
      OBVIOUS
    <3>2. QED
      BY <1>3, <2>1, <3>1 DEF FsckInv
  <2>5. QED
    BY <1>5, <2>3, <2>4
<1>8. QED
  BY <1>6, <1>7

LEMMA AskClearStep ==
  ASSUME TypesInv, CleanInv, pc \notin {"off", "done"}, NEW err, AskClear(err), jlog' = jlog, ~up'
  PROVE  /\ CleanInv' /\ FsckInv' /\ jid' \in Journals /\ pass' \in {0, 1} /\ start' \in Blocks /\ elem' \in Nat
         /\ pc' \in {"off", "look", "scan", "elems", "clean", "clear", "done"}
<1>1. pc' = "clear" /\ pass' = 0 /\ start' = 0 /\ elem' = 1 /\ UNCHANGED <<jid, nclean>>
  BY DEF AskClear
<1>2. "clear" # "look" /\ "clear" \notin {"scan", "elems", "clean"} /\ "clear" # "done" /\ "clear" # "scan"
      /\ "clear" # "elems" /\ "clear" # "clean" /\ "clear" \notin {"off", "done"}
  OBVIOUS
<1>3. FsckInv'
  BY <1>1, <1>2 DEF FsckInv
<1>4. CleanInv'
  BY <1>1, <1>2 DEF CleanInv
<1>5. QED
  BY <1>1, <1>3, <1>4, SizeType DEF TypesInv

LEMMA LookStep ==
  ASSUME IInv, Look
  PROVE  IInv' /\ Simulates
<1>1. TypesInv /\ CleanInv /\ FsckInv /\ pc = "look" /\ pc \notin {"off", "done"} /\ ~up /\ revoked = << >> /\ pass = 0
  BY DEF IInv, Look, FsckInv
<1>2. UNCHANGED <<jlog, disk, up, ver, owner, txns, pend, lost, bound>>
  BY DEF Look, nodeVars, boundVars
<1>3. jid \in Journals /\ NJournals \in Nat \ {0} /\ Journals = 1 .. NJournals
  BY <1>1, ReplayAssumption DEF TypesInv, Journals
<1> DEFINE Goal == /\ CleanInv' /\ FsckInv' /\ jid' \in Journals /\ pass' \in {0, 1} /\ start' \in Blocks /\ elem' \in Nat
                   /\ pc' \in {"off", "look", "scan", "elems", "clean", "clear", "done"}
<1>4. ASSUME NEW err, NEW clean, Recovered(err, clean), clean = 0 \/ (clean = 1 /\ ~Open(jlog'[jid])) PROVE Goal
  BY <1>1, <1>2, <1>4, RecoveredStep
<1>5. ASSUME NEW err, AskClear(err) PROVE Goal
  BY <1>1, <1>2, <1>5, AskClearStep
<1>6. ASSUME SkipBadFile PROVE Goal
  <2>1. /\ UNCHANGED <<nclean, pass, start, elem, revoked>>
        /\ \/ jid = NJournals /\ pc' = "done" /\ jid' = jid
           \/ jid # NJournals /\ pc' = "look" /\ jid' = jid + 1
    BY <1>6 DEF SkipBadFile
  <2>2. nclean \in 0 .. jid - 1
    BY <1>1 DEF CleanInv
  <2>3. jid' \in Journals /\ pass' \in {0, 1} /\ start' \in Blocks /\ elem' \in Nat
        /\ pc' \in {"off", "look", "scan", "elems", "clean", "clear", "done"}
    BY <1>1, <1>3, <2>1 DEF TypesInv
  <2>4. CASE jid = NJournals
    <3>1. pc' = "done" /\ nclean' \in 0 .. NJournals /\ nclean' # NJournals
      BY <1>3, <2>1, <2>2, <2>4
    <3>2. "done" # "look" /\ "done" \notin {"scan", "elems", "clean"} /\ "done" # "scan" /\ "done" # "elems"
          /\ "done" # "clean" /\ "done" \in {"off", "done"}
      OBVIOUS
    <3>3. CleanInv'
      BY <3>1, <3>2 DEF CleanInv
    <3>4. FsckInv'
      BY <1>1, <1>2, <3>1, <3>2 DEF FsckInv
    <3>5. QED
      BY <2>3, <3>3, <3>4
  <2>5. CASE jid # NJournals
    <3>1. pc' = "look" /\ nclean' \in 0 .. jid' - 1 /\ nclean' # jid' - 1 /\ revoked' = << >> /\ pass' = 0
      BY <1>1, <1>3, <2>1, <2>2, <2>5
    <3>2. "look" \notin {"scan", "elems", "clean"} /\ "look" # "scan" /\ "look" # "elems" /\ "look" # "clean" /\ "look" # "done"
      OBVIOUS
    <3>3. CleanInv'
      BY <3>1, <3>2 DEF CleanInv
    <3>4. FsckInv'
      BY <1>1, <1>2, <3>1, <3>2 DEF FsckInv
    <3>5. QED
      BY <2>3, <3>3, <3>4
  <2>6. QED
    BY <2>4, <2>5
<1>7. ASSUME StartReplay, ~HeadOf(jid).unmount PROVE Goal
  <2> DEFINE J == jlog[jid]
             t == LogTail(J)
             W == Region(J)
             L == Span(J)
  <2>1. /\ pc' = "scan" /\ pass' = 0 /\ start' = HeadOf(jid).tail
        /\ UNCHANGED <<jid, elem, revoked, nclean>>
    BY <1>7 DEF StartReplay
  <2>2. GoodLog(J) /\ Ring(J, HeadPos(jid)) /\ HeadPos(jid) = HeadIn(J) /\ HeadOf(jid) = J[HeadPos(jid)]
    BY <1>3, HeadPosIs DEF IInv, LogsInv
  <2>3. Open(J) /\ t = HeadOf(jid).tail /\ t \in Blocks /\ L \in Blocks
    <3>1. PICK h : h = HeadPos(jid)
      OBVIOUS
    <3>2. Open(J) = ~J[h].unmount /\ LogTail(J) = J[h].tail /\ LogTail(J) \in Blocks /\ Span(J) \in Blocks
      BY <2>2, <3>1, LogFacts
    <3>3. QED
      BY <1>7, <2>2, <3>1, <3>2
  <2>4. Dist(t, t) = 0
    <3>1. t <= t /\ t - t = 0
      BY <2>3, SizeType
    <3>2. QED
      BY <2>3, <3>1, DistValue
  <2>5. L \in Nat
    BY <2>3, SizeType
  <2> HIDE DEF J, t, W, L
  <2>6. \A d \in 0 .. L - 1 : ~(d < 0)
    BY <2>5
  <2>7. RevokedUpTo(W, L, t, 0, << >>)
    <3>1. DOMAIN << >> = {}
      OBVIOUS
    <3>2. QED
      BY <2>6, <3>1 DEF RevokedUpTo
  <2>8. /\ jlog'[jid'] = J /\ start' = t /\ revoked' = << >> /\ pc' = "scan" /\ pass' = 0 /\ ~up'
    BY <1>1, <1>2, <2>1, <2>3 DEF J
  <2>9. FsckInv'
    <3>1. "scan" # "look" /\ "scan" # "elems" /\ "scan" # "clean" /\ 0 # 1
      OBVIOUS
    <3>2. Dist(t, start') <= L
      BY <2>4, <2>5, <2>8
    <3>3. QED
      BY <2>3, <2>4, <2>6, <2>7, <2>8, <3>1, <3>2 DEF FsckInv, t, W, L
  <2>10. CleanInv'
    <3>1. "scan" \notin {"off", "done"} /\ "scan" # "done"
      OBVIOUS
    <3>2. QED
      BY <1>1, <1>2, <2>1, <3>1 DEF CleanInv
  <2>11. QED
    BY <1>1, <2>1, <2>3, <2>9, <2>10 DEF TypesInv
<1>8. Goal
  <2>1. \/ SkipBadFile
        \/ HeadOf(jid).unmount /\ Recovered(0, 1)
        \/ Recovered(0, WasDirty)
        \/ \E err : AskClear(err)
        \/ StartReplay /\ ~HeadOf(jid).unmount
    BY DEF Look
  <2>2. ASSUME HeadOf(jid).unmount PROVE ~Open(jlog'[jid])
    BY <1>2, <2>2, HeadPosIs DEF Open
  <2>3. WasDirty = 0
    BY DEF WasDirty
  <2> HIDE DEF Goal
  <2>4. CASE HeadOf(jid).unmount /\ Recovered(0, 1)
    BY <1>4, <2>2, <2>4
  <2>5. CASE Recovered(0, WasDirty)
    BY <1>4, <2>3, <2>5
  <2>6. QED
    BY <1>5, <1>6, <1>7, <2>1, <2>4, <2>5
<1>9. TypesInv' /\ LogsInv' /\ DiskInv' /\ RegionsInv' /\ LocksInv'
  BY <1>2, <1>8, SameNodes
<1>10. Simulates
  BY <1>2, SameRecovery
<1>11. QED
  BY <1>8, <1>9, <1>10 DEF IInv

LEMMA LeaveJournalStep ==
  ASSUME IInv, LeaveJournal
  PROVE  IInv' /\ Simulates
<1>1. TypesInv /\ CleanInv /\ pc \notin {"off", "done"} /\ ~up
  BY DEF IInv, LeaveJournal, FsckInv
<1>2. UNCHANGED <<jlog, disk, up, ver, owner, txns, pend, lost, bound>> /\ Recovered(error, 0)
  BY DEF LeaveJournal, nodeVars, boundVars, WasDirty
<1>3. /\ CleanInv' /\ FsckInv' /\ jid' \in Journals /\ pass' \in {0, 1} /\ start' \in Blocks /\ elem' \in Nat
      /\ pc' \in {"off", "look", "scan", "elems", "clean", "clear", "done"}
  BY <1>1, <1>2, RecoveredStep
<1>4. TypesInv' /\ LogsInv' /\ DiskInv' /\ RegionsInv' /\ LocksInv'
  BY <1>2, <1>3, SameNodes
<1>5. Simulates
  BY <1>2, SameRecovery
<1>6. QED
  BY <1>3, <1>4, <1>5 DEF IInv

LEMMA EndOfPassStep ==
  ASSUME IInv, EndOfPass
  PROVE  IInv' /\ Simulates
<1> DEFINE J == jlog[jid]
           t == LogTail(J)
           W == Region(J)
           L == Span(J)
           c == Dist(t, start)
<1>1. TypesInv /\ CleanInv /\ FsckInv /\ pc = "scan" /\ pc \in {"scan", "elems", "clean"} /\ start = HeadPos(jid)
  BY DEF IInv, EndOfPass
<1>2. /\ UNCHANGED <<jlog, disk, up, ver, owner, txns, pend, lost, bound, jid, elem, revoked, nclean>>
      /\ IF pass = 0 THEN pass' = 1 /\ start' = HeadOf(jid).tail /\ pc' = pc
                     ELSE pc' = "clean" /\ UNCHANGED <<pass, start>>
  BY DEF EndOfPass, nodeVars, boundVars
<1>3. /\ ~up /\ Open(J) /\ HeadOf(jid).tail = t /\ t \in Blocks /\ L \in Nat /\ c = L
  BY <1>1, ScanFacts
<1>4. /\ pass = 0 => (\A d \in 0 .. L - 1 : d < c => W[d].kind # "JUNK") /\ RevokedUpTo(W, L, t, c, revoked)
      /\ pass = 1 => Sound(W, L) /\ RevokedUpTo(W, L, t, L, revoked) /\ PlacedUpTo(W, L, pend[jid], c, disk)
      /\ pass \in {0, 1} /\ jid \in Journals /\ elem \in Nat /\ start \in Blocks
  BY <1>1 DEF FsckInv, TypesInv
<1>5. Dist(t, t) = 0
  <2>1. t <= t /\ t - t = 0
    BY <1>3, SizeType
  <2>2. QED
    BY <1>3, <2>1, DistValue
<1> HIDE DEF J, t, W, L, c
<1>6. FsckInv' /\ CleanInv' /\ pass' \in {0, 1} /\ start' \in Blocks /\ pc' \in {"scan", "clean"}
  <2>1. CASE pass = 0
    <3>1. pc' = "scan" /\ pass' = 1 /\ start' = t /\ Dist(t, start') = 0
      BY <1>1, <1>2, <1>3, <1>5, <2>1
    <3>2. Sound(W, L)
      <4>1. \A d \in 0 .. L - 1 : d < c
        BY <1>3
      <4>2. QED
        BY <1>4, <2>1, <4>1 DEF Sound
    <3>3. RevokedUpTo(W, L, t, L, revoked)
      BY <1>3, <1>4, <2>1
    <3>4. PlacedUpTo(W, L, pend[jid], 0, disk)
      <4>1. \A d \in 0 .. L - 1, i \in 1 .. L : ~(d + i < 0)
        BY <1>3
      <4>2. QED
        BY <4>1 DEF PlacedUpTo
    <3>5. FsckInv'
      <4>1. "scan" # "look" /\ "scan" # "elems" /\ "scan" # "clean" /\ 0 # 1 /\ 0 <= L
        BY <1>3
      <4>2. jlog'[jid'] = J /\ ~up' /\ Open(J)
        BY <1>2, <1>3 DEF J
      <4>3. LogTail(jlog'[jid']) = t /\ Region(jlog'[jid']) = W /\ Span(jlog'[jid']) = L
        BY <4>2 DEF t, W, L
      <4>4. QED
        BY <1>2, <3>1, <3>2, <3>3, <3>4, <4>1, <4>2, <4>3 DEF FsckInv
    <3>6. CleanInv'
      BY <1>1, <1>2, <3>1 DEF CleanInv
    <3>7. QED
      BY <1>3, <3>1, <3>5, <3>6
  <2>2. CASE pass # 0
    <3>1. pc' = "clean" /\ pass = 1 /\ pass' = 1 /\ start' = start
      BY <1>2, <1>4, <2>2
    <3>2. Sound(W, L) /\ PlacedUpTo(W, L, pend[jid], L, disk)
      BY <1>3, <1>4, <3>1
    <3>3. FsckInv'
      <4>1. "clean" # "look" /\ "clean" # "elems" /\ "clean" # "scan"
        OBVIOUS
      <4>2. jlog'[jid'] = J /\ ~up' /\ Open(J) /\ c <= L
        BY <1>2, <1>3 DEF J
      <4>3. LogTail(jlog'[jid']) = t /\ Region(jlog'[jid']) = W /\ Span(jlog'[jid']) = L /\ Dist(t, start') = c
        BY <3>1, <4>2 DEF t, W, L, c
      <4>4. QED
        BY <1>2, <3>1, <3>2, <4>1, <4>2, <4>3 DEF FsckInv
    <3>4. CleanInv'
      BY <1>1, <1>2, <3>1 DEF CleanInv
    <3>5. QED
      BY <1>4, <3>1, <3>3, <3>4
  <2>3. QED
    BY <2>1, <2>2
<1>7. TypesInv' /\ LogsInv' /\ DiskInv' /\ RegionsInv' /\ LocksInv'
  BY <1>2, <1>4, <1>6, SameNodes
<1>8. Simulates
  BY <1>2, SameRecovery
<1>9. QED
  BY <1>6, <1>7, <1>8 DEF IInv

(* Over a part of the region without a revoke, a place without a copy, a   *)
(* descriptor of revokes.                                                  *)
LEMMA RevokedOn ==
  ASSUME NEW W, NEW L \in Nat, NEW t, NEW c \in Nat, NEW n \in Nat, NEW rv, RevokedUpTo(W, L, t, c, rv),
         \A d \in 0 .. L - 1 : c <= d /\ d < c + n => W[d].kind # "RV"
  PROVE  RevokedUpTo(W, L, t, c + n, rv)
<1>1. \A b, d : d \in 0 .. L - 1 /\ d < c + n /\ Revokes(W, L, b, d) => d < c
  BY DEF Revokes
<1>2. \A r \in 0 .. L - 1 : r < c => r < c + n
  OBVIOUS
<1>3. QED
  BY <1>1, <1>2 DEF RevokedUpTo

LEMMA PlacedOn ==
  ASSUME NEW top, NEW W, NEW L \in Nat, GoodRegion(W, L, top), NEW c \in Nat, W[c].kind # "DATA",
         NEW p, NEW dk, PlacedUpTo(W, L, p, c, dk)
  PROVE  PlacedUpTo(W, L, p, c + 1, dk)
<1>1. ASSUME NEW b \in FsBlocks, NEW d \in 0 .. L - 1, NEW i \in 1 .. L,
             p[b] # 0, LastEntry(W, L, b, d, i), d + i < c + 1
      PROVE  dk[b].ver = p[b]
  <2>1. Entry(W, L, b, d, i)
    BY <1>1 DEF LastEntry
  <2>2. W[d + i].kind = "DATA"
    BY <2>1, EntryPlace DEF GoodElem
  <2>3. d + i # c
    BY <2>2
  <2>4. d + i < c
    BY <1>1, <2>3
  <2>5. QED
    BY <1>1, <2>4 DEF PlacedUpTo
<1>2. QED
  BY <1>1 DEF PlacedUpTo

LEMMA RevokedMore ==
  ASSUME NEW W, NEW L \in Nat, NEW t, NEW c \in 0 .. L - 1, NEW rv, RevokedUpTo(W, L, t, c, rv),
         W[c].kind = "RV",
         NEW rw, rw = [b \in DOMAIN rv \union W[c].blks |-> IF b \in W[c].blks THEN Ahead(t, c) ELSE rv[b]]
  PROVE  RevokedUpTo(W, L, t, c + 1, rw)
<1>1. DOMAIN rw = DOMAIN rv \union W[c].blks
  OBVIOUS
<1>2. \A d \in 0 .. L - 1 : d < c + 1 <=> d < c \/ d = c
  OBVIOUS
<1>3. \A b : Revokes(W, L, b, c) <=> b \in W[c].blks
  BY DEF Revokes
<1>4. ASSUME NEW b \in DOMAIN rw
      PROVE  \E r \in 0 .. L - 1 :
                /\ r < c + 1 /\ rw[b] = Ahead(t, r) /\ Revokes(W, L, b, r)
                /\ \A d \in 0 .. L - 1 : d < c + 1 /\ Revokes(W, L, b, d) => d <= r
  <2>1. CASE b \in W[c].blks
    <3>1. c < c + 1 /\ rw[b] = Ahead(t, c) /\ Revokes(W, L, b, c)
      BY <1>1, <1>3, <2>1
    <3>2. \A d \in 0 .. L - 1 : d < c + 1 => d <= c
      OBVIOUS
    <3>3. QED
      BY <3>1, <3>2
  <2>2. CASE b \notin W[c].blks
    <3>1. b \in DOMAIN rv /\ rw[b] = rv[b]
      BY <1>1, <2>2
    <3>2. PICK r \in 0 .. L - 1 :
            /\ r < c /\ rv[b] = Ahead(t, r) /\ Revokes(W, L, b, r)
            /\ \A d \in 0 .. L - 1 : d < c /\ Revokes(W, L, b, d) => d <= r
      BY <3>1 DEF RevokedUpTo
    <3>3. \A d \in 0 .. L - 1 : d < c + 1 /\ Revokes(W, L, b, d) => d <= r
      BY <1>2, <1>3, <2>2, <3>2
    <3>4. r < c + 1
      BY <1>2, <3>2
    <3>5. QED
      BY <3>1, <3>2, <3>3, <3>4
  <2>3. QED
    BY <2>1, <2>2
<1>5. \A b \in FsBlocks, d \in 0 .. L - 1 : d < c + 1 /\ Revokes(W, L, b, d) => b \in DOMAIN rw
  BY <1>1, <1>2, <1>3 DEF RevokedUpTo
<1>6. QED
  BY <1>4, <1>5 DEF RevokedUpTo

(* The places of fsck in the region, and what they say.                    *)
AtFirst(W, L, t, c, rv) ==
    (\A d \in 0 .. L - 1 : d < c => W[d].kind # "JUNK") /\ RevokedUpTo(W, L, t, c, rv)
AtSecond(W, L, t, c, rv, p, dk) ==
    Sound(W, L) /\ RevokedUpTo(W, L, t, L, rv) /\ PlacedUpTo(W, L, p, c, dk)

LEMMA ScanInv ==
  ASSUME NEW J, NEW c, jlog' = jlog, jid' = jid, J = jlog[jid], ~up', pc' = "scan", pass' \in {0, 1}, Open(J), c <= Span(J),
         Dist(LogTail(J), start') = c,
         pass' = 0 => AtFirst(Region(J), Span(J), LogTail(J), c, revoked'),
         pass' = 1 => AtSecond(Region(J), Span(J), LogTail(J), c, revoked', pend'[jid], disk')
  PROVE  FsckInv'
<1>1. "scan" # "look" /\ "scan" # "elems" /\ "scan" # "clean"
  OBVIOUS
<1>2. jlog'[jid'] = J
  OBVIOUS
<1>3. pass' = 0 => /\ \A d \in 0 .. Span(J) - 1 : d < c => Region(J)[d].kind # "JUNK"
                   /\ RevokedUpTo(Region(J), Span(J), LogTail(J), c, revoked')
  BY DEF AtFirst
<1>4. pass' = 1 => /\ Sound(Region(J), Span(J)) /\ RevokedUpTo(Region(J), Span(J), LogTail(J), Span(J), revoked')
                   /\ PlacedUpTo(Region(J), Span(J), pend'[jid], c, disk')
  BY DEF AtSecond
<1>5. QED
  BY <1>1, <1>2, <1>3, <1>4 DEF FsckInv

LEMMA ElemsInv ==
  ASSUME NEW J, NEW c, jlog' = jlog, jid' = jid, J = jlog[jid], ~up', pc' = "elems", pass' = 1, Open(J), c < Span(J), c <= Span(J),
         Dist(LogTail(J), start') = c, Region(J)[c].kind = "LD", elem' \in 1 .. Len(Region(J)[c].elems) + 1,
         AtSecond(Region(J), Span(J), LogTail(J), c + elem', revoked', pend'[jid], disk')
  PROVE  FsckInv'
<1>1. "elems" # "look" /\ "elems" # "scan" /\ "elems" # "clean"
  OBVIOUS
<1>2. jlog'[jid'] = J
  OBVIOUS
<1>3. /\ Sound(Region(J), Span(J)) /\ RevokedUpTo(Region(J), Span(J), LogTail(J), Span(J), revoked')
      /\ PlacedUpTo(Region(J), Span(J), pend'[jid], c + elem', disk')
  BY DEF AtSecond
<1>4. QED
  BY <1>1, <1>2, <1>3 DEF FsckInv

(* What is left to show of a step of fsck that changes nothing but its own   *)
(* variables.                                                              *)
FsckGoal == /\ FsckInv' /\ pass' \in {0, 1} /\ start' \in Blocks /\ elem' \in Nat /\ CleanInv' /\ jid' \in Journals
            /\ pc' \in {"off", "look", "scan", "elems", "clean", "clear", "done"}

LEMMA ForeachStep ==
  ASSUME IInv, ForeachDescriptor
  PROVE  IInv' /\ Simulates
<1> DEFINE J == jlog[jid]
           t == LogTail(J)
           W == Region(J)
           L == Span(J)
           c == Dist(t, start)
<1>1. TypesInv /\ CleanInv /\ FsckInv /\ pc = "scan" /\ pc \in {"scan", "elems", "clean"} /\ start # HeadPos(jid)
  BY DEF IInv, ForeachDescriptor
<1>2. UNCHANGED <<jlog, disk, up, ver, owner, txns, pend, lost, bound>>
  BY DEF ForeachDescriptor, nodeVars, boundVars
<1>20. SUFFICES FsckGoal
  <2>1. TypesInv' /\ LogsInv' /\ DiskInv' /\ RegionsInv' /\ LocksInv'
    BY <1>2, <1>20, SameNodes DEF FsckGoal
  <2>2. QED
    BY <1>2, <1>20, <2>1, SameRecovery DEF IInv, FsckGoal
<1>3. /\ ~up /\ Open(J) /\ HeadOf(jid).tail = t /\ t \in Blocks /\ L \in Nat /\ L < JdBlocks /\ c \in Nat /\ c < L
      /\ start = Ahead(t, c) /\ GoodRegion(W, L, bound.ver)
  <2>1. /\ ~up /\ Open(J) /\ HeadOf(jid).tail = t /\ t \in Blocks /\ L \in Nat /\ L < JdBlocks /\ c \in Nat /\ c <= L
        /\ start = Ahead(t, c) /\ GoodRegion(W, L, bound.ver) /\ c # L
    BY <1>1, ScanFacts
  <2> HIDE DEF J, t, W, L, c
  <2>2. QED
    BY <2>1
<1>4. /\ pass = 0 => AtFirst(W, L, t, c, revoked)
      /\ pass = 1 => AtSecond(W, L, t, c, revoked, pend[jid], disk)
      /\ pass \in {0, 1} /\ jid \in Journals /\ elem \in Nat /\ start \in Blocks
  BY <1>1 DEF FsckInv, TypesInv, AtFirst, AtSecond
<1>5. Cur = W[c] /\ c \in 0 .. L - 1
  <2>1. \A d \in 0 .. L - 1 : W[d] = J[Ahead(t, d)]
    BY <1>1, ScanFacts
  <2>2. c \in 0 .. L - 1
    BY <1>3
  <2>3. QED
    BY <1>3, <2>1, <2>2 DEF Cur
<1> HIDE DEF J, t, W, L, c
<1>6. ASSUME NEW n \in Nat, c + n <= L
      PROVE  Ahead(start, n) = Ahead(t, c + n) /\ Ahead(start, n) \in Blocks /\ Dist(t, Ahead(start, n)) = c + n
  BY <1>3, <1>6, MoveOn
<1>7. Ahead(start, 1) \in Blocks /\ Dist(t, Ahead(start, 1)) = c + 1 /\ c + 1 <= L /\ PastHeader(start) = Ahead(start, 1)
      /\ NextDescriptor(start, 0) = Ahead(start, 1)
  <2>1. c + 1 <= L
    BY <1>3
  <2>2. 1 \in 0 .. JdBlocks /\ start + 1 \in Int /\ start \in 0 .. JdBlocks - 1 /\ JdBlocks \in Nat
    BY <1>4, SizeType
  <2>3. Ahead(start, 1) = IF start + 1 < JdBlocks THEN start + 1 ELSE start + 1 - JdBlocks
    BY <1>4, <2>2, AheadValue
  <2>4. PastHeader(start) = Ahead(start, 1)
    BY <2>2, <2>3 DEF PastHeader, IncrBlk
  <2>5. 0 + 1 = 1
    OBVIOUS
  <2>6. QED
    BY <1>6, <2>1, <2>4, <2>5 DEF NextDescriptor
<1>8. ASSUME pc' = "scan" \/ pc' = "elems", jid' = jid, nclean' = nclean PROVE CleanInv'
  BY <1>1, <1>2, <1>8 DEF CleanInv
<1>9. ASSUME NEW m \in Nat, m <= L, start' \in Blocks, Dist(t, start') = m, pc' = "scan",
             UNCHANGED <<jid, pass, elem, nclean>>,
             pass = 0 => AtFirst(W, L, t, m, revoked'),
             pass = 1 => AtSecond(W, L, t, m, revoked', pend[jid], disk)
      PROVE  FsckGoal
  <2>3. PICK K : K = J
    OBVIOUS
  <2>4. /\ jlog' = jlog /\ jid' = jid /\ K = jlog[jid] /\ ~up' /\ pass' \in {0, 1} /\ Open(K) /\ m <= Span(K)
        /\ Dist(LogTail(K), start') = m
        /\ pass' = 0 => AtFirst(Region(K), Span(K), LogTail(K), m, revoked')
        /\ pass' = 1 => AtSecond(Region(K), Span(K), LogTail(K), m, revoked', pend'[jid], disk')
    BY <1>2, <1>3, <1>4, <1>9, <2>3 DEF J, W, t, L
  <2>5. FsckInv'
    BY <1>9, <2>4, ScanInv
  <2>6. CleanInv'
    BY <1>8, <1>9
  <2>7. pass' \in {0, 1} /\ start' \in Blocks /\ elem' \in Nat /\ jid' \in Journals
    BY <1>4, <1>9
  <2>8. QED
    BY <1>9, <2>5, <2>6, <2>7 DEF FsckGoal
<1>19. PICK c1 \in Nat : c1 = c + 1
  BY <1>3
<1>10. CASE Cur.kind = "LH" /\ start' = PastHeader(start) /\ UNCHANGED <<pc, jid, pass, elem, revoked, nclean>>
  <2>1. \A d \in 0 .. L - 1 : c <= d /\ d < c + 1 => d = c
    BY <1>3
  <2>2. W[c].kind # "RV" /\ W[c].kind # "JUNK" /\ W[c].kind # "DATA"
    BY <1>5, <1>10
  <2>3. \A d \in 0 .. L - 1 : d < c + 1 => d < c \/ d = c
    BY <1>3
  <2>4. pass = 0 => AtFirst(W, L, t, c + 1, revoked)
    BY <1>3, <1>4, <2>1, <2>2, <2>3, RevokedOn DEF AtFirst
  <2>5. pass = 1 => AtSecond(W, L, t, c + 1, revoked, pend[jid], disk)
    BY <1>3, <1>4, <2>2, PlacedOn DEF AtSecond
  <2>6. QED
    BY <1>1, <1>7, <1>9, <1>10, <1>19, <2>4, <2>5
<1>11. CASE Cur.kind = "RV" /\ pass = 1 /\ start' = NextDescriptor(start, 0) /\ UNCHANGED <<pc, jid, pass, elem, revoked, nclean>>
  <2>1. W[c].kind # "DATA" /\ pass # 0
    BY <1>5, <1>11
  <2>2. AtSecond(W, L, t, c + 1, revoked, pend[jid], disk)
    BY <1>3, <1>4, <1>11, <2>1, PlacedOn DEF AtSecond
  <2>3. QED
    BY <1>1, <1>7, <1>9, <1>11, <1>19, <2>1, <2>2
<1>12. CASE /\ Cur.kind = "RV" /\ pass = 0 /\ RevokeAdd(Cur.blks) /\ start' = NextDescriptor(start, 0)
            /\ UNCHANGED <<pc, jid, pass, elem, nclean>>
  <2>1. revoked' = [b \in DOMAIN revoked \union W[c].blks |-> IF b \in W[c].blks THEN Ahead(t, c) ELSE revoked[b]]
    BY <1>3, <1>5, <1>12 DEF RevokeAdd
  <2>2. RevokedUpTo(W, L, t, c + 1, revoked')
    BY <1>3, <1>4, <1>5, <1>12, <2>1, RevokedMore DEF AtFirst
  <2>3. \A d \in 0 .. L - 1 : d < c + 1 => d < c \/ d = c
    BY <1>3
  <2>4. W[c].kind # "JUNK" /\ pass # 1
    BY <1>5, <1>12
  <2>5. AtFirst(W, L, t, c + 1, revoked')
    BY <1>4, <1>12, <2>2, <2>3, <2>4 DEF AtFirst
  <2>6. QED
    BY <1>1, <1>7, <1>9, <1>12, <1>19, <2>4, <2>5
<1>13. CASE /\ Cur.kind = "LD" /\ pass = 0 /\ start' = NextDescriptor(start, Len(Cur.elems))
            /\ UNCHANGED <<pc, jid, pass, elem, revoked, nclean>>
  <2>1. PICK m : m = Len(W[c].elems)
    OBVIOUS
  <2>2. m \in Nat /\ c + m < L /\ \A i \in 1 .. m : GoodElem(W[c].jdata, W[c].elems[i], W[c + i], bound.ver)
    BY <1>3, <1>5, <1>13, <2>1 DEF GoodRegion
  <2>3. \A i \in 1 .. m : W[c + i].kind = "DATA"
    BY <2>2 DEF GoodElem
  <2>4. ASSUME NEW d \in 0 .. L - 1, c <= d, d < c + (m + 1) PROVE W[d].kind \in {"LD", "DATA"}
    <3>1. CASE d = c
      BY <1>5, <1>13, <3>1
    <3>2. CASE d # c
      <4>1. d - c \in 1 .. m /\ c + (d - c) = d
        BY <1>3, <2>2, <2>4, <3>2
      <4>2. QED
        BY <2>3, <4>1
    <3>3. QED
      BY <3>1, <3>2
  <2>5. m + 1 \in Nat /\ m + 1 > 0 /\ c + (m + 1) <= L
    BY <1>3, <2>2
  <2>6. AtFirst(W, L, t, c + (m + 1), revoked)
    <3>1. PICK n \in Nat : n = m + 1
      BY <2>5
    <3>2. \A d \in 0 .. L - 1 : c <= d /\ d < c + n => W[d].kind # "RV" /\ W[d].kind # "JUNK"
      BY <2>4, <3>1
    <3>3. RevokedUpTo(W, L, t, c + n, revoked)
      BY <1>3, <1>4, <1>13, <3>2, RevokedOn DEF AtFirst
    <3>4. \A d \in 0 .. L - 1 : d < c + n => d < c \/ (c <= d /\ d < c + n)
      BY <1>3
    <3>5. \A d \in 0 .. L - 1 : d < c + n => W[d].kind # "JUNK"
      BY <1>4, <1>13, <3>2, <3>4 DEF AtFirst
    <3>6. QED
      BY <3>1, <3>3, <3>5 DEF AtFirst
  <2>7. start' = Ahead(start, m + 1) /\ pc' = "scan" /\ pass # 1
    BY <1>1, <1>5, <1>13, <2>1 DEF NextDescriptor
  <2>8. QED
    <3>1. PICK n \in Nat : n = m + 1
      BY <2>5
    <3>2. PICK k \in Nat : k = c + n
      BY <1>3
    <3>3. start' \in Blocks /\ Dist(t, start') = k /\ k <= L
      BY <1>6, <2>5, <2>7, <3>1, <3>2
    <3>4. AtFirst(W, L, t, k, revoked')
      BY <1>13, <2>6, <3>1, <3>2
    <3>5. QED
      BY <1>9, <1>13, <2>7, <3>3, <3>4
<1>14. CASE Cur.kind = "LD" /\ pass = 1 /\ pc' = "elems" /\ elem' = 1 /\ UNCHANGED <<jid, pass, start, revoked, nclean>>
  <2>1. W[c].kind = "LD" /\ W[c].kind # "DATA"
    BY <1>5, <1>14
  <2>2. AtSecond(W, L, t, c + 1, revoked, pend[jid], disk)
    BY <1>3, <1>4, <1>14, <2>1, PlacedOn DEF AtSecond
  <2>3. Len(W[c].elems) \in Nat
    BY <1>3, <1>5, <2>1 DEF GoodRegion
  <2>4. 1 \in 1 .. Len(W[c].elems) + 1
    BY <2>3
  <2>5. PICK K : K = J
    OBVIOUS
  <2>6. PICK m : m = c
    OBVIOUS
  <2>7. /\ jlog' = jlog /\ jid' = jid /\ K = jlog[jid] /\ ~up' /\ pass' = 1 /\ Open(K) /\ m < Span(K) /\ m <= Span(K)
        /\ Dist(LogTail(K), start') = m /\ Region(K)[m].kind = "LD" /\ elem' \in 1 .. Len(Region(K)[m].elems) + 1
        /\ AtSecond(Region(K), Span(K), LogTail(K), m + elem', revoked', pend'[jid], disk')
    <3>1. start' = start /\ Dist(t, start) = c /\ c <= L
      BY <1>3, <1>14 DEF c
    <3>2. QED
      BY <1>2, <1>3, <1>14, <2>1, <2>2, <2>4, <2>5, <2>6, <3>1 DEF J, W, t, L
  <2>8. FsckInv'
    BY <1>14, <2>7, ElemsInv
  <2>9. QED
    <3>1. CleanInv'
      BY <1>8, <1>14
    <3>2. elem' \in Nat /\ pass' \in {0, 1} /\ start' \in Blocks /\ jid' \in Journals
      BY <1>4, <1>14
    <3>3. pc' \in {"off", "look", "scan", "elems", "clean", "clear", "done"}
      BY <1>14
    <3>4. QED
      BY <2>8, <3>1, <3>2, <3>3 DEF FsckGoal
<1>15. CASE AskClear(5)
  <2>1. pc \notin {"off", "done"} /\ jlog' = jlog /\ ~up'
    BY <1>1, <1>2, <1>3
  <2>2. QED
    BY <1>1, <1>15, <2>1, AskClearStep DEF FsckGoal
<1>16. FsckGoal
  <2>1. \/ Cur.kind = "LH" /\ start' = PastHeader(start) /\ UNCHANGED <<pc, jid, pass, elem, revoked, nclean>>
        \/ Cur.kind = "RV" /\ pass = 1 /\ start' = NextDescriptor(start, 0) /\ UNCHANGED <<pc, jid, pass, elem, revoked, nclean>>
        \/ /\ Cur.kind = "RV" /\ pass = 0 /\ RevokeAdd(Cur.blks) /\ start' = NextDescriptor(start, 0)
           /\ UNCHANGED <<pc, jid, pass, elem, nclean>>
        \/ /\ Cur.kind = "LD" /\ pass = 0 /\ start' = NextDescriptor(start, Len(Cur.elems))
           /\ UNCHANGED <<pc, jid, pass, elem, revoked, nclean>>
        \/ Cur.kind = "LD" /\ pass = 1 /\ pc' = "elems" /\ elem' = 1 /\ UNCHANGED <<jid, pass, start, revoked, nclean>>
        \/ AskClear(5)
    BY DEF ForeachDescriptor
  <2>2. QED
    BY <1>10, <1>11, <1>12, <1>13, <1>14, <1>15, <2>1
<1>18. QED
  BY <1>16

-----------------------------------------------------------------------------
(* The second pass.                                                        *)

(* buf_lo and databuf_lo: what is written is the block as it was logged.   *)
LEMMA RestoredIs ==
  ASSUME NEW jd, NEW e, NEW c, NEW top, GoodElem(jd, e, c, top), jd \/ c.magic
  PROVE  Unescape(c, e.esc) = Content(e.blk, c.ver) /\ c.ver \in 1 .. top /\ e.blk \in FsBlocks
<1>1. /\ e.blk \in FsBlocks /\ (jd <=> e.blk \in JData) /\ c.ver \in 1 .. top
      /\ (e.esc <=> (e.blk \in JData /\ (e.blk \notin JData \/ c.ver % 2 = 0)))
      /\ (c.magic => e.blk \notin JData)
  BY DEF GoodElem, Escaped, Content
<1>2. (e.esc \/ c.magic) = (e.blk \notin JData \/ c.ver % 2 = 0)
  <2>1. CASE e.blk \in JData
    BY <1>1, <2>1
  <2>2. CASE e.blk \notin JData
    BY <1>1, <2>2
  <2>3. QED
    BY <2>1, <2>2
<1>3. QED
  BY <1>1, <1>2 DEF Unescape, Content

(* The list of revokes tells a copy that is revoked later from one that is not. *)
LEMMA RevokedLater ==
  ASSUME NEW W, NEW L \in Nat, L < JdBlocks, NEW t \in Blocks, HeadOf(jid).tail = t,
         RevokedUpTo(W, L, t, L, revoked), NEW b \in FsBlocks, NEW x \in 1 .. L - 1
  PROVE  RevokeCheck(b, Ahead(t, x)) <=> \E r \in 0 .. L - 1 : x < r /\ Revokes(W, L, b, r)
<1>1. x \in 1 .. JdBlocks - 1
  BY SizeType
<1>2. \A r \in 0 .. L - 1 : r \in 0 .. JdBlocks - 1 /\ r < L
  BY SizeType
<1>3. ASSUME b \in DOMAIN revoked
      PROVE  \E r \in 0 .. L - 1 : /\ Revokes(W, L, b, r) /\ (RevokeCheck(b, Ahead(t, x)) <=> x < r)
                                   /\ \A d \in 0 .. L - 1 : Revokes(W, L, b, d) => d <= r
  <2>1. PICK r \in 0 .. L - 1 :
          /\ revoked[b] = Ahead(t, r) /\ Revokes(W, L, b, r)
          /\ \A d \in 0 .. L - 1 : d < L /\ Revokes(W, L, b, d) => d <= r
    BY <1>3 DEF RevokedUpTo
  <2>2. RevokeCheck(b, Ahead(t, x)) <=> x < r
    BY <1>1, <1>2, <1>3, <2>1, RevokeCheckIs
  <2>3. QED
    BY <1>2, <2>1, <2>2
<1>4. RevokeCheck(b, Ahead(t, x)) => b \in DOMAIN revoked
  BY DEF RevokeCheck
<1>5. \A r \in 0 .. L - 1 : Revokes(W, L, b, r) => b \in DOMAIN revoked
  BY <1>2 DEF RevokedUpTo
<1>6. ASSUME RevokeCheck(b, Ahead(t, x)) PROVE \E r \in 0 .. L - 1 : x < r /\ Revokes(W, L, b, r)
  BY <1>3, <1>4, <1>6
<1>7. ASSUME NEW r \in 0 .. L - 1, x < r, Revokes(W, L, b, r) PROVE RevokeCheck(b, Ahead(t, x))
  <2>1. PICK q \in 0 .. L - 1 : (RevokeCheck(b, Ahead(t, x)) <=> x < q) /\ r <= q
    BY <1>3, <1>5, <1>7
  <2>2. x < q
    BY <1>7, <2>1
  <2>3. QED
    BY <2>1, <2>2
<1>8. QED
  BY <1>6, <1>7

(* A place in the region holds the copy of one entry.                      *)
LEMMA OneEntry ==
  ASSUME NEW top, NEW W, NEW L \in Nat, GoodRegion(W, L, top), NEW b, NEW c, NEW n, Entry(W, L, b, c, n),
         NEW a, NEW d, NEW i, Entry(W, L, a, d, i), c + n = d + i
  PROVE  c = d /\ n = i /\ a = b
<1>1. c \in 0 .. L - 1 /\ n \in 1 .. L /\ W[c].kind # "DATA" /\ W[c].elems[n].blk = b
  BY EntryPlace
<1>2. d \in 0 .. L - 1 /\ i \in 1 .. L /\ W[d].kind # "DATA" /\ W[d].elems[i].blk = a
  BY EntryPlace
<1>3. (c <= d \/ d + i < c) /\ (d <= c \/ c + n < d)
  BY <1>1, <1>2, EntryOrder
<1>4. c = d /\ n = i
  BY <1>1, <1>2, <1>3
<1>5. QED
  BY <1>1, <1>2, <1>4

LEMMA PlacedSkip ==
  ASSUME NEW top, NEW W, NEW L \in Nat, GoodRegion(W, L, top), NEW b, NEW c, NEW n, Entry(W, L, b, c, n),
         NEW r \in 0 .. L - 1, c + n < r, Revokes(W, L, b, r), NEW p, NEW dk, PlacedUpTo(W, L, p, c + n, dk)
  PROVE  PlacedUpTo(W, L, p, c + n + 1, dk)
<1>1. c \in 0 .. L - 1 /\ n \in 1 .. L
  BY EntryPlace
<1>2. ASSUME NEW a \in FsBlocks, NEW d \in 0 .. L - 1, NEW i \in 1 .. L,
             p[a] # 0, LastEntry(W, L, a, d, i), d + i < c + n + 1
      PROVE  dk[a].ver = p[a]
  <2>1. CASE d + i < c + n
    BY <1>2, <2>1 DEF PlacedUpTo
  <2>2. CASE d + i >= c + n
    <3>1. c + n = d + i /\ Entry(W, L, a, d, i)
      BY <1>1, <1>2, <2>2 DEF LastEntry
    <3>2. c = d /\ a = b
      BY <3>1, OneEntry
    <3>3. r < c
      BY <1>2, <3>2 DEF LastEntry
    <3>4. QED
      BY <1>1, <3>3
  <2>3. QED
    BY <1>1, <2>1, <2>2
<1>3. QED
  BY <1>2 DEF PlacedUpTo

LEMMA PlacedWrite ==
  ASSUME NEW top, NEW W, NEW L \in Nat, GoodRegion(W, L, top), NEW b, NEW c, NEW n, Entry(W, L, b, c, n),
         NEW p, NEW dk, PlacedUpTo(W, L, p, c + n, dk), Replays(W, L, b, p[b]),
         NEW dq, dq[b].ver = W[c + n].ver, \A a \in FsBlocks : a # b => dq[a] = dk[a]
  PROVE  PlacedUpTo(W, L, p, c + n + 1, dq)
<1>1. c \in 0 .. L - 1 /\ n \in 1 .. L
  BY EntryPlace
<1>2. ASSUME NEW a \in FsBlocks, NEW d \in 0 .. L - 1, NEW i \in 1 .. L,
             p[a] # 0, LastEntry(W, L, a, d, i), d + i < c + n + 1
      PROVE  dq[a].ver = p[a]
  <2>1. Entry(W, L, a, d, i)
    BY <1>2 DEF LastEntry
  <2>2. CASE a # b
    <3>1. d + i # c + n
      BY <2>1, <2>2, OneEntry
    <3>2. d + i < c + n
      BY <1>1, <1>2, <3>1
    <3>3. QED
      BY <1>2, <2>2, <3>2 DEF PlacedUpTo
  <2>3. CASE a = b
    <3>1. c + n <= d + i
      BY <1>1, <1>2, <2>3 DEF LastEntry
    <3>2. c + n = d + i
      BY <1>1, <1>2, <3>1
    <3>3. PICK e \in 0 .. L - 1, k \in 1 .. L : LastEntry(W, L, b, e, k) /\ W[e + k].ver = p[b]
      BY <1>2, <2>3 DEF Replays
    <3>4. Entry(W, L, b, e, k)
      BY <3>3 DEF LastEntry
    <3>5. e + k <= d + i
      BY <1>2, <2>3, <3>4 DEF LastEntry
    <3>6. d + i <= e + k
      BY <2>1, <2>3, <3>3 DEF LastEntry
    <3>7. e + k = c + n
      BY <1>1, <3>2, <3>5, <3>6
    <3>8. QED
      BY <2>3, <3>3, <3>7
  <2>4. QED
    BY <2>2, <2>3
<1>3. QED
  BY <1>2 DEF PlacedUpTo

(* A block that is written has something to be replayed.                   *)
LEMMA PendingThere ==
  ASSUME NEW top, NEW W, NEW L \in Nat, GoodRegion(W, L, top), NEW b, NEW c, NEW n, Entry(W, L, b, c, n),
         NEW v, Replays(W, L, b, v), ~ \E r \in 0 .. L - 1 : c + n < r /\ Revokes(W, L, b, r)
  PROVE  v # 0
<1>1. c \in 0 .. L - 1 /\ n \in 1 .. L
  BY EntryPlace
<1>2. SUFFICES ASSUME v = 0 PROVE FALSE
  OBVIOUS
<1>3. PICK e \in 0 .. L - 1 : c < e /\ Revokes(W, L, b, e)
  BY <1>1, <1>2 DEF Replays
<1>4. W[e].kind # "DATA"
  BY <1>3 DEF Revokes
<1>5. c + n < e
  BY <1>1, <1>3, <1>4, EntryOrder
<1>6. QED
  BY <1>3, <1>5

(* Where fsck is in a descriptor.                                          *)
LEMMA ElemFacts ==
  ASSUME IInv, pc = "elems", NEW J, J = jlog[jid], NEW W, W = Region(J), NEW L, L = Span(J),
         NEW t, t = LogTail(J), NEW c, c = Dist(t, start)
  PROVE  /\ Cur = W[c] /\ W[c].kind = "LD" /\ Len(W[c].elems) \in Nat /\ c + Len(W[c].elems) < L
         /\ c \in Nat /\ c < L /\ L \in Nat /\ L < JdBlocks /\ t \in Blocks /\ HeadOf(jid).tail = t
         /\ start = Ahead(t, c) /\ GoodRegion(W, L, bound.ver) /\ Open(J) /\ ~up /\ pass = 1 /\ jid \in Journals
         /\ elem \in 1 .. Len(W[c].elems) + 1
         /\ AtSecond(W, L, t, c + elem, revoked, pend[jid], disk)
         /\ \A b \in FsBlocks : Replays(W, L, b, pend[jid][b])
         /\ \A x \in 0 .. L - 1 : jlog[jid][Ahead(t, x)] = W[x]
<1>1. pc \in {"scan", "elems", "clean"}
  OBVIOUS
<1>2. /\ ~up /\ Open(J) /\ HeadOf(jid).tail = t /\ t \in Blocks /\ L \in Nat /\ L < JdBlocks
      /\ c \in Nat /\ c <= L /\ start = Ahead(t, c)
      /\ (\A x \in 0 .. L - 1 : W[x] = J[Ahead(t, x)])
      /\ GoodRegion(W, L, bound.ver)
      /\ Sound(W, L) => \A b \in FsBlocks : Replays(W, L, b, pend[jid][b])
  BY <1>1, ScanFacts
<1>3. /\ AtSecond(W, L, t, c + elem, revoked, pend[jid], disk) /\ Sound(W, L)
      /\ pass = 1 /\ c < L /\ W[c].kind = "LD" /\ elem \in 1 .. Len(W[c].elems) + 1
  BY DEF IInv, FsckInv, AtSecond
<1>4. c \in 0 .. L - 1
  BY <1>2, <1>3
<1>5. Len(W[c].elems) \in Nat /\ c + Len(W[c].elems) < L
  BY <1>2, <1>3, <1>4 DEF GoodRegion
<1>6. Cur = W[c] /\ jid \in Journals
  BY <1>2, <1>4 DEF Cur, IInv, TypesInv
<1>7. QED
  BY <1>2, <1>3, <1>5, <1>6

LEMMA ReplayElementStep ==
  ASSUME IInv, ReplayElement
  PROVE  IInv' /\ Simulates
<1>1. TypesInv /\ LogsInv /\ DiskInv /\ RegionsInv /\ LocksInv /\ FsckInv /\ CleanInv /\ pc = "elems"
  BY DEF IInv, ReplayElement
<1>2. PICK J : J = jlog[jid]
  OBVIOUS
<1>3. PICK W : W = Region(J)
  OBVIOUS
<1>4. PICK L : L = Span(J)
  OBVIOUS
<1>5. PICK t : t = LogTail(J)
  OBVIOUS
<1>6. PICK c : c = Dist(t, start)
  OBVIOUS
<1>7. PICK top : top = bound.ver
  OBVIOUS
<1>8. /\ Cur = W[c] /\ W[c].kind = "LD" /\ Len(W[c].elems) \in Nat /\ c + Len(W[c].elems) < L
      /\ c \in Nat /\ c < L /\ L \in Nat /\ L < JdBlocks /\ t \in Blocks /\ HeadOf(jid).tail = t
      /\ start = Ahead(t, c) /\ GoodRegion(W, L, top) /\ Open(J) /\ ~up /\ pass = 1 /\ jid \in Journals
      /\ elem \in 1 .. Len(W[c].elems) + 1
      /\ AtSecond(W, L, t, c + elem, revoked, pend[jid], disk)
      /\ \A b \in FsBlocks : Replays(W, L, b, pend[jid][b])
      /\ \A x \in 0 .. L - 1 : jlog[jid][Ahead(t, x)] = W[x]
  BY <1>1, <1>2, <1>3, <1>4, <1>5, <1>6, <1>7, ElemFacts
<1>9. elem <= Len(W[c].elems) /\ UNCHANGED <<jlog, up, ver, owner, txns, pend, lost, bound>>
  BY <1>8 DEF ReplayElement, nodeVars, boundVars
<1>10. PICK x : x = c + elem
  OBVIOUS
<1>11. elem \in 1 .. Len(W[c].elems) /\ elem \in Nat /\ x \in 1 .. L - 1 /\ x \in Nat /\ c + elem <= L /\ c \in 0 .. L - 1
  BY <1>8, <1>9, <1>10
<1>12. Ahead(start, elem) = Ahead(t, x)
  BY <1>8, <1>10, <1>11, MoveOn
<1>13. PICK e : e = W[c].elems[elem]
  OBVIOUS
<1>14. PICK copy : copy = W[x]
  OBVIOUS
<1>15. GoodElem(W[c].jdata, e, copy, top) /\ e.blk \in FsBlocks
  BY <1>8, <1>10, <1>11, <1>13, <1>14 DEF GoodRegion, GoodElem
<1>16. PICK b \in FsBlocks : b = e.blk
  BY <1>15
<1>17. Entry(W, L, b, c, elem)
  BY <1>8, <1>11, <1>13, <1>16 DEF Entry
<1>18. RevokeCheck(b, Ahead(t, x)) <=> \E r \in 0 .. L - 1 : x < r /\ Revokes(W, L, b, r)
  BY <1>8, <1>11, RevokedLater DEF AtSecond
<1>19. jlog[jid][Ahead(t, x)] = copy
  BY <1>8, <1>11, <1>14
<1>20. ASSUME PlacedUpTo(W, L, pend[jid], x + 1, disk'), elem' = elem + 1,
              UNCHANGED <<pc, jid, pass, start, revoked, nclean>>
       PROVE  FsckGoal
  <2>1. /\ jlog' = jlog /\ jid' = jid /\ J = jlog[jid] /\ ~up' /\ pc' = "elems" /\ pass' = 1 /\ Open(J)
        /\ c < Span(J) /\ c <= Span(J) /\ Dist(LogTail(J), start') = c /\ Region(J)[c].kind = "LD"
    BY <1>1, <1>2, <1>3, <1>4, <1>5, <1>6, <1>8, <1>9, <1>20
  <2>2. elem' \in 1 .. Len(Region(J)[c].elems) + 1
    BY <1>3, <1>8, <1>11, <1>20
  <2>3. x + 1 = c + elem'
    BY <1>8, <1>10, <1>11, <1>20
  <2>4. AtSecond(Region(J), Span(J), LogTail(J), c + elem', revoked', pend'[jid], disk')
    BY <1>3, <1>4, <1>5, <1>8, <1>9, <1>20, <2>3 DEF AtSecond
  <2>5. FsckInv'
    BY <2>1, <2>2, <2>4, ElemsInv
  <2>6. CleanInv'
    BY <1>1, <1>9, <1>20 DEF CleanInv
  <2>7. pass' \in {0, 1} /\ start' \in Blocks /\ elem' \in Nat /\ jid' \in Journals
        /\ pc' \in {"off", "look", "scan", "elems", "clean", "clear", "done"}
    BY <1>1, <1>11, <1>20 DEF TypesInv
  <2>8. QED
    BY <2>5, <2>6, <2>7 DEF FsckGoal
<1>21. ASSUME FsckGoal, disk' = disk PROVE IInv' /\ Simulates
  <2>1. TypesInv' /\ LogsInv' /\ DiskInv' /\ RegionsInv' /\ LocksInv'
    BY <1>9, <1>21, SameNodes DEF FsckGoal
  <2>2. Simulates
    BY <1>9, <1>21, SameRecovery
  <2>3. QED
    BY <1>21, <2>1, <2>2 DEF IInv, FsckGoal
<1>22. CASE /\ RevokeCheck(b, Ahead(t, x)) /\ elem' = elem + 1
            /\ UNCHANGED <<disk, pc, jid, pass, start, revoked, nclean>>
  <2>1. PICK r \in 0 .. L - 1 : x < r /\ Revokes(W, L, b, r)
    BY <1>18, <1>22
  <2>2. PlacedUpTo(W, L, pend[jid], c + elem + 1, disk)
    <3>1. c + elem < r /\ PlacedUpTo(W, L, pend[jid], c + elem, disk)
      BY <1>8, <1>10, <2>1 DEF AtSecond
    <3>2. QED
      BY <1>8, <1>17, <2>1, <3>1, PlacedSkip
  <2>3. PlacedUpTo(W, L, pend[jid], x + 1, disk')
    BY <1>10, <1>22, <2>2
  <2>4. QED
    BY <1>20, <1>21, <1>22, <2>3
<1>23. CASE AskClear(5) /\ disk' = disk
  <2>1. pc \notin {"off", "done"} /\ jlog' = jlog /\ ~up'
    BY <1>1, <1>8, <1>9
  <2>2. FsckGoal
    BY <1>1, <1>23, <2>1, AskClearStep DEF FsckGoal
  <2>3. QED
    BY <1>21, <1>23, <2>2
<1>24. CASE /\ ~RevokeCheck(b, Ahead(t, x)) /\ (W[c].jdata \/ copy.magic)
            /\ disk' = [disk EXCEPT ![b] = Unescape(copy, e.esc)] /\ elem' = elem + 1
            /\ UNCHANGED <<pc, jid, pass, start, revoked, nclean>>
  <2>1. Unescape(copy, e.esc) = Content(b, copy.ver) /\ copy.ver \in 1 .. top
    BY <1>15, <1>16, <1>24, RestoredIs
  <2>2. /\ disk = [a \in FsBlocks |-> disk[a]]
        /\ \A a \in FsBlocks : disk[a].ver \in 1 .. top /\ disk[a] = Content(a, disk[a].ver)
    BY <1>1, <1>7 DEF DiskInv
  <2>3. /\ disk' = [a \in FsBlocks |-> disk'[a]] /\ disk'[b] = Content(b, copy.ver)
        /\ \A a \in FsBlocks : a # b => disk'[a] = disk[a]
    BY <1>24, <2>1, <2>2
  <2>4. disk'[b].ver = copy.ver
    BY <2>3, ContentVer
  <2>5. DiskInv'
    <3>1. bound' = bound
      BY <1>9
    <3>2. \A a \in FsBlocks : disk'[a].ver \in 1 .. bound'.ver /\ disk'[a] = Content(a, disk'[a].ver)
      BY <1>7, <2>1, <2>2, <2>3, <2>4, <3>1
    <3>3. QED
      BY <2>3, <3>2 DEF DiskInv
  <2>6. PlacedUpTo(W, L, pend[jid], x + 1, disk')
    <3>1. PICK p : p = pend[jid]
      OBVIOUS
    <3>2. PlacedUpTo(W, L, p, c + elem, disk) /\ Replays(W, L, b, p[b]) /\ disk'[b].ver = W[c + elem].ver
      BY <1>8, <1>10, <1>14, <2>4, <3>1 DEF AtSecond
    <3>3. PICK dq : dq = disk'
      OBVIOUS
    <3>4. dq[b].ver = W[c + elem].ver /\ \A a \in FsBlocks : a # b => dq[a] = disk[a]
      BY <2>3, <3>2, <3>3
    <3>5. PlacedUpTo(W, L, p, c + elem + 1, dq)
      BY <1>8, <1>17, <3>2, <3>4, PlacedWrite
    <3>6. QED
      BY <1>10, <3>1, <3>3, <3>5
  <2>7. FsckGoal
    BY <1>20, <1>24, <2>6
  <2>8. LogsInv' /\ RegionsInv'
    BY <1>1, <1>9 DEF LogsInv, RegionsInv
  <2>9. LocksInv' /\ TypesInv'
    <3>1. LocksInv'
      BY <1>1, <1>8, <1>9 DEF LocksInv
    <3>2. TypesInv'
      BY <1>1, <1>9, <2>7 DEF TypesInv, FsckGoal
    <3>3. QED
      BY <3>1, <3>2
  <2>10. Simulates
    <3>1. /\ DiskVersion = [a \in FsBlocks |-> disk[a].ver] /\ DiskVersion' = [a \in FsBlocks |-> disk'[a].ver]
      BY <1>1, <2>5, DiskVersionIs, DiskVersionNext
    <3>2. DiskVersion' = [DiskVersion EXCEPT ![b] = copy.ver]
      BY <2>3, <2>4, <3>1
    <3>3. copy.ver \in 0 .. Max({s.ver : s \in Situations})
      <4>1. PICK M \in Nat : M = Max({s.ver : s \in Situations}) /\ bound.ver <= M
        BY <1>1, MaxVerIs DEF TypesInv
      <4>2. bound.ver \in Nat
        BY <1>1, BoundFacts DEF TypesInv
      <4>3. copy.ver \in 0 .. M
        BY <1>7, <2>1, <4>1, <4>2
      <4>4. QED
        BY <4>1, <4>3
    <3>4. pend[jid][b] # 0
      <4>1. ~ \E r \in 0 .. L - 1 : c + elem < r /\ Revokes(W, L, b, r)
        <5>1. ~ \E r \in 0 .. L - 1 : x < r /\ Revokes(W, L, b, r)
          BY <1>18, <1>24
        <5>2. QED
          BY <1>10, <5>1
      <4>2. Replays(W, L, b, pend[jid][b])
        BY <1>8
      <4>3. PICK v : v = pend[jid][b]
        OBVIOUS
      <4>4. v # 0
        BY <1>8, <1>17, <4>1, <4>2, <4>3, PendingThere
      <4>5. QED
        BY <4>3, <4>4
    <3>5. LR!ReplayWrite(jid, b)
      BY <1>8, <1>9, <3>2, <3>3, <3>4 DEF LR!ReplayWrite, LR!HasEntry, LR!Nothing
    <3>6. QED
      BY <1>8, <3>5 DEF Simulates, LR!Next
  <2>11. QED
    BY <2>5, <2>7, <2>8, <2>9, <2>10 DEF IInv, FsckGoal
<1>25. QED
  <2>1. \/ /\ RevokeCheck(b, Ahead(t, x)) /\ elem' = elem + 1
           /\ UNCHANGED <<disk, pc, jid, pass, start, revoked, nclean>>
        \/ AskClear(5) /\ disk' = disk
        \/ /\ ~RevokeCheck(b, Ahead(t, x)) /\ (W[c].jdata \/ copy.magic)
           /\ disk' = [disk EXCEPT ![b] = Unescape(copy, e.esc)] /\ elem' = elem + 1
           /\ UNCHANGED <<pc, jid, pass, start, revoked, nclean>>
    BY <1>8, <1>12, <1>13, <1>16, <1>19 DEF ReplayElement
  <2>2. QED
    BY <1>22, <1>23, <1>24, <2>1

LEMMA EndOfElementsStep ==
  ASSUME IInv, EndOfElements
  PROVE  IInv' /\ Simulates
<1>1. TypesInv /\ CleanInv /\ pc = "elems"
  BY DEF IInv, EndOfElements
<1>2. PICK J : J = jlog[jid]
  OBVIOUS
<1>3. PICK W : W = Region(J)
  OBVIOUS
<1>4. PICK L : L = Span(J)
  OBVIOUS
<1>5. PICK t : t = LogTail(J)
  OBVIOUS
<1>6. PICK c : c = Dist(t, start)
  OBVIOUS
<1>7. /\ Cur = W[c] /\ Len(W[c].elems) \in Nat /\ c + Len(W[c].elems) < L
      /\ c \in Nat /\ c < L /\ L \in Nat /\ L < JdBlocks /\ t \in Blocks
      /\ start = Ahead(t, c) /\ Open(J) /\ ~up /\ pass = 1 /\ jid \in Journals
      /\ elem \in 1 .. Len(W[c].elems) + 1
      /\ AtSecond(W, L, t, c + elem, revoked, pend[jid], disk)
  BY <1>1, <1>2, <1>3, <1>4, <1>5, <1>6, ElemFacts
<1>8. /\ elem > Len(W[c].elems) /\ pc' = "scan" /\ elem' = 1 /\ start' = Ahead(start, Len(W[c].elems) + 1)
      /\ UNCHANGED <<jlog, disk, up, ver, owner, txns, pend, lost, bound, jid, pass, revoked, nclean>>
  BY <1>7 DEF EndOfElements, nodeVars, boundVars, NextDescriptor
<1>9. elem = Len(W[c].elems) + 1 /\ elem \in Nat /\ c + elem <= L
  BY <1>7, <1>8
<1>10. start' \in Blocks /\ Dist(t, start') = c + elem
  BY <1>7, <1>8, <1>9, MoveOn
<1>11. FsckInv'
  <2>1. PICK x : x = c + elem
    OBVIOUS
  <2>2. /\ jlog' = jlog /\ jid' = jid /\ J = jlog[jid] /\ ~up' /\ pc' = "scan" /\ pass' \in {0, 1} /\ Open(J)
        /\ x <= Span(J) /\ Dist(LogTail(J), start') = x
        /\ pass' = 0 => AtFirst(Region(J), Span(J), LogTail(J), x, revoked')
        /\ pass' = 1 => AtSecond(Region(J), Span(J), LogTail(J), x, revoked', pend'[jid], disk')
    BY <1>2, <1>3, <1>4, <1>5, <1>7, <1>8, <1>9, <1>10, <2>1
  <2>3. QED
    BY <2>2, ScanInv
<1>12. CleanInv'
  BY <1>1, <1>8 DEF CleanInv
<1>13. TypesInv' /\ LogsInv' /\ DiskInv' /\ RegionsInv' /\ LocksInv'
  <2>1. pass' \in {0, 1} /\ start' \in Blocks /\ elem' \in Nat /\ jid' \in Journals
        /\ pc' \in {"off", "look", "scan", "elems", "clean", "clear", "done"}
    BY <1>7, <1>8, <1>10
  <2>2. QED
    BY <1>8, <2>1, SameNodes
<1>14. Simulates
  BY <1>8, SameRecovery
<1>15. QED
  BY <1>11, <1>12, <1>13, <1>14 DEF IInv

-----------------------------------------------------------------------------
(* A journal is closed: replayed and marked clean, or cleared.             *)
Closes(j) ==
    /\ LogsInv' /\ ~Open(jlog'[j]) /\ \A i \in Journals : i # j => jlog'[i] = jlog[i]
    /\ pend' = [pend EXCEPT ![j] = [b \in FsBlocks |-> 0]]
    /\ UNCHANGED <<disk, up, ver, owner, txns, bound>>

LEMMA CloseStep ==
  ASSUME IInv, pc \notin {"off", "done"}, ~up, Closes(jid), Recovered(0, 0)
  PROVE  IInv'
<1>1. TypesInv /\ LogsInv /\ DiskInv /\ RegionsInv /\ LocksInv /\ FsckInv /\ CleanInv /\ jid \in Journals
  BY DEF IInv, TypesInv
<1>2. /\ LogsInv' /\ ~Open(jlog'[jid]) /\ \A i \in Journals : i # jid => jlog'[i] = jlog[i]
      /\ pend' = [pend EXCEPT ![jid] = [b \in FsBlocks |-> 0]]
      /\ UNCHANGED <<disk, up, ver, owner, txns, bound>>
  BY DEF Closes
<1>3. pend \in [Journals -> [FsBlocks -> 0 .. bound.ver]] /\ bound.ver \in Nat \ {0}
  BY <1>1, BoundFacts DEF TypesInv
<1>4. /\ \A i \in Journals : i # jid => pend'[i] = pend[i] /\ txns'[i] = txns[i]
      /\ \A b \in FsBlocks : pend'[jid][b] = 0
      /\ \A i \in Journals, b \in FsBlocks : pend'[i][b] = 0 \/ pend'[i][b] = pend[i][b]
      /\ pend' \in [Journals -> [FsBlocks -> 0 .. bound.ver]]
  <2>1. 0 \in 0 .. bound.ver
    BY <1>3
  <2>2. [b \in FsBlocks |-> 0] \in [FsBlocks -> 0 .. bound.ver]
    BY <2>1
  <2>3. QED
    BY <1>1, <1>2, <1>3, <2>2
<1>5. /\ CleanInv' /\ FsckInv' /\ jid' \in Journals /\ pass' \in {0, 1} /\ start' \in Blocks /\ elem' \in Nat
      /\ pc' \in {"off", "look", "scan", "elems", "clean", "clear", "done"}
  BY <1>1, <1>2, RecoveredStep
<1>6. TypesInv'
  BY <1>1, <1>2, <1>4, <1>5 DEF TypesInv
<1>7. DiskInv'
  BY <1>1, <1>2 DEF DiskInv
<1>8. RegionsInv'
  <2>1. txns'[jid] = << >>
    BY <1>1, <1>2 DEF LocksInv
  <2>2. GoodJournal(jlog'[jid], pend'[jid], txns'[jid], up', bound'.ver)
    BY <1>2, <1>4, <2>1 DEF GoodJournal
  <2>3. QED
    BY <1>1, <1>2, <1>4, <2>2, OtherJournals
<1>9. LocksInv'
  BY <1>1, <1>2, <1>4 DEF LocksInv
<1>10. QED
  BY <1>2, <1>5, <1>6, <1>7, <1>8, <1>9 DEF IInv

LEMMA CleanJournalStep ==
  ASSUME IInv, CleanJournal
  PROVE  IInv' /\ Simulates
<1>1. pc = "clean" /\ pc \in {"scan", "elems", "clean"} /\ pc \notin {"off", "done"} /\ jid \in Journals /\ LogsInv
  BY DEF IInv, TypesInv, CleanJournal
<1>2. /\ WriteLog(jid, Ahead(HeadPos(jid), 1), << LH(HeadOf(jid).seq + 1, 0, TRUE) >>)
      /\ Recovered(0, 0)
      /\ pend' = [pend EXCEPT ![jid] = [b \in FsBlocks |-> 0]]
      /\ UNCHANGED <<disk, up, ver, owner, txns, lost, bound>>
  BY DEF CleanJournal, CleanHeader, WasDirty, nodeVars, boundVars
<1>3. PICK W : W = Region(jlog[jid])
  OBVIOUS
<1>4. PICK L : L = Span(jlog[jid])
  OBVIOUS
<1>5. /\ ~up /\ L \in Nat /\ GoodRegion(W, L, bound.ver)
      /\ Sound(W, L) => \A b \in FsBlocks : Replays(W, L, b, pend[jid][b])
  BY <1>1, <1>3, <1>4, ScanFacts
<1>6. Sound(W, L) /\ PlacedUpTo(W, L, pend[jid], L, disk)
  BY <1>1, <1>3, <1>4 DEF IInv, FsckInv
<1>7. Closes(jid)
  <2>1. 0 \in Blocks
    BY SizeType
  <2>2. PICK z \in Blocks : z = 0
    BY <2>1
  <2>3. WriteLog(jid, Ahead(HeadPos(jid), 1), << LH(HeadOf(jid).seq + 1, z, TRUE) >>)
    BY <1>2, <2>2
  <2>4. LogsInv' /\ ~Open(jlog'[jid]) /\ \A i \in Journals : i # jid => jlog'[i] = jlog[i]
    BY <1>1, <2>3, UnmountHeader
  <2>5. QED
    BY <1>2, <2>4 DEF Closes
<1>8. IInv'
  BY <1>1, <1>2, <1>5, <1>7, CloseStep
<1>9. ASSUME NEW b \in FsBlocks, pend[jid][b] # 0 PROVE disk[b].ver = pend[jid][b]
  <2>1. PICK d \in 0 .. L - 1, i \in 1 .. L : LastEntry(W, L, b, d, i)
    BY <1>5, <1>6, <1>9 DEF Replays
  <2>2. Entry(W, L, b, d, i)
    BY <2>1 DEF LastEntry
  <2>3. PICK top : top = bound.ver
    OBVIOUS
  <2>4. d + i < L
    BY <1>5, <2>2, <2>3, EntryPlace
  <2>5. QED
    BY <1>6, <1>9, <2>1, <2>4 DEF PlacedUpTo
<1>10. Simulates
  <2>1. DiskVersion' = DiskVersion /\ DiskVersion = [b \in FsBlocks |-> disk[b].ver]
    BY <1>2, DiskVersionIs DEF IInv, DiskVersion
  <2>2. LR!Replayed(jid)
    BY <1>9, <2>1 DEF LR!Replayed, LR!Nothing
  <2>3. LR!MarkClean(jid)
    BY <1>2, <1>5, <2>1, <2>2 DEF LR!MarkClean, LR!Nothing
  <2>4. QED
    BY <1>1, <2>3 DEF Simulates, LR!Next
<1>11. QED
  BY <1>8, <1>10

LEMMA ClearJournalStep ==
  ASSUME IInv, ClearJournal
  PROVE  IInv' /\ Simulates
<1>1. pc = "clear" /\ pc \notin {"off", "done"} /\ jid \in Journals /\ LogsInv /\ ~up /\ bound \in Situations
  BY DEF IInv, TypesInv, ClearJournal, FsckInv
<1>2. PICK s \in bound.start : jlog' = [jlog EXCEPT ![jid] = FreshJournal(s)]
  BY DEF ClearJournal
<1>3. /\ Recovered(0, 0)
      /\ lost' = lost \union {b \in FsBlocks : pend[jid][b] # 0}
      /\ pend' = [pend EXCEPT ![jid] = [b \in FsBlocks |-> 0]]
      /\ UNCHANGED <<disk, up, ver, owner, txns, bound>>
  BY DEF ClearJournal, WasDirty, nodeVars, boundVars
<1>4. PICK K : K = FreshJournal(s)
  OBVIOUS
<1>5. s \in Blocks
  BY <1>1, <1>2, BoundFacts
<1>6. GoodLog(K) /\ (\E h \in Blocks : Ring(K, h)) /\ \A p \in Blocks : K[p].unmount
  BY <1>4, <1>5, FreshIsRing
<1>7. PICK h \in Blocks : Ring(K, h)
  BY <1>6
<1>8. ~Open(K)
  <2>1. Open(K) = ~K[h].unmount
    BY <1>6, <1>7, LogFacts
  <2>2. QED
    BY <1>6, <2>1
<1>9. /\ jlog = [i \in Journals |-> jlog[i]] /\ jlog'[jid] = K /\ jlog' = [i \in Journals |-> jlog'[i]]
      /\ \A i \in Journals : i # jid => jlog'[i] = jlog[i]
  <2>1. jlog = [i \in Journals |-> jlog[i]]
    BY <1>1 DEF LogsInv
  <2>2. QED
    BY <1>1, <1>2, <1>4, <2>1
<1>10. Closes(jid)
  <2>1. LogsInv'
    BY <1>1, <1>6, <1>7, <1>9, OtherLogs
  <2>2. QED
    BY <1>3, <1>8, <1>9, <2>1 DEF Closes
<1>11. IInv'
  BY <1>1, <1>3, <1>10, CloseStep
<1>12. Simulates
  <2>1. DiskVersion' = DiskVersion
    BY <1>3 DEF DiskVersion
  <2>2. LR!Clear(jid)
    BY <1>1, <1>3, <2>1 DEF LR!Clear, LR!Nothing
  <2>3. QED
    BY <1>1, <2>2 DEF Simulates, LR!Next
<1>13. QED
  BY <1>11, <1>12

-----------------------------------------------------------------------------
(* The start: every journal is freshly written, every block in place.      *)
LEMMA InitStep ==
  ASSUME Init
  PROVE  IInv /\ LR!Init
<1>1. bound \in Situations
  BY DEF Init
<1>2. /\ bound.ver \in Nat \ {0} /\ bound.start \subseteq Blocks
      /\ NJournals \in Nat \ {0} /\ Journals = 1 .. NJournals
  BY <1>1, BoundFacts
<1>3. 1 \in Journals /\ 0 \in Blocks /\ 1 \in 1 .. bound.ver /\ 0 \in 0 .. bound.ver
  BY <1>2, SizeType
<1>4. /\ ver = [b \in FsBlocks |-> 1] /\ disk = [b \in FsBlocks |-> Content(b, 1)] /\ up = TRUE
      /\ owner = [b \in FsBlocks |-> 1] /\ txns = [j \in Journals |-> <<>>]
      /\ pend = [j \in Journals |-> [b \in FsBlocks |-> 0]]
      /\ lost = {} /\ pc = "off" /\ jid = 1 /\ pass = 0 /\ start = 0 /\ elem = 1
  BY DEF Init
<1>5. PICK s \in bound.start : jlog = [j \in Journals |-> FreshJournal(s)]
  BY DEF Init
<1>6. PICK K : K = FreshJournal(s)
  OBVIOUS
<1>7. GoodLog(K) /\ (\E h \in Blocks : Ring(K, h)) /\ \A p \in Blocks : K[p].unmount
  <2>1. s \in Blocks
    BY <1>2, <1>5
  <2>2. QED
    BY <1>6, <2>1, FreshIsRing
<1>8. PICK h \in Blocks : Ring(K, h)
  BY <1>7
<1>9. HeadIn(K) = h /\ ~Open(K)
  <2>1. HeadIn(K) = h /\ Open(K) = ~K[h].unmount
    BY <1>7, <1>8, LogFacts
  <2>2. QED
    BY <1>7, <2>1
<1>10. TypesInv
  <2>1. << >> \in Seq([first : Blocks, logged : SUBSET FsBlocks, need : SUBSET FsBlocks])
    OBVIOUS
  <2>2. /\ txns \in [Journals -> Seq([first : Blocks, logged : SUBSET FsBlocks, need : SUBSET FsBlocks])]
    BY <1>4, <2>1
  <2>3. [b \in FsBlocks |-> 0] \in [FsBlocks -> 0 .. bound.ver]
    BY <1>3
  <2>4. /\ ver \in [FsBlocks -> 1 .. bound.ver] /\ owner \in [FsBlocks -> Journals]
        /\ pend \in [Journals -> [FsBlocks -> 0 .. bound.ver]]
    BY <1>3, <1>4, <2>3
  <2>5. QED
    BY <1>1, <1>3, <1>4, <2>2, <2>4 DEF TypesInv
<1>11. LogsInv
  <2>1. jlog = [j \in Journals |-> jlog[j]] /\ \A j \in Journals : jlog[j] = K
    BY <1>5, <1>6
  <2>2. QED
    BY <1>7, <1>8, <1>9, <2>1 DEF LogsInv
<1>12. DiskInv
  <2>1. disk = [b \in FsBlocks |-> disk[b]] /\ \A b \in FsBlocks : disk[b] = Content(b, 1)
    BY <1>4
  <2>2. QED
    BY <1>3, <2>1, ContentVer DEF DiskInv
<1>13. RegionsInv
  <2>1. \A j \in Journals : jlog[j] = K /\ txns[j] = << >> /\ \A b \in FsBlocks : pend[j][b] = 0
    BY <1>4, <1>5, <1>6
  <2>2. QED
    BY <1>9, <2>1 DEF RegionsInv, GoodJournal
<1>14. LocksInv
  <2>1. \A j \in Journals : txns[j] = << >> /\ \A b \in FsBlocks : pend[j][b] = 0
    BY <1>4
  <2>2. \A b \in FsBlocks : disk[b] = Content(b, ver[b])
    BY <1>4
  <2>3. DOMAIN << >> = {}
    OBVIOUS
  <2>4. QED
    BY <1>4, <2>1, <2>2, <2>3 DEF LocksInv
<1>15. FsckInv /\ CleanInv
  <2>1. "off" # "look" /\ "off" \notin {"scan", "elems", "clean"} /\ "off" # "scan" /\ "off" # "elems"
        /\ "off" # "clean" /\ "off" # "done" /\ "off" \in {"off", "done"}
    OBVIOUS
  <2>2. QED
    BY <1>4, <2>1 DEF FsckInv, CleanInv
<1>16. LR!Init
  <2>1. DiskVersion = [b \in FsBlocks |-> disk[b].ver]
    BY <1>12, DiskVersionIs
  <2>2. DiskVersion = ver
    BY <1>4, <2>1, ContentVer
  <2>3. owner \in [FsBlocks -> Journals]
    BY <1>3, <1>4
  <2>4. QED
    BY <1>4, <2>2, <2>3 DEF LR!Init, LR!Nothing
<1>17. QED
  BY <1>10, <1>11, <1>12, <1>13, <1>14, <1>15, <1>16 DEF IInv

(* Every step keeps the invariant and is a step of LogRecovery, or none.   *)
LEMMA NextStep ==
  ASSUME IInv, [Next]_vars
  PROVE  IInv' /\ Simulates
<1>1. ASSUME UNCHANGED vars PROVE IInv' /\ Simulates
  <2>1. UNCHANGED <<jlog, disk, up, ver, owner, txns, pend, lost, pc, jid, pass, start, elem, revoked, nclean, bound>>
    BY <1>1 DEF vars, nodeVars, fsckVars, boundVars
  <2>2. Simulates
    BY <2>1, SameRecovery
  <2>3. TypesInv' /\ LogsInv' /\ DiskInv' /\ RegionsInv' /\ LocksInv'
    <3>1. jid' \in Journals /\ pass' \in {0, 1} /\ start' \in Blocks /\ elem' \in Nat
          /\ pc' \in {"off", "look", "scan", "elems", "clean", "clear", "done"}
      BY <2>1 DEF IInv, TypesInv
    <3>2. QED
      BY <2>1, <3>1, SameNodes
  <2>4. FsckInv' /\ CleanInv'
    BY <2>1 DEF IInv, FsckInv, CleanInv
  <2>5. QED
    BY <2>2, <2>3, <2>4 DEF IInv
<1>2. ASSUME FsckStep PROVE IInv' /\ Simulates
  BY <1>2, LookStep, EndOfPassStep, ForeachStep, ReplayElementStep, EndOfElementsStep, CleanJournalStep,
     ClearJournalStep, LeaveJournalStep DEF FsckStep
<1>3. CASE \E j \in Journals, S, R \in SUBSET FsBlocks : Commit(j, S, R)
  BY <1>3, CommitStep
<1>4. CASE \E b \in FsBlocks : WriteBack(b)
  BY <1>4, WriteBackStep
<1>5. CASE \E j \in Journals, b \in FsBlocks : Acquire(j, b)
  BY <1>5, AcquireStep
<1>6. CASE \E j \in Journals : Unmount(j)
  BY <1>6, UnmountStep
<1>7. CASE \E j \in Journals, p \in Blocks : Damage(j, p)
  BY <1>7, DamageStep
<1>8. CASE \E j \in Journals : DamageFile(j)
  BY <1>8, DamageFileStep
<1>9. CASE \E m \in bound.modes : StartFsck(m)
  BY <1>9, StartFsckStep
<1>10. CASE Finished
  BY <1>1, <1>10 DEF Finished
<1>11. QED
  BY <1>1, <1>2, <1>3, <1>4, <1>5, <1>6, <1>7, <1>8, <1>9, <1>10, CrashStep, MountStep, FsckCrashStep DEF Next

LEMMA Inductive == Spec => []IInv
<1>1. Init => IInv
  BY InitStep
<1>2. IInv /\ [Next]_vars => IInv'
  BY NextStep
<1>3. QED
  BY <1>1, <1>2, PTL DEF Spec

-----------------------------------------------------------------------------
(* JournalsLegit: whatever is committed, torn off, damaged, replayed,      *)
(* cleared or marked clean, and wherever fsck is killed, lgfs2_find_jhead  *)
(* finds in every journal what it expects of one.                          *)
THEOREM EveryJournalLegit == Spec => []JournalsLegit
<1>1. IInv => JournalsLegit
  BY RingIsLegit DEF IInv, LogsInv, JournalsLegit
<1>2. QED
  BY <1>1, Inductive, PTL

(* ImplementsLogRecovery: every step of the nodes and of fsck, on the      *)
(* journals block by block, is one that the protocol of LogRecovery allows. *)
THEOREM ReplayIsRecovery == Spec => ImplementsLogRecovery
<1>1. Init => LR!Init
  BY InitStep
<1>2. IInv /\ [Next]_vars => [LR!Next]_(LR!vars)
  BY NextStep DEF Simulates
<1>3. QED
  BY <1>1, <1>2, Inductive, PTL DEF Spec, ImplementsLogRecovery, LR!Spec

(* What is proved of LogRecovery holds of what it stands for here.         *)
LRP == INSTANCE LogRecovery_proofs WITH disk <- DiskVersion, mounted <- up,
         MaxVer <- Max({s.ver : s \in Situations})

LEMMA RecoveryHere == Spec => []LRP!RecoveredIsCommitted
<1>1. Max({s.ver : s \in Situations}) \in Nat \ {0}
  BY MaxVerIs
<1>2. LRP!Spec => []LRP!RecoveredIsCommitted
  BY <1>1, LRP!RecoveryCorrect
<1>3. Init => LRP!Init
  BY InitStep DEF LR!Init, LRP!Init, LR!Nothing, LRP!Nothing
<1>4. IInv /\ [Next]_vars => [LRP!Next]_(LRP!vars)
  <2>1. \A j, S, R : LR!Commit(j, S, R) <=> LRP!Commit(j, S, R)
    BY DEF LR!Commit, LRP!Commit, LR!Revocable, LRP!Revocable, LR!Nothing, LRP!Nothing
  <2>2. \A b : LR!WriteBack(b) <=> LRP!WriteBack(b)
    BY DEF LR!WriteBack, LRP!WriteBack
  <2>3. \A j, b : LR!Acquire(j, b) <=> LRP!Acquire(j, b)
    BY DEF LR!Acquire, LRP!Acquire, LR!MayPass, LRP!MayPass, LR!Nothing, LRP!Nothing
  <2>4. \A j, b : LR!ReplayWrite(j, b) <=> LRP!ReplayWrite(j, b)
    BY DEF LR!ReplayWrite, LRP!ReplayWrite, LR!HasEntry, LRP!HasEntry, LR!Nothing, LRP!Nothing
  <2>5. \A j : LR!MarkClean(j) <=> LRP!MarkClean(j)
    BY DEF LR!MarkClean, LRP!MarkClean, LR!Replayed, LRP!Replayed, LR!Nothing, LRP!Nothing
  <2>6. \A j : LR!Clear(j) <=> LRP!Clear(j)
    BY DEF LR!Clear, LRP!Clear, LR!Nothing, LRP!Nothing
  <2>7. (LR!Crash <=> LRP!Crash) /\ (LR!Mount <=> LRP!Mount)
    BY DEF LR!Crash, LRP!Crash, LR!Mount, LRP!Mount, LR!Mountable, LRP!Mountable, LR!Clean, LRP!Clean,
           LR!Nothing, LRP!Nothing
  <2>8. LR!Next <=> LRP!Next
    BY <2>1, <2>2, <2>3, <2>4, <2>5, <2>6, <2>7 DEF LR!Next, LRP!Next
  <2>9. LR!vars = LRP!vars /\ (UNCHANGED LR!vars <=> UNCHANGED LRP!vars)
    BY DEF LR!vars, LRP!vars
  <2>10. QED
    BY <2>8, <2>9, NextStep DEF Simulates
<1>5. QED
  BY <1>2, <1>3, <1>4, Inductive, PTL DEF Spec, LRP!Spec

LEMMA ClosedIsPlaced ==
  ASSUME IInv, LRP!RecoveredIsCommitted, \A j \in Journals : ~Open(jlog[j])
  PROVE  /\ \A j \in Journals, b \in FsBlocks : pend[j][b] = 0
         /\ \A b \in FsBlocks : b \notin lost => disk[b] = Content(b, ver[b])
<1>1. \A j \in Journals, b \in FsBlocks : pend[j][b] = 0
  <2>1. \A j \in Journals : GoodJournal(jlog[j], pend[j], txns[j], up, bound.ver)
    BY DEF IInv, RegionsInv
  <2>2. QED
    BY <2>1 DEF GoodJournal
<1>2. DiskInv
  BY DEF IInv
<1>3. \A b \in FsBlocks : b \notin lost => DiskVersion[b] = ver[b]
  BY <1>1 DEF LRP!RecoveredIsCommitted, LRP!Clean, LRP!Nothing
<1>4. \A b \in FsBlocks : DiskVersion[b] = disk[b].ver
  BY <1>2, DiskVersionIs
<1>5. \A b \in FsBlocks : disk[b] = Content(b, disk[b].ver)
  BY <1>2 DEF DiskInv
<1>6. QED
  BY <1>1, <1>3, <1>4, <1>5

(* ReplayRestoresCommitted: after any crash, with revoked blocks, escaped  *)
(* data, fsck killed and run again, what gfs2_recover_journal leaves when  *)
(* every journal is clean is what the nodes last committed, but for the    *)
(* journals that ask_to_clear cleared.                                     *)
THEOREM ReplayRestores == Spec => []ReplayRestoresCommitted
<1>1. IInv /\ LRP!RecoveredIsCommitted => ReplayRestoresCommitted
  <2> SUFFICES ASSUME IInv, LRP!RecoveredIsCommitted, \A j \in Journals : HeadOf(j).unmount
               PROVE  \A b \in FsBlocks : b \notin lost => disk[b] = Content(b, ver[b])
    BY DEF ReplayRestoresCommitted
  <2>1. \A j \in Journals : ~Open(jlog[j])
    BY HeadPosIs DEF Open
  <2>2. QED
    BY <2>1, ClosedIsPlaced
<1>2. QED
  BY <1>1, Inductive, RecoveryHere, PTL

(* AllCleanIsClean: when replay_journals has counted every journal clean,  *)
(* none has anything left to replay and every block is as last committed:  *)
(* fsck -p may skip the check.                                             *)
THEOREM AllCleanCorrect == Spec => []AllCleanIsClean
<1>1. IInv /\ LRP!RecoveredIsCommitted => AllCleanIsClean
  <2> SUFFICES ASSUME IInv, LRP!RecoveredIsCommitted, pc = "done", nclean = NJournals
               PROVE  \A b \in FsBlocks, j \in Journals :
                        pend[j][b] = 0 /\ (b \notin lost => disk[b] = Content(b, ver[b]))
    BY DEF AllCleanIsClean
  <2>1. \A j \in Journals : ~Open(jlog[j])
    BY DEF IInv, CleanInv
  <2>2. QED
    BY <2>1, ClosedIsPlaced
<1>2. QED
  BY <1>1, Inductive, RecoveryHere, PTL

(* How fsck was called and the error it keeps.                             *)
ModeInv == mode \in {"n", "y", "ask", "unsafe"} /\ error \in {0, 5, 8}

LEMMA ModeStep == ASSUME IInv, ModeInv, [Next]_vars PROVE ModeInv'
<1>1. CASE UNCHANGED <<mode, error>>
  BY <1>1 DEF ModeInv
<1>2. ASSUME NEW m \in bound.modes, StartFsck(m) PROVE ModeInv'
  <2>1. m \in {"n", "y", "ask", "unsafe"}
    BY ReplayAssumption DEF IInv, TypesInv
  <2>2. QED
    BY <1>2, <2>1 DEF StartFsck, ModeInv
<1>3. CASE Crash \/ Mount \/ FsckCrash
  BY <1>3 DEF Crash, Mount, FsckCrash, ModeInv, fsckVars, boundVars
<1>4. CASE Look
  BY <1>4 DEF Look, SkipBadFile, Recovered, AskClear, StartReplay, ModeInv
<1>5. CASE EndOfPass \/ EndOfElements
  BY <1>5 DEF EndOfPass, EndOfElements, ModeInv
<1>6. CASE ForeachDescriptor
  BY <1>6 DEF ForeachDescriptor, AskClear, ModeInv
<1>7. CASE ReplayElement
  BY <1>7 DEF ReplayElement, AskClear, ModeInv
<1>8. CASE CleanJournal \/ ClearJournal \/ LeaveJournal
  BY <1>8 DEF CleanJournal, ClearJournal, LeaveJournal, Recovered, ModeInv
<1>9. CASE \E j \in Journals, S, R \in SUBSET FsBlocks : Commit(j, S, R)
  BY <1>9, <1>1 DEF Commit, fsckVars
<1>10. CASE \/ \E b \in FsBlocks : WriteBack(b)
            \/ \E j \in Journals, b \in FsBlocks : Acquire(j, b)
            \/ \E j \in Journals : Unmount(j)
  BY <1>10, <1>1 DEF WriteBack, Acquire, Unmount, fsckVars
<1>11. CASE (\E j \in Journals, p \in Blocks : Damage(j, p)) \/ \E j \in Journals : DamageFile(j)
  BY <1>11, <1>1 DEF Damage, DamageFile, fsckVars
<1>12. CASE Finished \/ UNCHANGED vars
  BY <1>12, <1>1 DEF Finished, vars, fsckVars
<1>13. QED
  BY <1>2, <1>3, <1>4, <1>5, <1>6, <1>7, <1>8, <1>9, <1>10, <1>11, <1>12 DEF Next, FsckStep

(* TypeOK: the types of the state, journals block by block included.       *)
THEOREM TypeCorrect == Spec => []TypeOK
<1>1. IInv /\ ModeInv => TypeOK
  <2> SUFFICES ASSUME IInv, ModeInv PROVE TypeOK
    OBVIOUS
  <2>1. disk \in [FsBlocks -> [ver : 1 .. bound.ver, magic : BOOLEAN]]
    <3>1. \A b, v : v \in 1 .. bound.ver => Content(b, v) \in [ver : 1 .. bound.ver, magic : BOOLEAN]
      BY DEF Content
    <3>2. QED
      BY <3>1 DEF IInv, DiskInv
  <2>2. \A j \in Journals, p \in Blocks : jlog[j][p].kind \in {"LH", "LD", "RV", "DATA", "JUNK"}
    BY DEF IInv, LogsInv, GoodLog, GoodBlock, Kinds
  <2>3. QED
    BY <2>1, <2>2 DEF IInv, ModeInv, TypesInv, TypeOK
<1>2. Init => ModeInv
  BY DEF Init, ModeInv
<1>3. IInv /\ ModeInv /\ [Next]_vars => ModeInv'
  BY ModeStep
<1>4. QED
  BY <1>1, <1>2, <1>3, Inductive, PTL DEF Spec
=============================================================================
