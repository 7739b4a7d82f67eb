--------------------------- MODULE MCJournalHead ---------------------------
(***************************************************************************)
(* JournalHead on every small journal: the journals nodes leave behind,    *)
(* and journals that hold anything.                                        *)
(***************************************************************************)
EXTENDS JournalHead

CONSTANT MaxSeq

Header(s) == [mapped |-> TRUE, seq |-> s, hash |-> s]
Other == [mapped |-> TRUE, seq |-> 0, hash |-> 1]
Hole == [mapped |-> FALSE, seq |-> 0, hash |-> 0]

(* Every journal a node can leave behind: headers in the blocks V, numbered *)
(* from base on, the highest of them in block h.                            *)
NodeJournal(V, h, base) ==
    [b \in Blocks |->
        IF b \notin V THEN Other
        ELSE Header(base + Cardinality({v \in V : IF b > h THEN h < v /\ v < b
                                                           ELSE h < v \/ v < b}))]
MCLegitJournals ==
    UNION { { NodeJournal(V, h, base) : h \in V, base \in 0 .. MaxSeq } :
              V \in { W \in SUBSET Blocks : Cardinality(W) > 1 } }

ASSUME LegitAssumption == \A j \in MCLegitJournals : Legit(j)

(* Any damage: holes in the journal file, repeated and misordered numbers. *)
MCAnyJournals == [Blocks -> {Other, Hole} \union {Header(s) : s \in 1 .. MaxSeq}]

MCJournals == MCLegitJournals \union MCAnyJournals
=============================================================================
