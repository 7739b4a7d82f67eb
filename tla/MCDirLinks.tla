----------------------------- MODULE MCDirLinks -----------------------------
(***************************************************************************)
(* DirLinks on a root, two directories, a file and a free block, linked by *)
(* a few entries in every way; with and without a lost+found or room for   *)
(* one, and with a directory or a file of zero size.                       *)
(***************************************************************************)
EXTENDS DirLinks

Stale(i) == [to |-> i, good |-> FALSE]
Self(d) == (Dot :> Entry(d))
Parents == { << >>, (DotDot :> Entry(1)), (DotDot :> Entry(2)), (DotDot :> Entry(3)) }
Holding(e) == IF e = {} THEN << >> ELSE (4 :> CHOOSE x \in e : TRUE)

RootSelf == (Dot :> Entry(1)) @@ (DotDot :> Entry(1))
RootEnts == { RootSelf @@ e : e \in
    { << >>, (4 :> Entry(2)), (4 :> Entry(4)), (4 :> Entry(2)) @@ (5 :> Entry(3)),
      (4 :> Stale(4)) @@ (5 :> Entry(4)), (4 :> Entry(3)) @@ (5 :> Entry(3)) } }
Ents2 == { Self(2) @@ u @@ Holding(e) :
              u \in Parents, e \in { {}, {Entry(3)}, {Entry(4)}, {Stale(3)}, {Stale(4)}, {Stale(5)} } }
Ents3 == { u @@ Holding(e) : u \in Parents, e \in { {}, {Entry(2)}, {Entry(4)}, {Stale(5)} } }

FourDinodes == <<"dir", "dir", "dir", "file", "free">>
Trees == { Image(FourDinodes, <<r, d2, d3, << >>, << >> >>, <<3, 3, 2, 1, 0>>, {}) :
              r \in RootEnts, d2 \in Ents2, d3 \in Ents3 }

(* Zero size: the directory has no entries.                                *)
Empties == { Image(FourDinodes, <<r, << >>, d3, << >>, << >> >>, <<3, 2, 2, 2, 0>>, e) :
              r \in RootEnts, d3 \in Ents3, e \in { {2}, {2, 4} } }

(* 3 is lost+found.                                                        *)
WithLostFound ==
    { Image(FourDinodes, <<RootSelf @@ (LostFound :> Entry(3)) @@ r, d2, Self(3) @@ d3, << >>, << >> >>,
            <<3, 2, 2, 0, 0>>, {}) :
        r \in { << >>, (4 :> Entry(2)) }, d2 \in Ents2, d3 \in Ents3 }

(* No block is free for a lost+found.                                      *)
Full == { Image([FourDinodes EXCEPT ![5] = "file"], <<RootSelf @@ r, d2, Self(3), << >>, << >> >>,
                <<3, 3, 2, 1, n>>, e) :
            r \in { << >>, (4 :> Entry(2)) }, d2 \in Ents2, n \in {0, 1}, e \in { {}, {3} } }

(* Nothing is wrong with it.                                               *)
Sound == Image(FourDinodes, <<RootSelf @@ (4 :> Entry(3)), Self(2) @@ (DotDot :> Entry(3)),
                              Self(3) @@ (DotDot :> Entry(1)) @@ (4 :> Entry(2)) @@ (5 :> Entry(4)),
                              << >>, << >> >>,
               <<3, 2, 3, 1, 0>>, {})

MCImages == Trees \union Empties \union WithLostFound \union Full \union {Sound}
=============================================================================
