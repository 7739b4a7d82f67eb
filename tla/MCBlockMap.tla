----------------------------- MODULE MCBlockMap -----------------------------
(***************************************************************************)
(* BlockMap on small file systems: two or three files over a few blocks,   *)
(* with every kind of pointer a damaged file can have.                     *)
(***************************************************************************)
EXTENDS BlockMap

(* Blocks 1 to 3 are files, the second with two indirect blocks, 4 and 5;  *)
(* 6 and 7 hold data,  and 8 is the header of the second resource group.    *)
MCRgrps == <<[header |-> {}, data |-> {1, 2, 4, 5, 6}], [header |-> {8}, data |-> {3, 7}]>>

FirstFiles == {<<6, 7>>, <<4, 6>>, <<8, 6>>, <<3, 6>>, <<6, Bad>>}
SecondFiles == {<<4, Null, 5>>, <<4, Bad>>, <<6, 4>>, <<4, 4>>}
IndirectBlocks == {<< <<7>>, <<6>> >>, << <<1, Null, 7>>, <<7>> >>, << <<7, Bad>>, <<6>> >>,
                   << <<7>>, <<6, Bad>> >>}
ThirdFiles == {<< >>, <<Null, 7, 6>>, <<7, 7, 6>>, <<1, Null, 7>>, <<4, 8, Bad>>}
Bitmaps == {"used", "dinode", "free"}

Image(h3, p1, p2, p45, p3, bits7) ==
    [content |-> <<"DI", "DI", "DI", "IN", "IN", "other", "other", "RG">>,
     height |-> <<1, 2, h3, 0, 0, 0, 0, 0>>,
     badmode |-> IF p3 = << >> THEN {3} ELSE {},
     ptrs |-> <<p1, p2, p3, p45[1], p45[2], << >>, << >>, << >> >>,
     bitmap |-> <<"dinode", "dinode", "dinode", "used", "used", "used", bits7, "none">>,
     i_blocks |-> <<3, 3, 3, 3, 3, 3, 3, 3>>]

(* The third with indirect blocks of the second, and these met twice in    *)
(* one file; an error in the data of one, before others that are not       *)
(* walked then.                                                            *)
SharedIndirect ==
    { Image(2, p1, p2, p45, p3, "used") :
        p1 \in {<<6, 7>>, <<3, 2>>}, p2 \in {<<4, 4, 5>>, <<4, 5, Bad>>, <<5, 4>>},
        p45 \in {<<3, 7>>, <<7, 6, 1, 6>>} \X {<<7, 1>>, <<6, Bad>>}, p3 \in {<<4>>, <<5, 5, 4>>, <<4, Bad>>} }

MCImages == SharedIndirect \union
    { Image(1, p1, p2, p45, p3, bits7) :
        p1 \in FirstFiles, p2 \in SecondFiles, p45 \in IndirectBlocks,
        p3 \in ThirdFiles, bits7 \in Bitmaps }

=============================================================================
