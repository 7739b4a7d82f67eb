------------------------------ MODULE MCDupRefs ------------------------------
(* File systems in which several inodes refer to a block.                  *)
EXTENDS DupRefs

(* An image from its inodes: <<height, pointers, attributes>> by address,  *)
(* the pointers in other metadata blocks, and what they are.               *)
Image(inodes, blocks, system, unlinked) ==
    [content |-> [b \in Blocks |-> IF b \in DOMAIN inodes THEN "DI"
                                   ELSE IF b \in DOMAIN blocks THEN blocks[b][1] ELSE "other"],
     height |-> [b \in Blocks |-> IF b \in DOMAIN inodes THEN inodes[b][1] ELSE 0],
     ptrs |-> [b \in Blocks |-> IF b \in DOMAIN inodes THEN inodes[b][2]
                                ELSE IF b \in DOMAIN blocks THEN blocks[b][2] ELSE << >>],
     eattr |-> [b \in Blocks |-> IF b \in DOMAIN inodes THEN inodes[b][3] ELSE 0],
     system |-> system, unlinked |-> unlinked]

None == << >>

(* Three files with up to two of the blocks 5, 6 and 7, or one of them      *)
(* twice, which are data to some, and the last two indirect blocks to      *)
(* others.  None is a journal, or one is, below or above the others.       *)
Pointers(blocks) == { <<b>> : b \in blocks } \union (blocks \X blocks)
File == ({1} \X Pointers({5, 6, 7}) \X {0}) \union ({2} \X Pointers({6, 7}) \X {0})
SmallFile == { f \in File : Len(f[2]) = 1 }
Three(f, g, h, s) == Image(1 :> f @@ 2 :> g @@ 3 :> h, 6 :> <<"IN", <<8>> >> @@ 7 :> <<"IN", <<9>> >>, s, {})

Families == { Three(f, g, h, s) : f, g \in File, h \in SmallFile, s \in {{}, {1}, {2}, {3}} }

(* The third has a dinode as data, or what an indirect block leads to.     *)
Late == { Three(f, g, <<1, p, 0>>, s) :
            f \in File, g \in SmallFile, p \in ({1, 2, 8} \X {1, 5, 6, 8}) \union {<<2>>, <<9>>}, s \in {{}, {1}} }

(* Attributes: a leaf with values, an indirect block with leaves, or one   *)
(* that is an indirect block of the other file.                            *)
WithAttributes == ({1} \X {<<5>>, <<6>>, <<8>>} \X {0, 6, 7}) \union {<<2, <<6>>, 0>>, <<2, <<6>>, 7>>}
Attributed ==
    { Image(1 :> f @@ 2 :> g @@ 3 :> h, 6 :> a @@ 7 :> b @@ 8 :> <<"EA", << >> >> @@ 9 :> <<"EA", << >> >>, s, {}) :
        f, g \in WithAttributes, h \in {<<1, <<4>>, 0>>, <<1, <<8>>, 0>>, <<2, <<6>>, 0>>, <<1, <<4>>, 7>>}, s \in {{}, {1}, {3}},
        a \in {<<"IN", <<8, 9>> >>, <<"EA", <<8>> >>}, b \in {<<"EA", << >> >>, <<"IN", <<8>> >>, <<"EA", <<9, 8>> >>} }

(* A journal and two files, and those below, are met with any answer and   *)
(* ^C.                                                                     *)
WithJournal == { Three(f, g, h, s) : f \in File, g, h \in SmallFile, s \in {{1}, {2}, {3}} }

(* Two files with an indirect block in common.                             *)
SharedIndirect ==
    { Image(1 :> <<2, <<6>>, 0>> @@ 2 :> <<2, <<6>>, 0>>, 6 :> <<"IN", <<7, 8>> >>, {}, {}) }

(* Two files and a journal above them with an indirect block in common.    *)
JournalAbove ==
    { Image(1 :> <<2, <<6>>, 0>> @@ 2 :> <<2, <<6>>, 0>> @@ 3 :> <<2, <<6>>, 0>>, 6 :> <<"IN", <<8>> >>, {3}, {}) }

(* Two files with all their attributes in common, below an indirect block. *)
SharedAttributes ==
    { Image(1 :> <<1, <<4>>, 6>> @@ 2 :> <<1, <<5>>, 6>>,
            6 :> <<"IN", <<7, 8>> >> @@ 7 :> <<"EA", << >> >> @@ 8 :> <<"EA", << >> >>, {}, {}) }

(* Attributes that are an indirect block of the third file, and lead to    *)
(* data of the first.                                                      *)
AttributesElsewhere ==
    { Image(1 :> <<1, <<8>>, 0>> @@ 2 :> <<1, <<5>>, 6>> @@ 3 :> <<2, <<6>>, 0>>, 6 :> <<"IN", <<8>> >>, {}, {}) }

Others == SharedIndirect \union JournalAbove \union SharedAttributes \union AttributesElsewhere \union
    { (* three files have a block of data *)
      Image(1 :> <<1, <<5, 6>>, 0>> @@ 2 :> <<1, <<6>>, 0>> @@ 3 :> <<1, <<7, 6>>, 0>>, None, {}, {}),
      (* what is data to one file is an indirect block of the next *)
      Image(1 :> <<1, <<5, 6>>, 0>> @@ 2 :> <<2, <<6>>, 0>>, 6 :> <<"IN", <<7>> >>, {}, {}),
      (* of a journal and a file, which has more *)
      Image(1 :> <<2, <<6>>, 0>> @@ 2 :> <<2, <<6, 5>>, 0>>,
            6 :> <<"IN", <<7>> >> @@ 5 :> <<"IN", <<8>> >>, {1}, {}),
      (* data of a journal, an indirect block to a file *)
      Image(1 :> <<1, <<6>>, 0>> @@ 2 :> <<2, <<6>>, 0>>, 6 :> <<"IN", <<7>> >>, {1}, {}),
      (* three files, each two of which have a block in common *)
      Image(1 :> <<1, <<5, 6>>, 0>> @@ 2 :> <<1, <<6, 7>>, 0>> @@ 3 :> <<1, <<7, 5>>, 0>>, None, {}, {}),
      (* a file with an indirect block in common with one file and data
         that is an indirect block of a third *)
      Image(1 :> <<2, <<7>>, 0>> @@ 2 :> <<2, <<6>>, 0>> @@ 3 :> <<2, <<6, 7>>, 0>>,
            6 :> <<"IN", <<8>> >> @@ 7 :> <<"IN", <<5>> >>, {}, {}),
      Image(1 :> <<1, <<7, 5>>, 0>> @@ 2 :> <<2, <<7, 6>>, 0>> @@ 3 :> <<1, <<5>>, 0>>,
            7 :> <<"IN", <<8>> >> @@ 6 :> <<"IN", <<4>> >>, {}, {}),
      (* attributes of two files *)
      Image(1 :> <<1, <<5>>, 6>> @@ 2 :> <<1, <<7>>, 6>>, 6 :> <<"EA", << >> >>, {}, {}),
      (* attributes that are a dinode; attributes that are data *)
      Image(1 :> <<1, <<5>>, 0>> @@ 2 :> <<1, <<7>>, 1>>, None, {}, {}),
      Image(1 :> <<1, <<5>>, 0>> @@ 2 :> <<1, <<7>>, 5>>, None, {}, {}),
      (* a value of an attribute that is data to another file *)
      Image(1 :> <<1, <<5>>, 6>> @@ 2 :> <<1, <<7>>, 0>>, 6 :> <<"EA", <<7, 8>> >> @@ 7 :> <<"EA", << >> >>, {}, {}),
      (* an indirect block of two files, one of which has attributes with a
         value, the other an indirect block of attributes *)
      Image(1 :> <<2, <<3>>, 4>> @@ 2 :> <<2, <<3>>, 6>>,
            3 :> <<"IN", <<9>> >> @@ 4 :> <<"EA", <<5>> >> @@ 6 :> <<"IN", <<7, 8>> >>
                @@ 7 :> <<"EA", << >> >> @@ 8 :> <<"EA", << >> >>, {}, {}),
      (* the value of an attribute is a leaf of attributes of the file before *)
      Image(1 :> <<1, <<5>>, 6>> @@ 2 :> <<1, <<7>>, 4>>,
            4 :> <<"EA", <<8, 6>> >> @@ 6 :> <<"EA", << >> >>, {}, {}),
      (* one file with a block twice *)
      Image(1 :> <<1, <<5, 6, 5>>, 0>>, None, {}, {}),
      (* nothing is free *)
      Image(1 :> <<1, <<5, 6, 7>>, 0>> @@ 2 :> <<1, <<6, 8, 9, 3, 4>>, 0>>, None, {}, {}),
      (* a dinode that is data to the next file, which was to stay *)
      Image(1 :> <<1, <<5>>, 0>> @@ 2 :> <<1, <<6, 1>>, 0>>, None, {}, {}),
      (* an inode still marked unlinked *)
      Image(1 :> <<1, <<5>>, 0>> @@ 2 :> <<1, <<6>>, 0>> @@ 3 :> <<1, <<5>>, 0>>, None, {}, {2})
    }

MCImages == Families \union Late \union Attributed \union Others
MCMeddled == WithJournal \union Others
==============================================================================
