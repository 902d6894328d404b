------------------------------ MODULE MCFiles ------------------------------
(***************************************************************************)
(* Files with a directory that has an entry of every type, one of them of  *)
(* the greatest length a name can have, and names that are too long, empty,*)
(* and a prefix of one that exists.  The file has two blocks, one after    *)
(* the other.  The commands are put together from their parts: one without *)
(* an argument, one with an argument of two words, one that names no       *)
(* program and one that is empty.                                          *)
(***************************************************************************)
EXTENDS Files

MCDirectory == << [name |-> <<"d">>, type |-> "dir", inode |-> 0],
                  [name |-> <<"a", "b", "c">>, type |-> "file", inode |-> 1],
                  [name |-> <<"r">>, type |-> "rtc", inode |-> 0] >>
MCLength == <<4>>
MCBlocks == << <<1, 2>> >>
MCNames == {<<>>, <<"a", "b">>, <<"d">>, <<"a", "b", "c">>, <<"a", "b", "c", "d">>}

Spaces(n) == [i \in 1 .. n |-> SPACE]
Line(before, name, gap, argument, end) ==
    [line |-> Spaces(before) \o name \o Spaces(gap) \o argument \o end,
     name |-> name, arg |-> argument]
MCCommands == {Line(0, <<"a", "b", "c">>, 0, <<>>, <<"newline">>),
               Line(1, <<"a", "b", "c">>, 2, <<"x", SPACE, "y">>, <<>>),
               Line(0, <<"r">>, 1, <<"x">>, <<>>),
               Line(2, <<>>, 0, <<>>, <<"newline">>)}
============================================================================
