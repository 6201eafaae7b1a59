---------------------------- MODULE MCHddManager ----------------------------
(* HddManager on a disk of up to five partitions and a list of four.        *)
EXTENDS HddManager

Part(name, kind, size) == [name |-> name, kind |-> kind, size |-> size, title |-> NoTitle]
Game(name, title) == [name |-> name, kind |-> "hdl", size |-> 1, title |-> title]
MCTyped == {<<"a">>, <<"a", 1>>}
MCSetups ==
  {[disk |-> <<>>,
    left |-> [format |-> 2, create |-> 1, rename |-> 1, remove |-> 1, mounts |-> 1, faults |-> 1]],
   [disk |-> <<Mbr, Part(<<"a", 1>>, "pfs", 1), Part(<<"a">>, "broken", 2)>>,
    left |-> [create |-> 2, rename |-> 1, remove |-> 2, mounts |-> 1]],
   [disk |-> <<Mbr, Game(<<"x">>, <<"a", 1>>), Game(<<"y">>, <<"a">>), Game(<<"z">>, <<"b">>)>>,
    left |-> [game |-> 2]],
   [disk |-> <<Mbr, Game(<<"x">>, <<"a", 1>>), Game(<<"y">>, <<"a">>)>>,
    left |-> [game |-> 2, remove |-> 1, faults |-> 1]],
   [disk |-> <<Mbr, Game(<<"x">>, <<"a">>), Game(<<"y">>, <<"a">>)>>,
    left |-> [game |-> 1, rename |-> 1]],
   [disk |-> <<Mbr, Part(<<"a">>, "pfs", 1), Part(<<"b">>, "locked", 1), Game(<<"x">>, <<"a">>)>>,
    left |-> [create |-> 1, remove |-> 2, game |-> 1, mounts |-> 1, faults |-> 1]]}
=============================================================================
