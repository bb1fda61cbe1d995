--------------------------- MODULE MCLiveConnection ---------------------------
(***************************************************************************)
(* LiveConnection with one, three or four attempts of two addresses, short *)
(* and no timeouts, and sessions of at most five bytes: plain, compressed  *)
(* in one frame that never ends or that ends, with a block larger than the *)
(* buffer or not, in two frames, and with an empty frame between two.      *)
(***************************************************************************)
EXTENDS LiveConnection

Whole == <<"h", "a", "b", "c", "d">>
Block(from, to, last) == Token("data", SubSeq(Whole, from, to), last)
Magic == Token("magic", << >>, FALSE)
NoOutput == Token("magic", << >>, TRUE)
Checksum == Token("data", << >>, TRUE)

MCSessions ==
  {[compressed |-> FALSE, tokens |-> [i \in 1..5 |-> Token("plain", <<Whole[i]>>, FALSE)]]}
  \cup {[compressed |-> TRUE, tokens |-> t] :
          t \in {<<Magic, Block(1, 1, FALSE), Block(2, 5, FALSE)>>,
                 <<Magic, Block(1, 2, FALSE), Block(3, 5, TRUE)>>,
                 <<Magic, Block(1, 5, FALSE), Checksum>>,
                 <<Magic, Block(1, 1, TRUE), Magic, Block(2, 5, FALSE)>>,
                 <<Magic, Block(1, 2, TRUE), Magic, Block(3, 5, FALSE)>>,
                 <<Magic, Block(1, 4, TRUE), NoOutput, Magic>>}}

Conf(a, w, t) == [max_attempts |-> a, max_wait |-> w, connect_timeout |-> t]
MCConfs == {Conf(0, 60, 0), Conf(4, 3, 1), Conf(3, 0, 2)}
==============================================================================
