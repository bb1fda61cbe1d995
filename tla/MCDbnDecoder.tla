---------------------------- MODULE MCDbnDecoder ----------------------------
(***************************************************************************)
(* DbnDecoder on an input of three records, uncompressed, compressed in    *)
(* one frame of up to three blocks or in two frames that end anywhere,     *)
(* with and without checksums, with an empty frame at an end or between    *)
(* them; whole, cut behind any token or corrupt there.  The largest block  *)
(* holds all of the input and is larger than any buffer.                   *)
(***************************************************************************)
EXTENDS DbnDecoder

MCRecords == <<[len |-> 3, rtype |-> "Statistics"], [len |-> 1, rtype |-> "Mbo"],
               [len |-> 1, rtype |-> "InstrumentDef"]>>

Uncompressed == [i \in 1..Len(Whole) |-> Token("plain", <<Whole[i]>>, FALSE)]

N == Len(Whole)

\* A frame of blocks that end at the given places of the content.
Frame(from, ends, checksum) ==
  <<Token("magic", << >>, FALSE)>>
  \o [i \in 1..Len(ends) |->
        Token("data", SubSeq(Whole, IF i = 1 THEN from ELSE ends[i - 1] + 1, ends[i]),
              i = Len(ends) /\ ~checksum)]
  \o (IF checksum THEN <<Token("data", << >>, TRUE)>> ELSE << >>)

Compressions ==
  {Frame(1, <<N>>, FALSE)}
  \cup {Frame(1, <<a, b, N>>, c) : a \in {1, 3, 5}, b \in {6, 8, 10}, c \in BOOLEAN}
  \cup {Frame(1, <<n>>, c) \o Frame(n + 1, <<N>>, ~c) :
          n \in 1..(N - 1), c \in BOOLEAN}
  \cup {Frame(1, <<n>>, FALSE) \o Frame(n + 1, <<n>>, c) \o Frame(n + 1, <<N>>, FALSE) :
          n \in 0..N, c \in BOOLEAN}

Tokens == {Uncompressed} \cup Compressions
Cuts == UNION {Prefixes(t) : t \in Tokens}
Corrupt == {Append(t, Token("corrupt", << >>, FALSE)) :
              t \in UNION {Prefixes(c) : c \in Compressions}}

\* Content that is not DBN, uncompressed and compressed.
Other == <<[rec |-> 0, off |-> 2]>>
Foreign == {<<Token("plain", Other, FALSE)>>,
            <<Token("magic", << >>, FALSE), Token("data", Other, TRUE)>>}

Source(t, v, sized, ok) == [tokens |-> t, version |-> v, sized |-> sized, wellformed |-> ok]

MCSources ==
  {Source(t, 2, TRUE, TRUE) : t \in Cuts \cup Corrupt \cup Foreign}
  \cup {Source(t, v, TRUE, TRUE) : t \in Tokens, v \in 1..4}
  \cup {Source(t, 3, sized, ~sized) : t \in Tokens, sized \in BOOLEAN}
==============================================================================
