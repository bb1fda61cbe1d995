----------------------------- MODULE MCTimeseries -----------------------------
(***************************************************************************)
(* Timeseries on responses of four records in one frame of up to three     *)
(* blocks, in two frames that end anywhere, with and without checksums, or *)
(* in two with an empty one between them; whole, cut behind any token,     *)
(* broken off there or corrupt there; with an error status; with metadata  *)
(* larger than the buffer and blocks twice its size.                       *)
(***************************************************************************)
EXTENDS Timeseries

MCRecordLens == <<3, 1, 2, 3>>

Size == Len(Whole)

\* A frame of blocks that end at the given places of the content.
Frame(from, ends, checksum) ==
  <<Token("magic", << >>, FALSE)>>
  \o [i \in 1..Len(ends) |->
        Token("data", SubSeq(Whole, IF i = 1 THEN from ELSE ends[i - 1] + 1, ends[i]),
              i = Len(ends) /\ ~checksum)]
  \o (IF checksum THEN <<Token("data", << >>, TRUE)>> ELSE << >>)

NoOutput == <<Token("magic", << >>, TRUE)>>

Bodies ==
  {Frame(1, <<Size>>, FALSE)}
  \cup {Frame(1, <<a, b, Size>>, c) : a \in {1, 3, 6, 7}, b \in {8, 9, 11}, c \in BOOLEAN}
  \cup {Frame(1, <<n>>, c) \o Frame(n + 1, <<Size>>, FALSE) :
          n \in 1..(Size - 1), c \in BOOLEAN}
  \cup {Frame(1, <<n>>, FALSE) \o NoOutput \o Frame(n + 1, <<Size>>, FALSE) :
          n \in {7, Size - 3, Size - 1}}
Cuts == UNION {Prefixes(t) : t \in Bodies}

Response(t, error, broken, readable) ==
  [tokens |-> t, error |-> error, broken |-> broken, readable |-> readable]

Foreign == <<Token("magic", << >>, FALSE),
             Token("data", [k \in 1..PreludeLen |-> [rec |-> 0, off |-> k + 1]], TRUE)>>
ErrorBody == <<Token("plain", << >>, FALSE), Token("plain", << >>, TRUE)>>

MCResponses ==
  {Response(t, FALSE, b, TRUE) : t \in Cuts \cup {NoOutput}, b \in BOOLEAN}
  \cup {Response(Append(t, Token("corrupt", << >>, FALSE)), FALSE, FALSE, TRUE) :
          t \in Prefixes(Frame(1, <<3, 8, Size>>, TRUE))}
  \cup {Response(t, FALSE, FALSE, FALSE) : t \in {Frame(1, <<3, 8, Size>>, TRUE), Foreign}}
  \cup {Response(t, TRUE, b, TRUE) : t \in Prefixes(ErrorBody), b \in BOOLEAN}
==============================================================================
