-------------------------- MODULE LiveBlocking_proofs --------------------------
(***************************************************************************)
(* The records of a live session, for every length of records, metadata    *)
(* and authentication response, every size of the buffer and every         *)
(* timeout; its subscriptions, for every list of symbols, chunk size and   *)
(* largest id; and its authentication, for all lines of the gateway and    *)
(* however its bytes arrive.                                               *)
(***************************************************************************)
EXTENDS LiveBlocking, LiveAuth, StreamLemmas

\* The pieces a gateway sends, and what comes after a piece.
Piece == {p \in [rec : Nat, off : Nat, len : Nat] :
            /\ 1 <= p.off /\ p.off <= p.len
            /\ p.rec # 0 => HeaderLen <= p.len /\ p.len <= MaxRecordLen}
Follows(a, b) ==
  IF a.off = a.len THEN b.off = 1 /\ b.rec = a.rec + 1 ELSE b = [a EXCEPT !.off = @ + 1]
Chain(s) == \A i \in 1..(Len(s) - 1) : Follows(s[i], s[i + 1])

\* A chain grows by the piece after its last.
LEMMA ChainAppend ==
  ASSUME NEW s \in Seq(Piece), Chain(s), NEW p \in Piece, s # << >> => Follows(s[Len(s)], p)
  PROVE  /\ Append(s, p) \in Seq(Piece) /\ Chain(Append(s, p)) /\ Append(s, p) # << >>
         /\ Append(s, p)[Len(Append(s, p))] = p
         /\ s # << >> => Append(s, p)[1] = s[1]
         /\ s = << >> => Append(s, p)[1] = p
<1> DEFINE t == Append(s, p)
<1>1. /\ t \in Seq(Piece) /\ Len(t) = Len(s) + 1 /\ t[Len(s) + 1] = p
      /\ \A i \in 1..Len(s) : t[i] = s[i]
  BY AppendProperties
<1>2. Len(s) \in Nat /\ (s = << >> <=> Len(s) = 0)
  BY EmptySeq
<1> HIDE DEF t
<1>3. ASSUME NEW i \in 1..(Len(t) - 1) PROVE Follows(t[i], t[i + 1])
  <2>1. CASE i = Len(s)
    BY <1>1, <1>2, <2>1
  <2>2. CASE i # Len(s)
    <3>1. i \in 1..(Len(s) - 1) /\ i \in 1..Len(s) /\ i + 1 \in 1..Len(s)
      BY <1>1, <1>2, <2>2
    <3> QED
      BY <1>1, <3>1 DEF Chain
  <2> QED
    BY <2>1, <2>2
<1>4. Chain(t)
  BY <1>3 DEF Chain
<1>5. t # << >> /\ t[Len(t)] = p
  BY <1>1, <1>2
<1>6. s # << >> => t[1] = s[1]
  BY <1>1, <1>2
<1>7. s = << >> => t[1] = p
  BY <1>1, <1>2
<1> QED
  BY <1>1, <1>4, <1>5, <1>6, <1>7 DEF t

\* Parts of a chain are chains.
LEMMA ChainDrop ==
  ASSUME NEW s \in Seq(Piece), Chain(s), NEW n \in 0..Len(s)
  PROVE  LET t == SubSeq(s, n + 1, Len(s))
         IN  /\ t \in Seq(Piece) /\ Chain(t) /\ Len(t) = Len(s) - n
             /\ n < Len(s) => t # << >> /\ t[1] = s[n + 1] /\ t[Len(t)] = s[Len(s)]
             /\ n = Len(s) => t = << >>
<1> DEFINE t == SubSeq(s, n + 1, Len(s))
<1>1. /\ t \in Seq(Piece) /\ Len(t) = Len(s) - n
      /\ \A i \in 1..(Len(s) - n) : t[i] = s[n + i]
  OBVIOUS
<1>2. Len(s) \in Nat /\ n \in Nat
  OBVIOUS
<1> HIDE DEF t
<1>3. ASSUME NEW i \in 1..(Len(t) - 1) PROVE Follows(t[i], t[i + 1])
  <2>1. i \in 1..(Len(s) - n) /\ i + 1 \in 1..(Len(s) - n) /\ n + i \in 1..(Len(s) - 1)
        /\ n + (i + 1) = (n + i) + 1
    BY <1>1, <1>2
  <2>2. t[i] = s[n + i] /\ t[i + 1] = s[n + (i + 1)]
    BY <1>1, <2>1
  <2> QED
    BY <2>1, <2>2 DEF Chain
<1>4. Chain(t)
  BY <1>3 DEF Chain
<1>5. n < Len(s) => t # << >> /\ t[1] = s[n + 1] /\ t[Len(t)] = s[Len(s)]
  <2>1. n < Len(s) => Len(s) - n \in 1..(Len(s) - n) /\ n + (Len(s) - n) = Len(s) /\ Len(t) # 0
                      /\ 1 \in 1..(Len(s) - n)
    BY <1>1, <1>2
  <2> QED
    BY <1>1, <2>1
<1>6. n = Len(s) => t = << >>
  BY <1>1, <1>2, EmptySeq
<1> QED
  BY <1>1, <1>4, <1>5, <1>6 DEF t

\* What a chain begins with is a chain.
LEMMA ChainPrefix ==
  ASSUME NEW s \in Seq(Piece), NEW t \in Seq(Piece), Chain(s \o t)
  PROVE  Chain(s) /\ (s # << >> => (s \o t)[1] = s[1] /\ s \o t # << >>)
<1>1. /\ s \o t \in Seq(Piece) /\ Len(s \o t) = Len(s) + Len(t) /\ Len(s) \in Nat /\ Len(t) \in Nat
      /\ \A i \in 1..Len(s) : (s \o t)[i] = s[i]
  BY ConcatProperties
<1>2. ASSUME NEW i \in 1..(Len(s) - 1) PROVE Follows(s[i], s[i + 1])
  <2>1. i \in 1..(Len(s \o t) - 1) /\ i \in 1..Len(s) /\ i + 1 \in 1..Len(s)
    BY <1>1
  <2>2. Follows((s \o t)[i], (s \o t)[i + 1])
    BY <2>1 DEF Chain
  <2> QED
    BY <1>1, <2>1, <2>2
<1>3. s # << >> => (s \o t)[1] = s[1] /\ s \o t # << >>
  BY <1>1, EmptySeq
<1> QED
  BY <1>2, <1>3 DEF Chain

\* The pieces of one record follow each other up to its last, and then the next begins.
LEMMA RecordRun ==
  ASSUME NEW s \in Seq(Piece), Chain(s), s # << >>,
         NEW k \in Nat, k = s[1].len - s[1].off, k < Len(s)
  PROVE  /\ s[k + 1].off = s[k + 1].len /\ s[k + 1].rec = s[1].rec
         /\ k + 1 < Len(s) => s[k + 2].off = 1 /\ s[k + 2].rec = s[1].rec + 1
<1> DEFINE P(i) == /\ s[i + 1].off = s[1].off + i
                   /\ s[i + 1].len = s[1].len /\ s[i + 1].rec = s[1].rec
           S == {i \in Nat : i <= k => P(i)}
<1>1. /\ Len(s) \in Nat /\ Len(s) >= 1
      /\ \A i \in 1..Len(s) : s[i] \in Piece
  BY EmptySeq, ElementOfSeq
<1>2. \A p \in Piece : /\ p \in [rec : Nat, off : Nat, len : Nat]
                       /\ p.off \in Nat /\ p.len \in Nat /\ p.rec \in Nat
  BY DEF Piece
<1>3. s[1].off \in Nat /\ s[1].len \in Nat /\ s[1].rec \in Nat
  BY <1>1, <1>2
<1>4. 0 \in S
  BY <1>3
<1>5. ASSUME NEW i \in S PROVE i + 1 \in S
  <2> SUFFICES ASSUME i + 1 <= k PROVE P(i + 1)
    BY <1>5
  <2>1. i \in Nat /\ P(i) /\ i < k
    BY <1>5
  <2>2. i + 1 \in 1..(Len(s) - 1) /\ i + 1 \in 1..Len(s) /\ (i + 1) + 1 \in 1..Len(s)
    BY <1>1, <2>1
  <2>3. s[i + 1].off # s[i + 1].len
    BY <1>3, <2>1
  <2>4. s[(i + 1) + 1] = [s[i + 1] EXCEPT !.off = @ + 1]
    BY <2>2, <2>3 DEF Chain, Follows
  <2>5. s[i + 1] \in [rec : Nat, off : Nat, len : Nat]
    BY <1>1, <1>2, <2>2
  <2>6. /\ s[(i + 1) + 1].off = s[i + 1].off + 1
        /\ s[(i + 1) + 1].len = s[i + 1].len /\ s[(i + 1) + 1].rec = s[i + 1].rec
    <3> DEFINE p == s[i + 1]
               q == s[(i + 1) + 1]
    <3>1. q = [p EXCEPT !.off = @ + 1] /\ p \in [rec : Nat, off : Nat, len : Nat]
      BY <2>4, <2>5
    <3> HIDE DEF p, q
    <3>2. q.off = p.off + 1 /\ q.len = p.len /\ q.rec = p.rec
      BY <3>1
    <3> QED
      BY <3>2 DEF p, q
  <2>7. (s[1].off + i) + 1 = s[1].off + (i + 1)
    <3>1. \A a, b \in Nat : (a + b) + 1 = a + (b + 1)
      OBVIOUS
    <3>2. i \in Nat
      BY <2>1
    <3> QED
      BY <1>3, <3>1, <3>2, Zenon
  <2> QED
    BY <2>1, <2>6, <2>7
<1>6. S = Nat
  BY <1>4, <1>5, SetInduction
<1>7. P(k)
  BY <1>6
<1>8. s[k + 1].off = s[k + 1].len /\ s[k + 1].rec = s[1].rec
  BY <1>3, <1>7
<1>9. k + 1 < Len(s) => k + 1 \in 1..(Len(s) - 1) /\ (k + 1) + 1 = k + 2
  BY <1>1
<1> QED
  BY <1>8, <1>9 DEF Chain, Follows
-----------------------------------------------------------------------------
(* The inductive invariant.                                                *)

InMetadata == call.op \in {"metadata", "overrun"}
InStart == call.op = "prelude" \/ InMetadata
Pending == Unread(buf) \o wire
Header(k) == [rec |-> 0, off |-> k, len |-> MetadataLen + 1]

Types ==
  /\ started \in BOOLEAN
  /\ call \in [op : Polling \cup {"none", "prelude", "metadata", "overrun"}, timeout : Nat]
  /\ gw \in {"authenticated", "unauthenticated", "streaming", "closed"}
  /\ silence \in Nat /\ gw_silence \in Nat /\ wire \in Seq(Piece)
  /\ delivered \in Seq(Nat)

\* The least any buffer may hold.
SmallestSize == IF MaxRecordLen >= AuthLen + 1 THEN MaxRecordLen ELSE AuthLen + 1

LEMMA SmallestSizeFacts ==
  /\ SmallestSize \in Nat /\ MaxRecordLen <= SmallestSize /\ AuthLen + 1 <= SmallestSize
  /\ \A n \in BufferSizes : n \in Nat /\ n >= SmallestSize
  BY SessionAssumption DEF SmallestSize

\* The buffer, what of it is used before the records, and the room for the metadata.
BufferFits ==
  /\ BufferOf(buf, Piece) /\ buf.cap >= SmallestSize /\ Unread(buf) \in Seq(Piece)
  /\ ~started =>
       /\ buf.rd = buf.wr /\ buf.wr <= AuthLen + 1
       /\ ~InMetadata /\ (gw # "closed" \/ wire # << >>) => buf.wr <= AuthLen
       /\ InMetadata => \/ MetadataLen <= buf.cap - buf.wr
                        \/ MetadataLen <= buf.cap /\ buf.cap < AuthLen + 1 + MetadataLen

\* Where the calls may be.
Phases ==
  /\ call.op \in Polling => started
  /\ InStart => ~started
  /\ ~started => delivered = << >> /\ (InStart \/ wire = << >>)
  /\ gw = "streaming" => started \/ InStart
  /\ gw \in {"authenticated", "unauthenticated"} => wire = << >>

\* What the client has not taken is a run of pieces up to the last one sent, that begins
\* with the header Start waits for or with the record to deliver next.
Unbroken ==
  /\ Chain(Pending)
  /\ Pending # << >> =>
       /\ started => Pending[1].off = 1 /\ Pending[1].rec = Len(delivered) + 1
       /\ ~started => Pending[1] = Header(IF InMetadata THEN 2 ELSE 1)
  /\ gw = "streaming" =>
       /\ sent \in Piece
       /\ Pending # << >> => Pending[Len(Pending)] = sent
       /\ Pending = << >> => sent.off = sent.len /\ sent.rec = Len(delivered)
       /\ call.op = "prelude" => Len(wire) >= MetadataLen + 1
       /\ InMetadata => Len(wire) >= MetadataLen

InOrder == \A i \in 1..Len(delivered) : delivered[i] = i

\* A call that waits for a record does not have it.
NoRecordYet == call.op \in Polling \ {"fill"} => ~HasRecord(buf)

\* With nothing to read, the client has heard from the gateway last.
SilenceShared ==
  started /\ wire = << >> /\ conn = "open" /\ gw # "closed" => silence <= gw_silence

IInv ==
  Types /\ BufferFits /\ Phases /\ Unbroken /\ InOrder /\ NoRecordYet /\ SilenceShared
-----------------------------------------------------------------------------

\* What is pending is a sequence of pieces, as long as the buffer says.
LEMMA PendingSeq ==
  ASSUME Types, BufferFits
  PROVE  /\ Pending \in Seq(Piece) /\ Len(Unread(buf)) = ReadCapacity(buf)
         /\ ReadCapacity(buf) \in Nat /\ WriteCapacity(buf) \in Nat
         /\ wire = << >> /\ Unread(buf) = << >> => Pending = << >>
<1>1. Pending \in Seq(Piece)
  BY ConcatProperties DEF Types, BufferFits, Pending
<1>2. Len(Unread(buf)) = buf.wr - buf.rd
  BY UnreadSeq DEF BufferFits
<1>3. ReadCapacity(buf) \in Nat /\ WriteCapacity(buf) \in Nat
  BY DEF BufferFits, BufferOf, ReadCapacity, WriteCapacity
<1>4. wire = << >> /\ Unread(buf) = << >> => Pending = << >>
  BY DEF Pending
<1> QED
  BY <1>1, <1>2, <1>3, <1>4 DEF ReadCapacity

\* The first unread piece and the length that the client finds in it.
LEMMA FirstUnread ==
  ASSUME NEW b, BufferOf(b, Piece), Unread(b) \in Seq(Piece), ReadCapacity(b) > 0
  PROVE  /\ Unread(b) # << >> /\ Unread(b)[1] = b.mem[b.rd] /\ Unread(b)[1] \in Piece
         /\ RecordSize(b) = Unread(b)[1].len
<1>1. b.wr \in Nat /\ b.rd \in Nat /\ b.wr - b.rd > 0
  BY DEF BufferOf, ReadCapacity
<1>2. /\ Len(Unread(b)) = b.wr - b.rd
      /\ \A i \in 1..(b.wr - b.rd) : Unread(b)[i] = b.mem[b.rd + i - 1]
  BY UnreadSeq
<1>3. 1 \in 1..(b.wr - b.rd) /\ b.rd + 1 - 1 = b.rd
  BY <1>1
<1>4. Unread(b)[1] = b.mem[b.rd]
  BY <1>2, <1>3
<1>5. Unread(b) # << >> /\ 1 \in 1..Len(Unread(b))
  BY <1>1, <1>2, EmptySeq
<1> QED
  BY <1>4, <1>5, ElementOfSeq DEF RecordSize

\* The invariant gives the order of the records, and that they are read from their start.
LEMMA InvImplies == IInv => RecordsInOrder
<1> SUFFICES ASSUME IInv PROVE RecordsInOrder
  OBVIOUS
<1>1. BufferOf(buf, Piece) /\ Unread(buf) \in Seq(Piece) /\ wire \in Seq(Piece)
  BY DEF IInv, BufferFits, Types
<1>2. Framed
  <2> SUFFICES ASSUME started, ReadCapacity(buf) > 0
               PROVE  /\ buf.mem[buf.rd].off = 1
                      /\ \A i \in buf.rd..(buf.wr - 2) : Follows(buf.mem[i], buf.mem[i + 1])
    BY DEF Framed, Follows
  <2>1. /\ Chain(Unread(buf)) /\ Unread(buf) # << >> /\ Unread(buf)[1] = buf.mem[buf.rd]
        /\ Pending # << >> /\ Pending[1] = Unread(buf)[1]
    BY <1>1, FirstUnread, ChainPrefix DEF IInv, Unbroken, Pending
  <2>2. buf.mem[buf.rd].off = 1
    BY <2>1 DEF IInv, Unbroken
  <2>3. ASSUME NEW i \in buf.rd..(buf.wr - 2) PROVE Follows(buf.mem[i], buf.mem[i + 1])
    <3>1. buf.wr \in Nat /\ buf.rd \in Nat
      BY <1>1 DEF BufferOf
    <3>2. /\ Len(Unread(buf)) = buf.wr - buf.rd
          /\ \A j \in 1..(buf.wr - buf.rd) : Unread(buf)[j] = buf.mem[buf.rd + j - 1]
      BY <1>1, UnreadSeq
    <3> DEFINE j == i - buf.rd + 1
    <3>3. /\ j \in 1..(buf.wr - buf.rd) /\ j + 1 \in 1..(buf.wr - buf.rd)
          /\ j \in 1..(buf.wr - buf.rd - 1)
          /\ buf.rd + j - 1 = i /\ buf.rd + (j + 1) - 1 = i + 1
      BY <3>1
    <3> HIDE DEF j
    <3>4. Unread(buf)[j] = buf.mem[i] /\ Unread(buf)[j + 1] = buf.mem[i + 1]
      BY <3>2, <3>3
    <3>5. j \in 1..(Len(Unread(buf)) - 1)
      BY <3>2, <3>3
    <3> QED
      BY <2>1, <3>4, <3>5 DEF Chain
  <2> QED
    BY <2>2, <2>3
<1> QED
  BY <1>2 DEF IInv, InOrder, RecordsInOrder

\* The invariant gives the room for the metadata.
LEMMA InvFits == IInv => MetadataFits
<1> SUFFICES ASSUME IInv, InMetadata PROVE WriteCapacity(buf) >= MetadataLen \/ NearCapacity
  BY DEF MetadataFits, InMetadata
<1>1. ~started /\ buf.cap \in Nat /\ buf.wr \in Nat
  BY DEF IInv, Phases, InStart, BufferFits, BufferOf
<1> QED
  BY <1>1, SessionAssumption DEF IInv, BufferFits, WriteCapacity, NearCapacity

\* What the client has not taken stays the same.
LEMMA PendingKept ==
  ASSUME IInv, Unread(buf') \o wire' = Pending, UNCHANGED <<started, delivered, sent>>,
         gw' \in {gw, "closed"},
         started => call'.op \notin {"prelude", "metadata", "overrun"},
         ~started => UNCHANGED <<call, wire>>
  PROVE  Unbroken' /\ InOrder'
<1>1. Pending' = Pending
  BY DEF Pending, Unread, ReadCapacity
<1>2. Unbroken'
  BY <1>1 DEF IInv, Unbroken, Types, Phases, InStart, InMetadata, Header
<1> QED
  BY <1>2 DEF IInv, InOrder

\* The connection is lost, or nothing happens.
LEMMA StreamAlone ==
  ASSUME IInv, UNCHANGED streamVars, conn' = conn, gw' \in {gw, "closed"}
  PROVE  IInv'
<1>1. Unread(buf') = Unread(buf)
  BY DEF streamVars
<1>2. /\ Types' /\ Phases' /\ SilenceShared' /\ NoRecordYet'
  BY DEF IInv, Types, Phases, SilenceShared, NoRecordYet, streamVars, InStart, InMetadata, HasRecord,
         ReadCapacity, RecordSize
<1>3. BufferFits'
  BY <1>1 DEF IInv, BufferFits, InMetadata, streamVars, BufferOf, Unread, ReadCapacity
<1>4. Unread(buf') \o wire' = Pending
  BY <1>1 DEF streamVars, Pending
<1>5. Unbroken' /\ InOrder'
  BY <1>4, PendingKept DEF IInv, Phases, InStart, InMetadata, streamVars
<1> QED
  BY <1>2, <1>3, <1>5 DEF IInv

\* The gateway sends the piece after the last one.
LEMMA GatewaySendsStep ==
  ASSUME IInv, NEW len \in RecordLens, GatewaySends(len)
  PROVE  IInv'
<1> DEFINE p == Following(len)
<1>1. /\ gw = "streaming" /\ sent' = p /\ wire' = Append(wire, p) /\ gw_silence' = 0
      /\ UNCHANGED <<conn, started, gw, buf, silence, call, delivered>>
  BY DEF GatewaySends
<1>2. /\ sent \in [rec : Nat, off : Nat, len : Nat] /\ 1 <= sent.off /\ sent.off <= sent.len
      /\ sent.rec # 0 => HeaderLen <= sent.len /\ sent.len <= MaxRecordLen
      /\ sent.rec \in Nat /\ sent.off \in Nat /\ sent.len \in Nat
  BY <1>1 DEF IInv, Unbroken, Piece
<1>3. len \in Nat /\ HeaderLen <= len /\ len <= MaxRecordLen /\ 1 <= len
  BY SessionAssumption
<1>4. p \in Piece /\ Follows(sent, p) /\ (sent.off = sent.len => p.off = 1 /\ p.rec = sent.rec + 1)
  <2>1. CASE sent.off < sent.len
    <3>1. p = [sent EXCEPT !.off = @ + 1]
      BY <2>1 DEF Following
    <3> HIDE DEF p
    <3>2. p.rec = sent.rec /\ p.off = sent.off + 1 /\ p.len = sent.len
          /\ p \in [rec : Nat, off : Nat, len : Nat]
      BY <1>2, <3>1
    <3> QED
      BY <1>2, <2>1, <3>1, <3>2 DEF Piece, Follows
  <2>2. CASE ~(sent.off < sent.len)
    <3>1. p = [rec |-> sent.rec + 1, off |-> 1, len |-> len]
      BY <2>2 DEF Following
    <3> HIDE DEF p
    <3>2. p.rec = sent.rec + 1 /\ p.off = 1 /\ p.len = len
          /\ p \in [rec : Nat, off : Nat, len : Nat]
      BY <1>2, <1>3, <3>1
    <3>3. sent.off = sent.len
      BY <1>2, <2>2
    <3> QED
      BY <1>3, <3>2, <3>3 DEF Piece, Follows
  <2> QED
    BY <2>1, <2>2
<1> HIDE DEF p
<1>5. Pending \in Seq(Piece) /\ wire \in Seq(Piece) /\ Unread(buf) \in Seq(Piece)
  BY PendingSeq DEF IInv, Types, BufferFits
<1>6. Pending' = Append(Pending, p)
  <2>1. Unread(buf)' = Unread(buf)
    BY <1>1 DEF Unread, ReadCapacity
  <2>2. Pending' = Unread(buf) \o Append(wire, p)
    BY <1>1, <2>1 DEF Pending
  <2> DEFINE u == Unread(buf)
  <2> HIDE DEF u
  <2>3. u \in Seq(Piece) /\ wire \in Seq(Piece) /\ p \in Piece
    BY <1>4, <1>5 DEF u
  <2>4. u \o Append(wire, p) = Append(u \o wire, p)
    BY <2>3
  <2> QED
    BY <2>2, <2>4 DEF Pending, u
<1>7. Chain(Pending) /\ (Pending # << >> => Pending[Len(Pending)] = sent)
  BY <1>1 DEF IInv, Unbroken
<1>8. /\ Chain(Pending') /\ Pending' # << >>
      /\ Pending'[Len(Pending')] = p
      /\ Pending # << >> => Pending'[1] = Pending[1]
      /\ Pending = << >> => Pending'[1] = p
  BY <1>4, <1>5, <1>6, <1>7, ChainAppend
<1>9. wire' \in Seq(Piece) /\ wire' # << >> /\ Len(wire') = Len(wire) + 1 /\ Len(wire) \in Nat
  BY <1>1, <1>4, <1>5
<1>10. Pending = << >> => started
  <2>1. Pending = << >> => Len(wire) = 0
    <3>1. Len(Pending) = Len(Unread(buf)) + Len(wire) /\ Len(Unread(buf)) \in Nat
      BY <1>5, ConcatProperties DEF Pending
    <3>2. Pending = << >> => Len(Pending) = 0
      OBVIOUS
    <3> QED
      BY <1>9, <3>1, <3>2
  <2> QED
    BY <1>1, <2>1, SessionAssumption DEF IInv, Phases, InStart, InMetadata, Unbroken
<1>11. Types'
  BY <1>1, <1>9 DEF IInv, Types
<1>12. BufferFits' /\ NoRecordYet'
  BY <1>1 DEF IInv, BufferFits, InMetadata, NoRecordYet, BufferOf, HasRecord, ReadCapacity, RecordSize,
              Unread
<1>13. Phases' /\ SilenceShared' /\ InOrder'
  BY <1>1, <1>9 DEF IInv, Phases, InStart, InMetadata, SilenceShared, InOrder
<1>14. Unbroken'
  <2>1. started => Pending'[1].off = 1 /\ Pending'[1].rec = Len(delivered) + 1
    BY <1>1, <1>4, <1>8 DEF IInv, Unbroken
  <2>2. ~started => Pending'[1] = Header(IF InMetadata THEN 2 ELSE 1)
    BY <1>8, <1>10 DEF IInv, Unbroken
  <2>3. /\ call.op = "prelude" => Len(wire') >= MetadataLen + 1
        /\ InMetadata => Len(wire') >= MetadataLen
    BY <1>1, <1>9, SessionAssumption DEF IInv, Unbroken
  <2> QED
    BY <1>1, <1>4, <1>8, <2>1, <2>2, <2>3 DEF Unbroken, InMetadata, Header
<1> QED
  BY <1>11, <1>12, <1>13, <1>14 DEF IInv

\* The clock: both silences grow together.
LEMMA TickStep == IInv /\ Tick => IInv'
<1> SUFFICES ASSUME IInv, Tick PROVE IInv'
  OBVIOUS
<1>1. /\ silence' = Up(silence) /\ gw_silence' = Up(gw_silence)
      /\ UNCHANGED <<conn, started, gw, sent, buf, call, wire, delivered>>
  BY DEF Tick, connVars
<1>2. /\ silence \in Nat /\ gw_silence \in Nat /\ HbTimeout \in Nat
  BY SessionAssumption DEF IInv, Types
<1>3. /\ Up(silence) \in Nat /\ Up(gw_silence) \in Nat
      /\ silence <= gw_silence => Up(silence) <= Up(gw_silence)
  BY <1>2 DEF Up
<1>4. Types' /\ Phases' /\ SilenceShared' /\ NoRecordYet'
  BY <1>1, <1>3 DEF IInv, Types, Phases, SilenceShared, NoRecordYet, InStart, InMetadata, HasRecord,
                    ReadCapacity, RecordSize
<1>5. BufferFits'
  BY <1>1 DEF IInv, BufferFits, InMetadata, BufferOf, Unread, ReadCapacity
<1>6. Unread(buf') \o wire' = Pending
  BY <1>1 DEF Pending
<1>7. Unbroken' /\ InOrder'
  BY <1>1, <1>6, PendingKept DEF IInv, Phases, InStart, InMetadata
<1> QED
  BY <1>4, <1>5, <1>7 DEF IInv
-----------------------------------------------------------------------------
(* Start, Stop and Reconnect.                                              *)

\* Until Start has returned, all that the client has not taken is on the wire.
LEMMA BeforeStart ==
  ASSUME IInv, ~started
  PROVE  /\ Unread(buf) = << >> /\ Pending = wire /\ wire \in Seq(Piece)
         /\ buf.rd = buf.wr /\ BufferOf(buf, Piece) /\ buf.cap >= SmallestSize
<1>1. Unread(buf) = << >> /\ BufferOf(buf, Piece) /\ buf.cap >= SmallestSize /\ buf.rd = buf.wr
  BY NoneUnread DEF IInv, BufferFits
<1>2. wire \in Seq(Piece)
  BY DEF IInv, Types
<1>3. << >> \o wire = wire
  BY <1>2
<1> QED
  BY <1>1, <1>2, <1>3 DEF Pending

\* With nothing pending and no gateway at work, or none to start, there is nothing to keep.
LEMMA NothingPending ==
  ASSUME Pending' = << >>, gw' # "streaming"
  PROVE  Unbroken'
<1>1. Chain(Pending')
  BY DEF Chain
<1> QED
  BY <1>1 DEF Unbroken

\* The metadata is a chain that begins with the prelude.
LEMMA MetadataChain ==
  /\ Metadata \in Seq(Piece) /\ Len(Metadata) = MetadataLen + 1 /\ Chain(Metadata)
  /\ Metadata[1] = Header(1) /\ Metadata # << >> /\ Last(Metadata) = Metadata[Len(Metadata)]
<1>1. MetadataLen \in Nat /\ MetadataLen >= 1
  BY SessionAssumption
<1>2. \A k \in 1..(MetadataLen + 1) : Header(k) \in Piece
  BY <1>1 DEF Header, Piece
<1>3. /\ Metadata \in [1..(MetadataLen + 1) -> Piece]
      /\ \A k \in 1..(MetadataLen + 1) : Metadata[k] = Header(k)
  BY <1>2 DEF Metadata, Header
<1>4. Metadata \in Seq(Piece) /\ Len(Metadata) = MetadataLen + 1
  BY <1>1, <1>3, FunctionSeq
<1>5. Chain(Metadata)
  <2> SUFFICES ASSUME NEW i \in 1..MetadataLen PROVE Follows(Metadata[i], Metadata[i + 1])
    BY <1>1, <1>4 DEF Chain
  <2>1. Metadata[i] = Header(i) /\ Metadata[i + 1] = Header(i + 1)
    BY <1>1, <1>3
  <2>2. Header(i).off # Header(i).len /\ Header(i + 1) = [Header(i) EXCEPT !.off = @ + 1]
    BY <1>1 DEF Header
  <2> QED
    BY <2>1, <2>2 DEF Follows
<1>6. Metadata[1] = Header(1) /\ Metadata # << >>
  BY <1>1, <1>3, <1>4
<1> QED
  BY <1>4, <1>5, <1>6 DEF Last

\* Start writes start_session and waits for the prelude.
LEMMA StartStep == IInv /\ Start => IInv'
<1> SUFFICES ASSUME IInv, Start PROVE IInv'
  OBVIOUS
<1>1. call = Idle /\ ~started /\ UNCHANGED <<conn, started, buf, silence, delivered>>
  BY DEF Start
<1>2. call.op = "none" /\ ~InStart
  BY <1>1 DEF Idle, InStart, InMetadata
<1>3. /\ Unread(buf) = << >> /\ Pending = wire /\ wire = << >> /\ delivered = << >>
  BY <1>1, <1>2, BeforeStart DEF IInv, Phases
<1>4. Unread(buf') = << >>
  BY <1>1, <1>3
<1>5. ASSUME call' = [op |-> "prelude", timeout |-> 0], gw = "closed" => gw' = "closed" /\ wire' = << >>
      PROVE  BufferFits' /\ NoRecordYet' /\ SilenceShared' /\ InOrder'
  BY <1>1, <1>2, <1>4, <1>5
  DEF IInv, BufferFits, InMetadata, NoRecordYet, SilenceShared, InOrder, BufferOf, Unread, ReadCapacity,
      Polling
<1>6. CASE /\ call' = [op |-> "prelude", timeout |-> 0]
           /\ gw = "authenticated" /\ gw' = "streaming" /\ gw_silence' = 0
           /\ wire' = Metadata /\ sent' = Last(Metadata)
  <2>1. Pending' = Metadata
    <3>1. << >> \o Metadata = Metadata
      BY MetadataChain
    <3> QED
      BY <1>4, <1>6, <3>1 DEF Pending, Unread, ReadCapacity
  <2>2. Types'
    BY <1>1, <1>6, MetadataChain DEF IInv, Types
  <2>3. Phases'
    BY <1>1, <1>3, <1>6 DEF Phases, InStart, InMetadata, Polling
  <2>4. sent' \in Piece /\ Pending'[Len(Pending')] = sent'
    <3>1. Len(Metadata) \in 1..Len(Metadata)
      BY MetadataChain, SessionAssumption
    <3> QED
      BY <1>6, <2>1, <3>1, MetadataChain, ElementOfSeq
  <2>5. Unbroken'
    BY <1>1, <1>6, <2>1, <2>4, MetadataChain, SessionAssumption DEF Unbroken, InMetadata, Header
  <2> QED
    BY <1>5, <1>6, <2>2, <2>3, <2>5 DEF IInv
<1>7. CASE /\ call' = [op |-> "prelude", timeout |-> 0]
           /\ gw \in {"unauthenticated", "closed"} /\ UNCHANGED <<gw, wire, sent, gw_silence>>
  <2>1. Types' /\ Phases'
    BY <1>1, <1>3, <1>7 DEF IInv, Types, Phases, InStart, InMetadata, Polling
  <2>2. Pending' = << >>
    BY <1>3, <1>4, <1>7 DEF Pending, Unread, ReadCapacity
  <2>3. Unbroken'
    BY <1>7, <2>2, NothingPending
  <2> QED
    BY <1>3, <1>5, <1>7, <2>1, <2>3 DEF IInv
<1>8. CASE ~Writable /\ UNCHANGED <<call, gw, wire, sent, gw_silence>>
  BY <1>1, <1>8, StreamAlone DEF streamVars, Start
<1> QED
  BY <1>6, <1>7, <1>8 DEF Start

\* The connection is gone before the header was complete.
LEMMA ReadExactFailsStep == IInv /\ ReadExactFails => IInv'
<1> SUFFICES ASSUME IInv, ReadExactFails PROVE IInv'
  OBVIOUS
<1>1. /\ call.op \in {"prelude", "metadata"} /\ gw = "closed" /\ call' = Idle /\ wire' = << >>
      /\ UNCHANGED <<conn, started, gw, sent, buf, silence, gw_silence, delivered>>
  BY DEF ReadExactFails, connVars, clockVars
<1>2. ~started /\ call'.op = "none"
  BY <1>1 DEF IInv, Phases, InStart, InMetadata, Idle
<1>3. Unread(buf) = << >>
  BY <1>2, BeforeStart
<1>4. Pending' = << >>
  BY <1>1, <1>3 DEF Pending, Unread, ReadCapacity
<1>5. Types'
  BY <1>1, EmptySeq DEF IInv, Types, Idle
<1>6. BufferFits'
  BY <1>1, <1>2 DEF IInv, BufferFits, InMetadata, BufferOf, Unread, ReadCapacity
<1>7. Phases' /\ NoRecordYet' /\ SilenceShared' /\ InOrder'
  BY <1>1, <1>2 DEF IInv, Phases, NoRecordYet, SilenceShared, InOrder, InStart, InMetadata, Polling
<1>8. Unbroken'
  BY <1>1, <1>4, NothingPending
<1> QED
  BY <1>5, <1>6, <1>7, <1>8 DEF IInv

\* Start has read the prelude; the buffer has room for the metadata.
LEMMA StartPreludeStep == IInv /\ StartPrelude => IInv'
<1> SUFFICES ASSUME IInv, StartPrelude PROVE IInv'
  OBVIOUS
<1> DEFINE one == SubSeq(wire, 1, 1)
           c == Consume(Fill(buf, one), 1)
<1>1. /\ call.op = "prelude" /\ Len(wire) >= 1 /\ buf' = Reserve(c, MetadataLen)
      /\ wire' = SubSeq(wire, 2, Len(wire)) /\ call' = [call EXCEPT !.op = "metadata"]
      /\ UNCHANGED <<conn, started, gw, sent, silence, gw_silence, delivered>>
  BY DEF StartPrelude, ReserveForMetadata, CanReadExact, connVars, clockVars
<1>2. ~started /\ buf.wr <= AuthLen
  <2>1. wire # << >>
    BY <1>1
  <2> QED
    BY <1>1, <2>1 DEF IInv, Phases, InStart, InMetadata, BufferFits
<1>3. /\ Pending = wire /\ wire \in Seq(Piece) /\ buf.rd = buf.wr
      /\ BufferOf(buf, Piece) /\ buf.cap >= SmallestSize
  BY <1>2, BeforeStart
<1>4. MetadataLen \in Nat /\ MetadataLen >= 1 /\ AuthLen + 1 <= SmallestSize
      /\ AuthLen \in Nat /\ SmallestSize \in Nat /\ buf.wr \in Nat /\ buf.cap \in Nat
  BY <1>3, SessionAssumption, SmallestSizeFacts DEF BufferOf
<1>5. one \in Seq(Piece) /\ Len(one) = 1 /\ Len(one) <= WriteCapacity(buf)
  <2>1. one \in Seq(Piece) /\ Len(one) = 1
    BY <1>1, <1>3
  <2> QED
    BY <1>2, <1>3, <1>4, <2>1 DEF WriteCapacity
<1> HIDE DEF one
<1>6. /\ BufferOf(c, Piece) /\ c.cap = buf.cap /\ c.rd = c.wr /\ c.wr = buf.wr + 1
      /\ Unread(c) = << >>
  <2>1. c = Consume(Fill(buf, one), Len(one)) /\ Len(one) = 1
    BY <1>5
  <2> HIDE DEF c
  <2> QED
    BY <1>3, <1>5, <2>1, FillConsume
<1> HIDE DEF c
<1>7. /\ BufferOf(buf', Piece) /\ buf'.cap >= SmallestSize /\ buf'.rd = buf'.wr
      /\ buf'.wr <= AuthLen + 1 /\ Unread(buf') = << >>
      /\ \/ MetadataLen <= buf'.cap - buf'.wr
         \/ MetadataLen <= buf'.cap /\ buf'.cap < AuthLen + 1 + MetadataLen
  <2>1. CASE MetadataLen <= c.cap
    <3>1. buf' = c
      BY <1>1, <2>1 DEF Reserve
    <3> QED
      BY <1>2, <1>3, <1>4, <1>6, <2>1, <3>1 DEF BufferOf
  <2>2. CASE ~(MetadataLen <= c.cap)
    <3>1. BufferOf(buf', Piece) /\ buf'.cap = MetadataLen /\ Unread(buf') = << >>
      BY <1>1, <1>4, <1>6, <2>2, ReserveLemma
    <3>2. buf'.rd = 0 /\ buf'.wr = 0
      BY <1>1, <1>6, <2>2 DEF Reserve, ReadCapacity, BufferOf
    <3> QED
      BY <1>3, <1>4, <1>6, <2>2, <3>1, <3>2 DEF BufferOf
  <2> QED
    BY <2>1, <2>2
<1>8. call'.op = "metadata" /\ call' \in [op : {"metadata"}, timeout : Nat]
  BY <1>1 DEF IInv, Types
<1>9. /\ wire' \in Seq(Piece) /\ Chain(wire') /\ Len(wire') = Len(wire) - 1
      /\ 1 < Len(wire) => wire' # << >> /\ wire'[1] = wire[2] /\ wire'[Len(wire')] = wire[Len(wire)]
      /\ 1 = Len(wire) => wire' = << >>
  <2>1. Chain(wire) /\ 1 \in 0..Len(wire) /\ 1 + 1 = 2
    BY <1>1, <1>3 DEF IInv, Unbroken
  <2>2. wire' = SubSeq(wire, 1 + 1, Len(wire))
    BY <1>1
  <2> QED
    BY <1>3, <2>1, <2>2, ChainDrop
<1>10. Pending' = wire'
  <2>1. << >> \o wire' = wire'
    BY <1>9
  <2> QED
    BY <1>6, <1>7, <2>1 DEF Pending, Unread, ReadCapacity
<1>11. Types'
  BY <1>1, <1>8, <1>9 DEF IInv, Types
<1>12. BufferFits'
  <2>1. << >> \in Seq(Piece)
    BY EmptySeq
  <2> QED
    BY <1>7, <1>8, <2>1 DEF BufferFits, InMetadata, BufferOf, Unread, ReadCapacity
<1>13. Phases' /\ NoRecordYet' /\ SilenceShared' /\ InOrder'
  <2>1. gw \notin {"authenticated", "unauthenticated"}
    BY <1>1 DEF IInv, Phases
  <2> QED
    BY <1>1, <1>2, <1>8, <2>1
    DEF IInv, Phases, NoRecordYet, SilenceShared, InOrder, InStart, InMetadata, Polling
<1>14. Unbroken'
  <2>1. wire # << >> /\ wire[1] = Header(1)
    <3>1. wire # << >>
      BY <1>1
    <3> QED
      BY <1>1, <1>2, <1>3, <3>1 DEF IInv, Unbroken, InMetadata
  <2>2. 1 < Len(wire) => wire[2] = Header(2)
    <3>1. 1 < Len(wire) => Follows(wire[1], wire[2])
      <4>1. 1 < Len(wire) => 1 \in 1..(Len(wire) - 1) /\ 1 + 1 = 2
        BY <1>3
      <4> QED
        BY <1>3, <4>1 DEF IInv, Unbroken, Chain
    <3>2. Header(1).off # Header(1).len /\ [Header(1) EXCEPT !.off = @ + 1] = Header(2)
      BY <1>4 DEF Header
    <3> QED
      BY <2>1, <3>1, <3>2 DEF Follows
  <2>3. Len(wire) \in Nat
    BY <1>3
  <2>4. wire' # << >> => 1 < Len(wire)
    BY <1>1, <1>9, <2>3
  <2>5. gw = "streaming" =>
          /\ 1 < Len(wire) /\ Len(wire') >= MetadataLen /\ wire[Len(wire)] = sent /\ sent \in Piece
    BY <1>1, <1>3, <1>4, <1>9, <2>1, <2>3 DEF IInv, Unbroken
  <2> QED
    BY <1>1, <1>2, <1>8, <1>9, <1>10, <2>2, <2>4, <2>5 DEF Unbroken, InMetadata, Header
<1> QED
  BY <1>11, <1>12, <1>13, <1>14 DEF IInv

\* Behind the header, the first record is the next thing to read.
LEMMA StartMetadataStep == IInv /\ StartMetadata => IInv'
<1> SUFFICES ASSUME IInv, StartMetadata PROVE IInv'
  OBVIOUS
<1> DEFINE all == SubSeq(wire, 1, MetadataLen)
           c == Consume(Fill(buf, all), MetadataLen)
<1>1. /\ call.op = "metadata" /\ Len(wire) >= MetadataLen /\ buf' = Shift(c)
      /\ wire' = SubSeq(wire, MetadataLen + 1, Len(wire)) /\ call' = Idle
      /\ started' = TRUE /\ silence' = 0
      /\ WriteCapacity(buf) >= MetadataLen
      /\ UNCHANGED <<conn, gw, sent, gw_silence, delivered>>
  BY DEF StartMetadata, CanReadExact
<1>2. ~started /\ buf.wr <= AuthLen + 1 /\ delivered = << >>
  BY <1>1 DEF IInv, Phases, InStart, InMetadata, BufferFits
<1>3. /\ Pending = wire /\ wire \in Seq(Piece) /\ buf.rd = buf.wr
      /\ BufferOf(buf, Piece) /\ buf.cap >= SmallestSize
  BY <1>2, BeforeStart
<1>4. MetadataLen \in Nat /\ MetadataLen >= 1 /\ AuthLen + 1 <= SmallestSize
      /\ AuthLen \in Nat /\ SmallestSize \in Nat /\ buf.wr \in Nat /\ buf.cap \in Nat
  BY <1>3, SessionAssumption, SmallestSizeFacts DEF BufferOf
<1>5. all \in Seq(Piece) /\ Len(all) = MetadataLen /\ Len(all) <= WriteCapacity(buf)
  <2>1. all \in Seq(Piece) /\ Len(all) = MetadataLen
    BY <1>1, <1>3, <1>4
  <2> QED
    BY <1>1, <1>3, <1>4, <2>1 DEF WriteCapacity
<1> HIDE DEF all
<1>6. /\ BufferOf(c, Piece) /\ c.cap = buf.cap /\ c.rd = c.wr /\ Unread(c) = << >>
  BY <1>3, <1>5, FillConsume
<1> HIDE DEF c
<1>7. BufferOf(buf', Piece) /\ buf'.cap >= SmallestSize /\ Unread(buf') = << >>
  BY <1>1, <1>3, <1>6, ShiftLemma
<1>8. Chain(wire) /\ MetadataLen \in 0..Len(wire) /\ Len(wire) \in Nat
  BY <1>1, <1>3, <1>4 DEF IInv, Unbroken
<1>9. /\ wire' \in Seq(Piece) /\ Chain(wire') /\ Len(wire') = Len(wire) - MetadataLen
      /\ MetadataLen < Len(wire) => /\ wire' # << >> /\ wire'[1] = wire[MetadataLen + 1]
                                    /\ wire'[Len(wire')] = wire[Len(wire)]
      /\ MetadataLen = Len(wire) => wire' = << >>
  BY <1>1, <1>3, <1>8, ChainDrop
<1>10. Pending' = wire'
  <2>1. << >> \o wire' = wire'
    BY <1>9
  <2> QED
    BY <1>7, <2>1 DEF Pending, Unread, ReadCapacity
<1>11. /\ wire[MetadataLen].off = wire[MetadataLen].len /\ wire[MetadataLen].rec = 0
       /\ MetadataLen < Len(wire) => /\ wire[MetadataLen + 1].off = 1
                                     /\ wire[MetadataLen + 1].rec = 1
  <2>1. wire # << >> /\ wire[1] = Header(2)
    <3>1. wire # << >>
      BY <1>1, <1>4
    <3> QED
      BY <1>1, <1>2, <1>3, <3>1 DEF IInv, Unbroken, InMetadata
  <2> DEFINE k == MetadataLen - 1
  <2>2. wire[1].off = 2 /\ wire[1].len = MetadataLen + 1 /\ wire[1].rec = 0
    BY <2>1 DEF Header
  <2>3. k \in Nat /\ k = wire[1].len - wire[1].off /\ k < Len(wire)
    BY <1>1, <1>4, <1>8, <2>2
  <2>4. k + 1 = MetadataLen /\ k + 2 = MetadataLen + 1
    BY <1>4
  <2> HIDE DEF k
  <2>5. /\ wire[k + 1].off = wire[k + 1].len /\ wire[k + 1].rec = wire[1].rec
        /\ k + 1 < Len(wire) => wire[k + 2].off = 1 /\ wire[k + 2].rec = wire[1].rec + 1
    BY <1>3, <1>8, <2>1, <2>3, RecordRun
  <2> QED
    BY <2>2, <2>4, <2>5
<1>12. Types'
  BY <1>1, <1>9 DEF IInv, Types, Idle
<1>13. BufferFits'
  <2>1. << >> \in Seq(Piece)
    BY EmptySeq
  <2> QED
    BY <1>1, <1>7, <2>1 DEF BufferFits, BufferOf, Unread, ReadCapacity
<1>14. Phases' /\ NoRecordYet' /\ SilenceShared' /\ InOrder'
  <2>1. gw \notin {"authenticated", "unauthenticated"}
    BY <1>1, <1>4 DEF IInv, Phases
  <2>2. gw_silence \in Nat
    BY DEF IInv, Types
  <2> QED
    BY <1>1, <2>1, <2>2
    DEF IInv, Phases, NoRecordYet, SilenceShared, InOrder, InStart, InMetadata, Polling, Idle
<1>15. Unbroken'
  <2>1. Len(delivered') = 0
    BY <1>1, <1>2
  <2>2. wire' # << >> <=> MetadataLen < Len(wire)
    BY <1>8, <1>9
  <2>3. gw = "streaming" => wire[Len(wire)] = sent /\ sent \in Piece
    <3>1. wire # << >>
      BY <1>1, <1>4
    <3> QED
      BY <1>3, <3>1 DEF IInv, Unbroken
  <2>4. ~(MetadataLen < Len(wire)) => MetadataLen = Len(wire)
    BY <1>1, <1>4, <1>8
  <2>5. call'.op = "none"
    BY <1>1 DEF Idle
  <2>6. wire' # << >> => wire'[1].off = 1 /\ wire'[1].rec = Len(delivered') + 1
    BY <1>9, <1>11, <2>1, <2>2
  <2>7. gw = "streaming" =>
          /\ wire' # << >> => wire'[Len(wire')] = sent
          /\ wire' = << >> => sent.off = sent.len /\ sent.rec = Len(delivered')
    BY <1>9, <1>11, <2>1, <2>2, <2>3, <2>4
  <2> QED
    BY <1>1, <1>9, <1>10, <2>3, <2>5, <2>6, <2>7 DEF Unbroken, InMetadata
<1> QED
  BY <1>12, <1>13, <1>14, <1>15 DEF IInv

\* Past the end of the buffer the session does not go on.
LEMMA StartOverrunsStep == IInv /\ StartOverruns => IInv'
<1> SUFFICES ASSUME IInv, StartOverruns PROVE IInv'
  OBVIOUS
<1>1. /\ call.op = "metadata" /\ call' = [call EXCEPT !.op = "overrun"]
      /\ UNCHANGED <<conn, started, gw, sent, buf, silence, gw_silence, wire, delivered>>
  BY DEF StartOverruns, connVars, clockVars
<1>2. call'.op = "overrun" /\ call' \in [op : {"overrun"}, timeout : Nat]
  BY <1>1 DEF IInv, Types
<1>3. Types'
  BY <1>1, <1>2 DEF IInv, Types
<1>4. BufferFits'
  BY <1>1, <1>2 DEF IInv, BufferFits, InMetadata, BufferOf, Unread, ReadCapacity
<1>5. Phases' /\ NoRecordYet' /\ SilenceShared' /\ InOrder'
  BY <1>1, <1>2
  DEF IInv, Phases, NoRecordYet, SilenceShared, InOrder, InStart, InMetadata, Polling
<1>6. Pending' = Pending
  BY <1>1 DEF Pending, Unread, ReadCapacity
<1>7. Unbroken'
  BY <1>1, <1>2, <1>6 DEF IInv, Unbroken, InMetadata, Header
<1> QED
  BY <1>3, <1>4, <1>5, <1>7 DEF IInv

\* Stop drops what has not been read.
LEMMA StopStep == IInv /\ Stop => IInv'
<1> SUFFICES ASSUME IInv, Stop PROVE IInv'
  OBVIOUS
<1>1. /\ call = Idle /\ conn' = "closed" /\ gw' = "closed" /\ wire' = << >>
      /\ UNCHANGED <<started, sent, buf, silence, gw_silence, call, delivered>>
  BY DEF Stop, Stopped, clockVars
<1>2. call.op = "none"
  BY <1>1 DEF Idle
<1>3. /\ Unread(buf) \in Seq(Piece) /\ wire \in Seq(Piece)
  BY DEF IInv, BufferFits, Types
<1>4. Pending' = Unread(buf)
  <2>1. Unread(buf) \o << >> = Unread(buf)
    BY <1>3
  <2> QED
    BY <1>1, <2>1 DEF Pending, Unread, ReadCapacity
<1>5. Chain(Unread(buf)) /\ (Unread(buf) # << >> => Pending # << >> /\ Pending[1] = Unread(buf)[1])
  BY <1>3, ChainPrefix DEF IInv, Unbroken, Pending
<1>6. Types'
  BY <1>1, EmptySeq DEF IInv, Types
<1>7. BufferFits'
  BY <1>1, <1>2 DEF IInv, BufferFits, InMetadata, BufferOf, Unread, ReadCapacity
<1>8. Phases' /\ NoRecordYet' /\ SilenceShared' /\ InOrder'
  BY <1>1, <1>2 DEF IInv, Phases, NoRecordYet, SilenceShared, InOrder, InStart, InMetadata, Polling
<1>9. Unbroken'
  BY <1>1, <1>2, <1>4, <1>5 DEF IInv, Unbroken, InMetadata, Header
<1> QED
  BY <1>6, <1>7, <1>8, <1>9 DEF IInv

\* The authentication response passes through the buffer and leaves nothing unread.
LEMMA AfterAuthLemma ==
  ASSUME NEW b, BufferOf(b, Piece), b.cap >= SmallestSize
  PROVE  LET c == AfterAuth(b)
         IN  /\ BufferOf(c, Piece) /\ c.cap >= SmallestSize /\ c.rd = c.wr /\ c.wr = AuthLen
             /\ Unread(c) = << >>
<1> DEFINE S == Cell(Piece)
           answer == [i \in 1..AuthLen |-> Uninit]
           d == Clear(b)
           c == Consume(Fill(d, answer), Len(answer))
<1>1. AuthLen \in Nat /\ SmallestSize \in Nat /\ AuthLen <= SmallestSize
  BY SessionAssumption, SmallestSizeFacts
<1>2. answer \in Seq(S) /\ Len(answer) = AuthLen
  <2>1. answer \in [1..AuthLen -> S]
    BY DEF Cell
  <2> HIDE DEF S, answer
  <2> QED
    BY <1>1, <2>1, FunctionSeq
<1>3. Cell(S) = Cell(Piece)
  BY DEF Cell
<1>4. BufferOf(b, S)
  BY <1>3 DEF BufferOf
<1> HIDE DEF S
<1>5. BufferOf(d, S) /\ d.cap >= SmallestSize /\ d.rd = 0 /\ d.wr = 0
  <2>1. d.rd = 0 /\ d.wr = 0
    BY DEF Clear
  <2> QED
    BY <1>4, <2>1, ClearLemma
<1> HIDE DEF d
<1>6. Len(answer) <= WriteCapacity(d)
  BY <1>1, <1>2, <1>5 DEF WriteCapacity, BufferOf
<1> HIDE DEF answer
<1>7. /\ BufferOf(c, S) /\ c.cap = d.cap /\ c.rd = c.wr /\ c.wr = d.wr + Len(answer)
      /\ Unread(c) = << >>
  BY <1>2, <1>5, <1>6, FillConsume
<1>8. AfterAuth(b) = c
  BY <1>2 DEF AfterAuth, answer, d
<1> HIDE DEF c
<1>9. BufferOf(c, Piece)
  BY <1>3, <1>7 DEF BufferOf
<1> QED
  BY <1>1, <1>2, <1>5, <1>7, <1>8, <1>9

\* A new connection starts from an empty buffer, an empty wire and no record.
LEMMA FreshConnection ==
  ASSUME BufferOf(buf', Piece), buf'.cap >= SmallestSize, buf'.rd = buf'.wr, buf'.wr <= AuthLen,
         Unread(buf') = << >>, wire' = << >>, delivered' = << >>, started' = FALSE,
         gw' \in {"authenticated", "unauthenticated"}, call' = Idle,
         silence' \in Nat, gw_silence' \in Nat
  PROVE  IInv'
<1>1. call'.op = "none"
  BY DEF Idle
<1>2. Types'
  BY EmptySeq DEF Types, Idle
<1>3. BufferFits'
  <2>1. buf'.wr <= AuthLen + 1
    BY SessionAssumption DEF BufferOf
  <2> QED
    BY <1>1, <2>1, EmptySeq DEF BufferFits, InMetadata, BufferOf, Unread, ReadCapacity
<1>4. Phases' /\ NoRecordYet' /\ SilenceShared' /\ InOrder'
  BY <1>1 DEF Phases, NoRecordYet, SilenceShared, InOrder, InStart, InMetadata, Polling
<1>5. Pending' = << >>
  BY DEF Pending, Unread, ReadCapacity
<1>6. Unbroken'
  BY <1>5, NothingPending
<1> QED
  BY <1>2, <1>3, <1>4, <1>6 DEF IInv

\* Reconnect begins a new stream with an empty buffer, or fails and changes nothing.
LEMMA ReconnectStep == IInv /\ Reconnect => IInv'
<1> SUFFICES ASSUME IInv, Reconnect PROVE IInv'
  OBVIOUS
<1>1. CASE ReconnectFailed /\ UNCHANGED streamVars
  BY <1>1, StreamAlone DEF ReconnectFailed
<1>2. BufferOf(buf, Piece) /\ buf.cap >= SmallestSize /\ silence \in Nat
  BY DEF IInv, BufferFits, Types
<1> DEFINE Fresh == /\ wire' = << >> /\ gw_silence' = 0 /\ started' = FALSE
                    /\ delivered' = << >> /\ call' = Idle
<1>3. CASE Reconnected("authenticated") /\ buf' = AfterAuth(buf) /\ silence' = 0 /\ Fresh
  <2>1. /\ BufferOf(buf', Piece) /\ buf'.cap >= SmallestSize /\ buf'.rd = buf'.wr
        /\ buf'.wr = AuthLen /\ Unread(buf') = << >>
    BY <1>2, <1>3, AfterAuthLemma
  <2>2. buf'.wr <= AuthLen
    BY <2>1, SessionAssumption
  <2> QED
    BY <1>3, <2>1, <2>2, FreshConnection DEF Reconnected
<1>4. CASE Reconnected("unauthenticated") /\ buf' = Clear(buf) /\ silence' = silence /\ Fresh
  <2>1. /\ BufferOf(buf', Piece) /\ buf'.cap >= SmallestSize /\ Unread(buf') = << >>
    BY <1>2, <1>4, ClearLemma
  <2>2. buf'.rd = 0 /\ buf'.wr = 0
    BY <1>4 DEF Clear
  <2>3. buf'.rd = buf'.wr /\ buf'.wr <= AuthLen
    BY <2>2, SessionAssumption
  <2> QED
    BY <1>2, <1>4, <2>1, <2>3, FreshConnection DEF Reconnected
<1> QED
  BY <1>1, <1>3, <1>4 DEF Reconnect

\* After the constructor.
LEMMA InitIInv == Init => IInv
<1> SUFFICES ASSUME Init PROVE IInv
  OBVIOUS
<1>0. PICK n \in BufferSizes : buf = AfterAuth(NewBuffer(n))
  BY DEF Init
<1> DEFINE b == NewBuffer(n)
<1>1. /\ b.cap = n /\ b.rd = 0 /\ b.wr = 0
      /\ b.mem = [i \in 0..(n - 1) |-> Uninit]
      /\ b = [cap |-> b.cap, rd |-> b.rd, wr |-> b.wr, mem |-> b.mem]
  BY DEF NewBuffer
<1> HIDE DEF b
<1>2. BufferOf(b, Piece)
  BY <1>1, SessionAssumption DEF BufferOf, Cell
<1>3. /\ BufferOf(buf, Piece) /\ buf.cap >= SmallestSize /\ buf.rd = buf.wr
      /\ buf.wr = AuthLen /\ Unread(buf) = << >>
  <2>1. b.cap >= SmallestSize
    BY <1>1, SmallestSizeFacts
  <2> QED
    BY <1>0, <1>2, <2>1, AfterAuthLemma DEF b
<1>4. /\ wire = << >> /\ delivered = << >> /\ started = FALSE /\ gw = "authenticated"
      /\ call = Idle /\ call.op = "none" /\ silence = 0 /\ gw_silence = 0
  BY DEF Init, SubInit, Idle
<1>5. Types
  BY <1>4, EmptySeq DEF Types, Idle
<1>6. BufferFits
  <2>1. buf.wr <= AuthLen + 1 /\ buf.wr <= AuthLen
    BY <1>3, SessionAssumption
  <2> QED
    BY <1>3, <1>4, <2>1, EmptySeq DEF BufferFits, InMetadata
<1>7. Phases /\ NoRecordYet /\ SilenceShared /\ InOrder
  BY <1>4 DEF Phases, NoRecordYet, SilenceShared, InOrder, InStart, InMetadata, Polling
<1>8. Pending = << >>
  BY <1>3, <1>4 DEF Pending
<1>9. Unbroken
  BY <1>4, <1>8 DEF Unbroken, Chain
<1> QED
  BY <1>5, <1>6, <1>7, <1>9 DEF IInv
-----------------------------------------------------------------------------
(* Taking records.                                                         *)

\* Returning the record at the front of b, a buffer that continues with the wire.
LEMMA RecordReturned ==
  ASSUME IInv, started, NEW b, BufferOf(b, Piece), b.cap >= SmallestSize, Unread(b) \in Seq(Piece),
         ReadCapacity(b) > 0, ReadCapacity(b) >= RecordSize(b), wire' \in Seq(Piece),
         Unread(b) \o wire' = Pending, ReturnRecord(b), UNCHANGED <<started, gw, sent>>
  PROVE  /\ BufferFits' /\ Unbroken' /\ InOrder' /\ delivered' \in Seq(Nat) /\ call' = Idle
         /\ call'.op = "none"
<1> DEFINE u == Unread(b)
           n == RecordSize(b)
           d == Len(delivered)
<1>1. /\ buf' = Consume(b, n) /\ delivered' = Append(delivered, b.mem[b.rd].rec) /\ call' = Idle
  BY DEF ReturnRecord
<1>2. /\ u # << >> /\ u[1] = b.mem[b.rd] /\ u[1] \in Piece /\ n = u[1].len
  BY FirstUnread
<1>3. /\ Pending \in Seq(Piece) /\ Chain(Pending) /\ Pending # << >> /\ Pending[1] = u[1]
      /\ Len(Pending) = Len(u) + Len(wire') /\ Len(u) \in Nat /\ Len(wire') \in Nat
  <2>1. /\ u \o wire' \in Seq(Piece) /\ Len(u \o wire') = Len(u) + Len(wire')
        /\ \A i \in 1..Len(u) : (u \o wire')[i] = u[i]
    BY ConcatParts
  <2>2. Chain(Pending)
    BY DEF IInv, Unbroken
  <2>3. Len(u) \in Nat /\ Len(wire') \in Nat /\ Len(u) # 0
    BY <1>2, EmptySeq
  <2>4. 1 \in 1..Len(u)
    BY <2>3
  <2> QED
    BY <1>2, <2>1, <2>2, <2>3, <2>4, ChainPrefix
<1>4. Len(u) = ReadCapacity(b)
  BY UnreadSeq DEF ReadCapacity
<1>5. /\ u[1].off = 1 /\ u[1].rec = d + 1 /\ n \in Nat /\ n >= 1 /\ d \in Nat
      /\ delivered \in Seq(Nat)
  <2>1. u[1].off = 1 /\ u[1].rec = d + 1 /\ delivered \in Seq(Nat)
    BY <1>3 DEF IInv, Unbroken, Types
  <2>2. \A p \in Piece : p.len \in Nat /\ p.off <= p.len
    BY DEF Piece
  <2>3. n \in Nat /\ u[1].off <= n
    BY <1>2, <2>2
  <2> QED
    BY <2>1, <2>3
<1>6. n <= Len(u) /\ n <= ReadCapacity(b)
  BY <1>4, <1>5 DEF BufferOf, ReadCapacity
<1> HIDE DEF u, n
<1>7. /\ BufferOf(buf', Piece) /\ buf'.cap >= SmallestSize
      /\ Unread(buf') = SubSeq(u, n + 1, Len(u))
  BY <1>1, <1>5, <1>6, ConsumeLemma DEF u
<1>8. u \in Seq(Piece) /\ n \in 0..Len(u) /\ n \in 0..Len(Pending) /\ Pending = u \o wire'
  BY <1>3, <1>5, <1>6 DEF u
<1>9. Unread(buf') \in Seq(Piece)
  BY <1>7, <1>8, TakeDrop
<1>10. Pending' = SubSeq(Pending, n + 1, Len(Pending))
  <2>1. Pending' = Unread(buf') \o wire'
    BY DEF Pending, Unread, ReadCapacity
  <2> QED
    BY <1>7, <1>8, <2>1, DropConcat
<1>11. /\ Chain(Pending')
       /\ n < Len(Pending) => /\ Pending' # << >> /\ Pending'[1] = Pending[n + 1]
                              /\ Pending'[Len(Pending')] = Pending[Len(Pending)]
       /\ n = Len(Pending) => Pending' = << >>
  BY <1>3, <1>8, <1>10, ChainDrop
<1>12. /\ Pending[n].off = Pending[n].len /\ Pending[n].rec = d + 1
       /\ n < Len(Pending) => Pending[n + 1].off = 1 /\ Pending[n + 1].rec = d + 2
  <2> DEFINE k == n - 1
  <2>1. k \in Nat /\ k + 1 = n /\ k + 2 = n + 1 /\ k = n - 1 /\ k < Len(Pending)
        /\ (d + 1) + 1 = d + 2
    <3> HIDE DEF d
    <3>1. n <= Len(Pending) /\ Len(Pending) \in Nat
      BY <1>8
    <3> QED
      BY <1>5, <3>1
  <2> HIDE DEF k
  <2>2. k = Pending[1].len - Pending[1].off
    BY <1>2, <1>3, <1>5, <2>1
  <2>3. /\ Pending[k + 1].off = Pending[k + 1].len /\ Pending[k + 1].rec = Pending[1].rec
        /\ k + 1 < Len(Pending) =>
             Pending[k + 2].off = 1 /\ Pending[k + 2].rec = Pending[1].rec + 1
    BY <1>3, <2>1, <2>2, RecordRun
  <2> QED
    BY <1>3, <1>5, <2>1, <2>3
<1>13. /\ delivered' = Append(delivered, d + 1) /\ delivered' \in Seq(Nat) /\ Len(delivered') = d + 1
       /\ delivered'[d + 1] = d + 1 /\ \A i \in 1..d : delivered'[i] = delivered[i]
  <2>1. delivered' = Append(delivered, d + 1) /\ d + 1 \in Nat
    BY <1>1, <1>2, <1>5
  <2> QED
    BY <1>5, <2>1, AppendProperties
<1>14. InOrder'
  <2> SUFFICES ASSUME NEW i \in 1..Len(delivered') PROVE delivered'[i] = i
    BY DEF InOrder
  <2>1. i \in 1..d \/ i = d + 1
    BY <1>5, <1>13
  <2> QED
    BY <1>13, <2>1 DEF IInv, InOrder
<1>15. BufferFits'
  BY <1>7, <1>9 DEF BufferFits, BufferOf, Unread, ReadCapacity
<1>16. Unbroken'
  <2>1. n < Len(Pending) \/ n = Len(Pending)
    BY <1>3, <1>8
  <2>2. Pending' # << >> <=> n < Len(Pending)
    BY <1>3, <1>5, <1>11, <2>1
  <2>3. call'.op = "none" /\ (d + 1) + 1 = d + 2
    BY <1>1, <1>5 DEF Idle
  <2>4. Pending' # << >> => Pending'[1].off = 1 /\ Pending'[1].rec = Len(delivered') + 1
    BY <1>11, <1>12, <1>13, <2>2, <2>3
  <2>5. gw = "streaming" => sent \in Piece /\ Pending[Len(Pending)] = sent
    BY <1>3 DEF IInv, Unbroken
  <2>6. gw = "streaming" =>
          /\ Pending' # << >> => Pending'[Len(Pending')] = sent
          /\ Pending' = << >> => sent.off = sent.len /\ sent.rec = Len(delivered')
    BY <1>11, <1>12, <1>13, <2>1, <2>2, <2>5
  <2> QED
    BY <1>11, <2>3, <2>4, <2>5, <2>6 DEF Unbroken, InMetadata
<1> QED
  BY <1>1, <1>13, <1>14, <1>15, <1>16 DEF Idle

\* What is unread decides whether there is a record.
LEMMA SameRecord ==
  ASSUME NEW b, BufferOf(b, Piece), NEW c, BufferOf(c, Piece), Unread(c) = Unread(b),
         Unread(b) \in Seq(Piece)
  PROVE  ReadCapacity(c) = ReadCapacity(b) /\ (HasRecord(c) <=> HasRecord(b))
<1>1. Len(Unread(b)) = ReadCapacity(b) /\ Len(Unread(c)) = ReadCapacity(c)
  BY UnreadSeq DEF ReadCapacity
<1>2. ReadCapacity(c) = ReadCapacity(b) /\ ReadCapacity(b) \in Nat
  BY <1>1 DEF BufferOf, ReadCapacity
<1>3. ReadCapacity(b) > 0 => RecordSize(b) = Unread(b)[1].len /\ RecordSize(c) = Unread(b)[1].len
  BY <1>2, FirstUnread
<1>4. ReadCapacity(b) >= HeaderLen => ReadCapacity(b) > 0
  BY <1>2, SessionAssumption
<1> QED
  BY <1>2, <1>3, <1>4 DEF HasRecord

\* A step of a started session that leaves the stream as it is.
LEMMA StreamKept ==
  ASSUME IInv, started, BufferOf(buf', Piece), buf'.cap >= SmallestSize, Unread(buf') = Unread(buf),
         UNCHANGED <<conn, started, gw, sent, wire, silence, gw_silence, delivered>>,
         call' \in [op : Polling \cup {"none"}, timeout : Nat],
         call'.op \in Polling \ {"fill"} => ~HasRecord(buf)
  PROVE  IInv'
<1>1. call'.op \notin {"prelude", "metadata", "overrun"} /\ call'.op \in Polling \cup {"none"}
  BY DEF Polling
<1>2. BufferOf(buf, Piece) /\ Unread(buf) \in Seq(Piece)
  BY DEF IInv, BufferFits
<1>3. HasRecord(buf') <=> HasRecord(buf)
  BY <1>2, SameRecord
<1>4. Types'
  BY DEF IInv, Types
<1>5. BufferFits'
  BY <1>2 DEF BufferFits, BufferOf, Unread, ReadCapacity
<1>6. Phases' /\ SilenceShared'
  BY <1>1 DEF IInv, Phases, SilenceShared, InStart, InMetadata
<1>7. NoRecordYet'
  BY <1>3 DEF NoRecordYet, HasRecord, ReadCapacity, RecordSize
<1>8. Unread(buf') \o wire' = Pending
  BY DEF Pending
<1>9. Unbroken' /\ InOrder'
  BY <1>1, <1>8, PendingKept
<1> QED
  BY <1>4, <1>5, <1>6, <1>7, <1>9 DEF IInv

\* A step that returns the first unread record of a started session.
LEMMA RecordStep ==
  ASSUME IInv, started, HasRecord(buf), ReturnRecord(buf),
         UNCHANGED <<conn, started, gw, sent, wire, silence, gw_silence>>
  PROVE  IInv'
<1>1. /\ BufferOf(buf, Piece) /\ buf.cap >= SmallestSize /\ Unread(buf) \in Seq(Piece)
      /\ wire' \in Seq(Piece) /\ Unread(buf) \o wire' = Pending
  BY DEF IInv, BufferFits, Types, Pending
<1>2. ReadCapacity(buf) > 0 /\ ReadCapacity(buf) >= RecordSize(buf)
  BY <1>1, SessionAssumption DEF HasRecord, ReadCapacity, BufferOf
<1>3. /\ BufferFits' /\ Unbroken' /\ InOrder' /\ delivered' \in Seq(Nat) /\ call' = Idle
      /\ call'.op = "none"
  BY <1>1, <1>2, RecordReturned
<1>4. Types'
  BY <1>3 DEF IInv, Types, Idle
<1>5. Phases' /\ NoRecordYet' /\ SilenceShared'
  BY <1>3 DEF IInv, Phases, NoRecordYet, SilenceShared, InStart, InMetadata, Polling
<1> QED
  BY <1>3, <1>4, <1>5 DEF IInv

\* NextRecord returns a buffered record, or begins to poll without one.
LEMMA NextRecordStep ==
  ASSUME IInv, NEW op \in {"header", "header_forever"}, NEW t \in Nat, NextRecord(op, t)
  PROVE  IInv'
<1>1. /\ started
      /\ UNCHANGED <<conn, started, gw, sent, wire, silence, gw_silence>>
  BY DEF NextRecord, connVars
<1>2. CASE HasRecord(buf) /\ ReturnRecord(buf)
  BY <1>1, <1>2, RecordStep
<1>3. CASE /\ ~HasRecord(buf) /\ UNCHANGED <<buf, delivered>>
           /\ call' = [op |-> IF ReadCapacity(buf) < HeaderLen THEN op
                              ELSE IF op = "header" THEN "body" ELSE "body_forever",
                       timeout |-> t]
  <2>1. call' \in [op : Polling \cup {"none"}, timeout : Nat]
    BY <1>3 DEF Polling
  <2>2. BufferOf(buf', Piece) /\ buf'.cap >= SmallestSize /\ Unread(buf') = Unread(buf)
    BY <1>3 DEF IInv, BufferFits
  <2> QED
    BY <1>1, <1>3, <2>1, <2>2, StreamKept
<1> QED
  BY <1>2, <1>3 DEF NextRecord

\* TryNextRecord returns a buffered record or nothing.
LEMMA TryNextRecordStep == IInv /\ TryNextRecord => IInv'
<1> SUFFICES ASSUME IInv, TryNextRecord PROVE IInv'
  OBVIOUS
<1>1. /\ started /\ call = Idle
      /\ UNCHANGED <<conn, started, gw, sent, wire, silence, gw_silence>>
  BY DEF TryNextRecord, connVars, clockVars
<1>2. CASE HasRecord(buf) /\ ReturnRecord(buf)
  BY <1>1, <1>2, RecordStep
<1>3. CASE ~HasRecord(buf) /\ UNCHANGED <<buf, delivered, call>>
  <2>1. call' \in [op : Polling \cup {"none"}, timeout : Nat]
    BY <1>1, <1>3 DEF Idle
  <2>2. BufferOf(buf', Piece) /\ buf'.cap >= SmallestSize /\ Unread(buf') = Unread(buf)
    BY <1>3 DEF IInv, BufferFits
  <2> QED
    BY <1>1, <1>3, <2>1, <2>2, StreamKept
<1> QED
  BY <1>2, <1>3 DEF TryNextRecord

\* FillBuffer begins to poll.
LEMMA FillBufferStep ==
  ASSUME IInv, NEW t \in Nat, FillBufferCall(t)
  PROVE  IInv'
<1>1. /\ started /\ call' = [op |-> "fill", timeout |-> t]
      /\ UNCHANGED <<conn, started, gw, sent, wire, silence, gw_silence, buf, delivered>>
  BY DEF FillBufferCall, connVars
<1>2. call' \in [op : Polling \cup {"none"}, timeout : Nat] /\ call'.op = "fill"
  BY <1>1 DEF Polling
<1>3. BufferOf(buf', Piece) /\ buf'.cap >= SmallestSize /\ Unread(buf') = Unread(buf)
  BY <1>1 DEF IInv, BufferFits
<1> QED
  BY <1>1, <1>2, <1>3, StreamKept

\* FillBuffer's ShiftForSpace loses nothing, and leaves no room only in a buffer that
\* holds a whole record.
LEMMA ShiftedLemma ==
  ASSUME IInv
  PROVE  /\ BufferOf(Shifted, Piece) /\ Shifted.cap >= SmallestSize
         /\ Unread(Shifted) = Unread(buf) /\ WriteCapacity(Shifted) \in Nat
         /\ ReadCapacity(buf) \in Nat
         /\ WriteCapacity(Shifted) = 0 => ReadCapacity(buf) >= MaxRecordLen
<1>1. BufferOf(buf, Piece) /\ buf.cap >= SmallestSize
  BY DEF IInv, BufferFits
<1>2. MaxRecordLen \in Nat /\ SmallestSize \in Nat /\ MaxRecordLen <= SmallestSize
  BY SessionAssumption, SmallestSizeFacts
<1>3. /\ BufferOf(Shifted, Piece) /\ Shifted.cap = buf.cap /\ Unread(Shifted) = Unread(buf)
      /\ MaxRecordLen <= buf.cap - ReadCapacity(buf) => WriteCapacity(Shifted) >= MaxRecordLen
      /\ MaxRecordLen > buf.cap - ReadCapacity(buf)
           => WriteCapacity(Shifted) = buf.cap - ReadCapacity(buf)
  BY <1>1, <1>2, ShiftForSpaceLemma DEF Shifted
<1>4. WriteCapacity(Shifted) \in Nat /\ ReadCapacity(buf) \in Nat /\ buf.cap \in Nat
  BY <1>1, <1>3 DEF BufferOf, WriteCapacity, ReadCapacity
<1>5. WriteCapacity(Shifted) = 0 => ReadCapacity(buf) >= MaxRecordLen
  <2>1. CASE MaxRecordLen <= buf.cap - ReadCapacity(buf)
    BY <1>1, <1>2, <1>3, <1>4, <2>1
  <2>2. CASE MaxRecordLen > buf.cap - ReadCapacity(buf)
    BY <1>1, <1>2, <1>3, <1>4, <2>2
  <2> QED
    BY <1>1, <1>2, <1>4, <2>1, <2>2
<1> QED
  BY <1>1, <1>3, <1>4, <1>5

\* recv() returns 0: only the place of the unread bytes changes.
LEMMA ReadsNothingStep == IInv /\ ReadsNothing => IInv'
<1> SUFFICES ASSUME IInv, ReadsNothing PROVE IInv'
  OBVIOUS
<1>1. /\ call.op \in Polling /\ buf' = Shifted /\ call' = Idle
      /\ UNCHANGED <<conn, started, gw, sent, wire, silence, gw_silence, delivered>>
  BY DEF ReadsNothing, connVars, clockVars
<1>2. started
  BY <1>1 DEF IInv, Phases
<1>3. BufferOf(buf', Piece) /\ buf'.cap >= SmallestSize /\ Unread(buf') = Unread(buf)
  BY <1>1, ShiftedLemma
<1>4. call' \in [op : Polling \cup {"none"}, timeout : Nat] /\ call'.op \notin Polling
  BY <1>1 DEF Idle, Polling
<1> QED
  BY <1>1, <1>2, <1>3, <1>4, StreamKept

\* recv() fails: what had arrived is lost, and the gateway is gone.
LEMMA ReadFailsStep == IInv /\ ReadFails => IInv'
<1> SUFFICES ASSUME IInv, ReadFails PROVE IInv'
  OBVIOUS
<1>1. /\ call.op \in Polling /\ gw = "closed" /\ buf' = Shifted /\ call' = Idle /\ wire' = << >>
      /\ UNCHANGED <<conn, started, gw, sent, silence, gw_silence, delivered>>
  BY DEF ReadFails, connVars, clockVars
<1>2. started /\ call'.op = "none"
  BY <1>1 DEF IInv, Phases, Idle
<1>3. /\ Unread(buf) \in Seq(Piece) /\ wire \in Seq(Piece)
      /\ BufferOf(buf', Piece) /\ buf'.cap >= SmallestSize /\ Unread(buf') = Unread(buf)
  BY <1>1, ShiftedLemma DEF IInv, BufferFits, Types
<1>4. Pending' = Unread(buf)
  <2>1. Unread(buf) \o << >> = Unread(buf)
    BY <1>3
  <2> QED
    BY <1>1, <1>3, <2>1 DEF Pending, Unread, ReadCapacity
<1>5. Chain(Unread(buf)) /\ (Unread(buf) # << >> => Pending # << >> /\ Pending[1] = Unread(buf)[1])
  BY <1>3, ChainPrefix DEF IInv, Unbroken, Pending
<1>6. Types'
  BY <1>1, EmptySeq DEF IInv, Types, Idle
<1>7. BufferFits'
  BY <1>1, <1>2, <1>3 DEF BufferFits, BufferOf, Unread, ReadCapacity
<1>8. Phases' /\ NoRecordYet' /\ SilenceShared' /\ InOrder'
  BY <1>1, <1>2 DEF IInv, Phases, NoRecordYet, SilenceShared, InOrder, InStart, InMetadata, Polling
<1>9. Unbroken'
  BY <1>1, <1>2, <1>4, <1>5 DEF IInv, Unbroken, Header
<1> QED
  BY <1>6, <1>7, <1>8, <1>9 DEF IInv

\* poll() gives up in the middle of a record: its pieces stay.
LEMMA PollTimesOutStep == IInv /\ PollTimesOut => IInv'
<1> SUFFICES ASSUME IInv, PollTimesOut PROVE IInv'
  OBVIOUS
<1>1. /\ call.op \in Polling /\ buf' = Shifted
      /\ UNCHANGED <<conn, started, gw, sent, wire, silence, gw_silence, delivered>>
  BY DEF PollTimesOut, connVars, clockVars
<1>2. started /\ call \in [op : Polling \cup {"none", "prelude", "metadata", "overrun"}, timeout : Nat]
  BY <1>1 DEF IInv, Phases, Types
<1>3. BufferOf(buf', Piece) /\ buf'.cap >= SmallestSize /\ Unread(buf') = Unread(buf)
  BY <1>1, ShiftedLemma
<1>4. CASE call' = Idle
  <2>1. call' \in [op : Polling \cup {"none"}, timeout : Nat] /\ call'.op \notin Polling
    BY <1>4 DEF Idle, Polling
  <2> QED
    BY <1>1, <1>2, <1>3, <2>1, StreamKept
<1>5. CASE /\ Forever(call.op)
           /\ PollAgain(IF ReadCapacity(buf) < HeaderLen THEN "header_forever"
                                                         ELSE "body_forever")
  <2>1. call' \in [op : Polling \cup {"none"}, timeout : Nat]
    BY <1>2, <1>5 DEF PollAgain, Polling
  <2>2. ~HasRecord(buf)
    BY <1>5 DEF Forever, IInv, NoRecordYet, Polling
  <2> QED
    BY <1>1, <1>2, <1>3, <2>1, <2>2, StreamKept
<1> QED
  BY <1>4, <1>5 DEF PollTimesOut

\* What FillBuffer reads moves from the wire to the buffer.
LEMMA FilledLemma ==
  ASSUME IInv, NEW n, n = Available(Shifted), n > 0,
         NEW f, f = Fill(Shifted, SubSeq(wire, 1, n)),
         wire' = SubSeq(wire, n + 1, Len(wire))
  PROVE  /\ BufferOf(f, Piece) /\ f.cap >= SmallestSize /\ Unread(f) \in Seq(Piece)
         /\ ReadCapacity(f) > 0 /\ ReadCapacity(f) \in Nat
         /\ wire' \in Seq(Piece) /\ Unread(f) \o wire' = Pending /\ wire # << >>
<1>1. /\ BufferOf(Shifted, Piece) /\ Shifted.cap >= SmallestSize
      /\ Unread(Shifted) = Unread(buf) /\ WriteCapacity(Shifted) \in Nat
  BY ShiftedLemma
<1>2. wire \in Seq(Piece) /\ Unread(buf) \in Seq(Piece) /\ Len(wire) \in Nat
  BY DEF IInv, Types, BufferFits
<1>3. n \in 0..Len(wire) /\ n <= WriteCapacity(Shifted) /\ n \in Nat
  BY <1>1, <1>2 DEF Available
<1> DEFINE data == SubSeq(wire, 1, n)
<1>4. /\ data \in Seq(Piece) /\ Len(data) = n /\ wire' \in Seq(Piece)
      /\ \A i \in 1..n : data[i] = wire[i]
      /\ Len(wire') = Len(wire) - n /\ \A i \in 1..(Len(wire) - n) : wire'[i] = wire[n + i]
  BY <1>2, <1>3, TakeDrop
<1> HIDE DEF data
<1>5. BufferOf(f, Piece) /\ f.cap = Shifted.cap /\ Unread(f) = Unread(Shifted) \o data
  BY <1>1, <1>3, <1>4, FillLemma, ZenonT(60) DEF data
<1>6. Unread(f) \in Seq(Piece) /\ Len(Unread(f)) = Len(Unread(buf)) + n /\ Len(Unread(buf)) \in Nat
  <2>1. Unread(f) = Unread(buf) \o data /\ data \in Seq(Piece) /\ Unread(buf) \in Seq(Piece)
    BY <1>1, <1>2, <1>4, <1>5
  <2>2. Unread(buf) \o data \in Seq(Piece) /\ Len(Unread(buf) \o data) = Len(Unread(buf)) + Len(data)
    BY <2>1, ConcatParts
  <2>3. Len(Unread(buf)) \in Nat
    BY <2>1, LenProperties
  <2> QED
    BY <1>4, <2>1, <2>2, <2>3
<1>7. Len(Unread(f)) = ReadCapacity(f)
  BY <1>5, UnreadSeq DEF ReadCapacity
<1>8. ReadCapacity(f) > 0 /\ ReadCapacity(f) \in Nat
  BY <1>3, <1>6, <1>7
<1>9. wire # << >>
  BY <1>2, <1>3
<1>10. (Unread(buf) \o data) \o wire' = Unread(buf) \o wire
  <2> DEFINE u == Unread(buf)
             rest == SubSeq(wire, n + 1, Len(wire))
  <2>1. u \in Seq(Piece) /\ data \in Seq(Piece) /\ rest \in Seq(Piece)
    BY <1>2, <1>4
  <2>2. data \o rest = wire
    BY <1>2, <1>3, Rejoined DEF data
  <2> HIDE DEF u, rest
  <2>3. (u \o data) \o rest = u \o (data \o rest)
    <3>1. \A x, y, z \in Seq(Piece) : (x \o y) \o z = x \o (y \o z)
      BY ConcatAssociative, SMTT(30)
    <3> QED
      BY <2>1, <3>1, Zenon
  <2> QED
    BY <2>2, <2>3 DEF u, rest
<1> QED
  BY <1>1, <1>4, <1>5, <1>6, <1>8, <1>9, <1>10 DEF Pending

\* recv() returns some of what has arrived, and a record may be complete.
LEMMA ReadSomePreserves == IInv /\ ReadSome => IInv'
<1> SUFFICES ASSUME IInv, ReadSome PROVE IInv'
  OBVIOUS
<1> DEFINE n == Available(Shifted)
           f == Fill(Shifted, SubSeq(wire, 1, n))
<1>1. /\ call.op \in Polling /\ n > 0 /\ wire' = SubSeq(wire, n + 1, Len(wire)) /\ silence' = 0
      /\ UNCHANGED <<conn, started, gw, sent, gw_silence>>
  BY DEF ReadSome, connVars
<1>2. /\ started /\ call \in [op : Polling \cup {"none", "prelude", "metadata", "overrun"}, timeout : Nat]
      /\ gw_silence \in Nat /\ delivered \in Seq(Nat)
  BY <1>1 DEF IInv, Phases, Types
<1>3. /\ BufferOf(f, Piece) /\ f.cap >= SmallestSize /\ Unread(f) \in Seq(Piece)
      /\ ReadCapacity(f) > 0 /\ ReadCapacity(f) \in Nat
      /\ wire' \in Seq(Piece) /\ Unread(f) \o wire' = Pending /\ wire # << >>
  BY <1>1, FilledLemma
<1>4. \/ call.op # "fill" /\ ReadCapacity(f) >= RecordSize(f) /\ ReturnRecord(f)
      \/ /\ call.op # "fill" /\ ReadCapacity(f) < RecordSize(f) /\ buf' = f
         /\ PollAgain(IF Forever(call.op) THEN "body_forever" ELSE "body")
         /\ delivered' = delivered
      \/ buf' = f /\ call' = Idle /\ delivered' = delivered
  BY DEF ReadSome
<1> HIDE DEF n, f
<1>5. SilenceShared' /\ gw \notin {"authenticated", "unauthenticated"}
  BY <1>1, <1>2, <1>3 DEF SilenceShared, IInv, Phases
<1>6. CASE call.op # "fill" /\ ReadCapacity(f) >= RecordSize(f) /\ ReturnRecord(f)
  <2>1. /\ BufferFits' /\ Unbroken' /\ InOrder' /\ delivered' \in Seq(Nat) /\ call' = Idle
        /\ call'.op = "none"
    BY <1>1, <1>2, <1>3, <1>6, RecordReturned
  <2>2. Types'
    BY <1>1, <1>2, <1>3, <2>1 DEF IInv, Types, Idle
  <2>3. Phases' /\ NoRecordYet'
    BY <1>1, <1>2, <1>5, <2>1 DEF Phases, NoRecordYet, InStart, InMetadata, Polling
  <2> QED
    BY <1>5, <2>1, <2>2, <2>3 DEF IInv
<1>7. ASSUME buf' = f, delivered' = delivered,
             call' \in [op : Polling \cup {"none"}, timeout : Nat],
             call'.op \in Polling \ {"fill"} => ~HasRecord(f)
      PROVE  IInv'
  <2>1. call'.op \notin {"prelude", "metadata", "overrun"} /\ call'.op \in Polling \cup {"none"}
    BY <1>7 DEF Polling
  <2>2. Types'
    BY <1>1, <1>2, <1>3, <1>7 DEF IInv, Types
  <2>3. BufferFits'
    BY <1>1, <1>2, <1>3, <1>7 DEF BufferFits, BufferOf, Unread, ReadCapacity
  <2>4. Phases'
    BY <1>1, <1>2, <1>5, <2>1 DEF Phases, InStart, InMetadata
  <2>5. NoRecordYet'
    BY <1>7 DEF NoRecordYet, HasRecord, ReadCapacity, RecordSize
  <2>6. Unbroken' /\ InOrder'
    BY <1>1, <1>2, <1>3, <1>7, <2>1, PendingKept
  <2> QED
    BY <1>5, <2>2, <2>3, <2>4, <2>5, <2>6 DEF IInv
<1>8. CASE /\ call.op # "fill" /\ ReadCapacity(f) < RecordSize(f) /\ buf' = f
           /\ PollAgain(IF Forever(call.op) THEN "body_forever" ELSE "body")
           /\ delivered' = delivered
  <2>1. call' \in [op : Polling \cup {"none"}, timeout : Nat]
    BY <1>2, <1>8 DEF PollAgain, Polling
  <2>2. ~HasRecord(f)
    <3>1. RecordSize(f) \in Nat
      <4>1. \A p \in Piece : p.len \in Nat
        BY DEF Piece
      <4> QED
        BY <1>3, <4>1, FirstUnread
    <3> QED
      BY <1>3, <1>8, <3>1 DEF HasRecord
  <2> QED
    BY <1>7, <1>8, <2>1, <2>2
<1>9. CASE buf' = f /\ call' = Idle /\ delivered' = delivered
  <2>1. call' \in [op : Polling \cup {"none"}, timeout : Nat] /\ call'.op \notin Polling
    BY <1>9 DEF Idle, Polling
  <2> QED
    BY <1>7, <1>9, <2>1
<1> QED
  BY <1>4, <1>6, <1>8, <1>9
-----------------------------------------------------------------------------
(* The theorems.                                                           *)

\* The subscriptions leave the stream alone, and at worst find the connection lost.
LEMMA SubscriptionSteps ==
  ASSUME IInv,
         \/ GatewayCloses
         \/ \E syms \in SymbolLists, start \in Starts : SubscribeCall(syms, start)
         \/ ResubscribeCall
  PROVE  IInv'
<1>1. UNCHANGED streamVars /\ conn' = conn /\ gw' \in {gw, "closed"}
  BY DEF GatewayCloses, ConnectionLost, SubscribeCall, Subscribe, WriteAllMessages,
         WriteFails, Arrive, ResubscribeCall, Resubscribe
<1> QED
  BY <1>1, StreamAlone

\* Every step of a session keeps IInv.
LEMMA NextIInv == IInv /\ [Next]_vars => IInv'
<1> SUFFICES ASSUME IInv, [Next]_vars PROVE IInv'
  OBVIOUS
<1>1. CASE UNCHANGED vars
  BY <1>1, StreamAlone DEF vars, subVars
<1>2. CASE \E len \in RecordLens : GatewaySends(len)
  BY <1>2, GatewaySendsStep
<1>3. CASE \/ GatewayCloses
           \/ \E syms \in SymbolLists, start \in Starts : SubscribeCall(syms, start)
           \/ ResubscribeCall
  BY <1>3, SubscriptionSteps
<1>4. CASE Tick
  BY <1>4, TickStep
<1>5. CASE Start \/ StartPrelude \/ StartMetadata \/ StartOverruns \/ ReadExactFails
  BY <1>5, StartStep, StartPreludeStep, StartMetadataStep, StartOverrunsStep, ReadExactFailsStep
<1>6. CASE Stop \/ Reconnect
  BY <1>6, StopStep, ReconnectStep
<1>7. CASE \E t \in Timeouts : NextRecordTimeout(t)
  BY <1>7, NextRecordStep, SessionAssumption DEF NextRecordTimeout
<1>8. CASE \E t \in Timeouts \cup {HbTimeout} : FillBufferCall(t)
  BY <1>8, FillBufferStep, SessionAssumption
<1>9. CASE NextRecordForever
  BY <1>9, NextRecordStep, SessionAssumption DEF NextRecordForever
<1>10. CASE TryNextRecord
  BY <1>10, TryNextRecordStep
<1>11. CASE CallStep
  BY <1>11, ReadSomePreserves, ReadsNothingStep, ReadFailsStep, PollTimesOutStep DEF CallStep
<1> QED
  BY <1>1, <1>2, <1>3, <1>4, <1>5, <1>6, <1>7, <1>8, <1>9, <1>10, <1>11 DEF Next

\* What is unread and on the wire is one unbroken run of pieces from the first record not
\* returned, in every phase of a session.
THEOREM IInvHolds == Spec => []IInv
<1>1. Init => IInv
  BY InitIInv
<1>2. IInv /\ [Next]_vars => IInv'
  BY NextIInv
<1> QED
  BY <1>1, <1>2, PTL DEF Spec

\* Start's ReadExact writes the metadata inside the buffer, which Reserve grows for metadata
\* of any length, on every connection of a client, but for lengths at or just below the
\* capacity.
THEOREM MetadataFitsHolds == Spec => []MetadataFits
<1>1. IInv => MetadataFits
  BY InvFits
<1> QED
  BY <1>1, IInvHolds, PTL

\* NextRecord, TryNextRecord and FillBuffer return what the gateway sent on the connection,
\* each record once and in order, and always read a record from its first byte.
THEOREM RecordsInOrderHolds == Spec => []RecordsInOrder
<1>1. IInv => RecordsInOrder
  BY InvImplies
<1> QED
  BY <1>1, IInvHolds, PTL

\* ret never changes to the exceptions of a poll but in the steps of one.
LEMMA OtherReturns ==
  ASSUME [Next]_vars, ~CallStep, ret' \in {"gateway_closed", "heartbeat_timeout"}
  PROVE  ret' = ret
<1>1. CASE UNCHANGED vars
  BY <1>1 DEF vars, subVars
<1>2. CASE \/ \E len \in RecordLens : GatewaySends(len)
           \/ GatewayCloses \/ Tick
  BY <1>2 DEF GatewaySends, GatewayCloses, ConnectionLost, Tick
<1>3. CASE \E syms \in SymbolLists, start \in Starts : SubscribeCall(syms, start)
  BY <1>3 DEF SubscribeCall, Subscribe
<1>4. CASE ResubscribeCall
  BY <1>4 DEF ResubscribeCall, Resubscribe
<1>5. CASE Start \/ StartPrelude \/ StartMetadata \/ StartOverruns \/ ReadExactFails
  BY <1>5 DEF Start, StartPrelude, StartMetadata, StartOverruns, ReadExactFails
<1>6. CASE Stop \/ Reconnect
  BY <1>6 DEF Stop, Stopped, Reconnect, Reconnected, ReconnectFailed
<1>7. CASE (\E t \in Timeouts : NextRecordTimeout(t)) \/ NextRecordForever \/ TryNextRecord
  BY <1>7 DEF NextRecordTimeout, NextRecordForever, NextRecord, TryNextRecord, ReturnRecord
<1>8. CASE \E t \in Timeouts \cup {HbTimeout} : FillBufferCall(t)
  BY <1>8 DEF FillBufferCall
<1> QED
  BY <1>1, <1>2, <1>3, <1>4, <1>5, <1>6, <1>7, <1>8 DEF Next

\* A buffer without room holds a whole record, so a call that waits for one has room to
\* read into and recv() returns 0 for one reason only.
LEMMA RoomForARecord ==
  ASSUME IInv, call.op \in Polling \ {"fill"}
  PROVE  WriteCapacity(Shifted) # 0
<1> SUFFICES ASSUME WriteCapacity(Shifted) = 0 PROVE FALSE
  OBVIOUS
<1>1. ReadCapacity(buf) \in Nat /\ ReadCapacity(buf) >= MaxRecordLen
  BY ShiftedLemma
<1>2. /\ BufferOf(buf, Piece) /\ Unread(buf) \in Seq(Piece) /\ wire \in Seq(Piece) /\ started
      /\ ~HasRecord(buf) /\ buf.cap >= SmallestSize
  BY DEF IInv, BufferFits, Types, Phases, NoRecordYet
<1>3. ReadCapacity(buf) > 0 /\ ReadCapacity(buf) >= HeaderLen
  BY <1>1, SessionAssumption
<1>4. /\ Unread(buf) # << >> /\ Unread(buf)[1] \in Piece /\ RecordSize(buf) = Unread(buf)[1].len
  BY <1>2, <1>3, FirstUnread
<1>5. Pending # << >> /\ Pending[1] = Unread(buf)[1]
  BY <1>2, <1>4, ChainPrefix DEF IInv, Unbroken, Pending
<1>6. Unread(buf)[1].rec # 0
  <2>1. Unread(buf)[1].rec = Len(delivered) + 1 /\ delivered \in Seq(Nat)
    BY <1>2, <1>5 DEF IInv, Unbroken, Types
  <2>2. Len(delivered) \in Nat
    BY <2>1
  <2> QED
    BY <2>1, <2>2
<1>7. RecordSize(buf) \in Nat /\ RecordSize(buf) <= MaxRecordLen
  <2>1. \A p \in Piece : p.len \in Nat /\ (p.rec # 0 => p.len <= MaxRecordLen)
    BY DEF Piece
  <2> QED
    BY <1>4, <1>6, <2>1
<1> QED
  BY <1>1, <1>2, <1>3, <1>7, SessionAssumption DEF HasRecord

\* NextRecord reports a closed session only when the gateway has closed it and every
\* complete record it sent has been returned; a full buffer is never taken for that.
THEOREM OnlyClosedWhenDrainedHolds == Spec => OnlyClosedWhenDrained
<1>1. IInv /\ [Next]_vars => [ClosedStep]_vars
  <2> SUFFICES ASSUME IInv, [Next]_vars, ret' = "gateway_closed", ret = "none"
               PROVE  gw = "closed" /\ wire = << >> /\ ~HasRecord(buf')
    BY DEF ClosedStep
  <2>1. CallStep
    BY OtherReturns
  <2>2. ReadsNothing /\ call.op # "fill"
    BY <2>1 DEF CallStep, ReadSome, ReturnRecord, ReadsNothing, ReadFails, PollTimesOut
  <2>3. /\ call.op \in Polling \ {"fill"} /\ Ready /\ Available(Shifted) = 0 /\ buf' = Shifted
    BY <2>2 DEF ReadsNothing
  <2>4. wire = << >>
    <3>1. WriteCapacity(Shifted) # 0
      BY <2>3, RoomForARecord
    <3>2. Len(wire) = 0
      BY <2>3, <3>1 DEF Available
    <3> QED
      BY <3>2, EmptySeq DEF IInv, Types
  <2>5. gw = "closed"
    BY <2>3, <2>4 DEF Ready
  <2>6. ~HasRecord(buf')
    <3>1. /\ BufferOf(buf', Piece) /\ Unread(buf') = Unread(buf)
          /\ BufferOf(buf, Piece) /\ Unread(buf) \in Seq(Piece) /\ ~HasRecord(buf)
      BY <2>3, ShiftedLemma DEF IInv, BufferFits, NoRecordYet
    <3> QED
      BY <3>1, SameRecord
  <2> QED
    BY <2>4, <2>5, <2>6
<1> QED
  BY <1>1, IInvHolds, PTL DEF Spec, OnlyClosedWhenDrained

\* CheckHeartbeatTimeout throws only when the gateway itself has been silent for longer
\* than the timeout, never because last_read_time_ was left over from before.
THEOREM HeartbeatMeansSilenceHolds == Spec => HeartbeatMeansSilence
<1>1. IInv /\ [Next]_vars => [HeartbeatStep]_vars
  <2> SUFFICES ASSUME IInv, [Next]_vars, ret' = "heartbeat_timeout", ret = "none", conn = "open"
               PROVE  gw_silence > HbTimeout
    BY DEF HeartbeatStep
  <2>1. CallStep
    BY OtherReturns
  <2>2. call.op \in Polling /\ ~Ready /\ HeartbeatExpired
    BY <2>1 DEF CallStep, ReadSome, ReturnRecord, ReadsNothing, ReadFails, PollTimesOut
  <2>3. started /\ wire = << >> /\ gw # "closed"
    BY <2>2 DEF IInv, Phases, Ready
  <2>4. silence <= gw_silence /\ silence \in Nat /\ gw_silence \in Nat
    BY <2>3 DEF IInv, SilenceShared, Types
  <2> QED
    BY <2>2, <2>4, SessionAssumption DEF HeartbeatExpired
<1> QED
  BY <1>1, IInvHolds, PTL DEF Spec, HeartbeatMeansSilence

-----------------------------------------------------------------------------
(* The subscriptions.                                                      *)

Msg == [id : Nat, start : Starts, syms : Seq(STRING), is_last : BOOLEAN]
Request == [id : Nat, start : Starts, syms : Seq(STRING)]
Acc == [whole : Seq(Request), part : Seq(STRING)]
Subscription == [id : 0..MaxSubId, syms : Seq(STRING) \ {<< >>}, start : Starts]

SubType ==
  /\ sub_counter \in 0..MaxSubId /\ subscriptions \in Seq(Subscription)
  /\ received \in Seq(Msg) /\ mirrored \in BOOLEAN /\ in_order \in BOOLEAN
  /\ caught_up \in BOOLEAN /\ (mirrored => caught_up)

\* Requests are those of the subscriptions, and carry their ids if these are in order.
Mirrors(acc, subs, ids) ==
  /\ acc \in Acc /\ acc.part = << >> /\ Len(acc.whole) = Len(subs)
  /\ \A i \in 1..Len(subs) :
       /\ acc.whole[i].syms = subs[i].syms /\ acc.whole[i].start = subs[i].start
       /\ ids => acc.whole[i].id = subs[i].id

SubMirror == mirrored => Mirrors(Assembled, subscriptions, in_order)

\* Ids grow until they are exhausted.
Ordered(subs) ==
  \A i, j \in 1..Len(subs) :
    i < j => subs[i].id <= subs[j].id /\ (subs[i].id < MaxSubId => subs[i].id < subs[j].id)

\* The counter is not behind the ids once they are resubscribed, and not ahead of them on a
\* new connection.
SubOrder ==
  in_order =>
    /\ Ordered(subscriptions)
    /\ caught_up => \A i \in 1..Len(subscriptions) : subscriptions[i].id <= sub_counter
    /\ received = << >> /\ Writable /\ subscriptions # << >> => sub_counter = 0 /\ ~caught_up

SubInv == SubType /\ SubMirror /\ SubOrder

\* The number of chunks.
LEMMA ChunkCount ==
  ASSUME NEW L \in Nat \ {0}, NEW C \in Nat \ {0}
  PROVE  LET n == (L + C - 1) \div C
         IN  n \in Nat \ {0} /\ (n - 1) * C < L /\ L <= n * C
OBVIOUS

\* Multiples grow.
LEMMA Multiples ==
  ASSUME NEW a \in Nat, NEW b \in Nat, NEW c \in Nat, a <= b
  PROVE  a * c <= b * c /\ a * c \in Nat /\ (a + 1) * c = a * c + c
OBVIOUS

\* What the gateway has after each message.
Takes(f, acc, msgs) == f[0] = acc /\ \A k \in 1..Len(msgs) : f[k] = Take(f[k - 1], msgs[k])

\* A message leaves requests and a part of one.
LEMMA TakeType ==
  ASSUME NEW acc \in Acc, NEW m \in Msg
  PROVE  Take(acc, m) \in Acc
<1>1. acc.whole \in Seq(Request) /\ acc.part \in Seq(STRING) /\ m.syms \in Seq(STRING)
      /\ m.id \in Nat /\ m.start \in Starts
  BY DEF Acc, Msg
<1>2. acc.part \o m.syms \in Seq(STRING)
  BY <1>1, ConcatParts
<1> DEFINE p == acc.part \o m.syms
           r == [id |-> m.id, start |-> m.start, syms |-> p]
<1>3. r \in Request
  BY <1>1, <1>2 DEF Request
<1> HIDE DEF r
<1>4. Append(acc.whole, r) \in Seq(Request) /\ << >> \in Seq(STRING)
  BY <1>1, <1>3, AppendProperties
<1> HIDE DEF p
<1>5. CASE m.is_last
  BY <1>4, <1>5 DEF Take, Acc, r, p
<1>6. CASE ~m.is_last
  BY <1>1, <1>2, <1>6 DEF Take, Acc, p
<1> QED
  BY <1>5, <1>6

\* TakeAll takes one message after the other.
LEMMA Taking ==
  ASSUME NEW acc \in Acc, NEW msgs \in Seq(Msg)
  PROVE  \E f \in [0..Len(msgs) -> Acc] : Takes(f, acc, msgs) /\ TakeAll(acc, msgs) = f[Len(msgs)]
<1> DEFINE n == Len(msgs)
           step == [k \in 1..n |-> [a \in Acc |-> Take(a, msgs[k])]]
           Is(g) == g = [k \in 0..n |-> IF k = 0 THEN acc ELSE Take(g[k - 1], msgs[k])]
           taken == CHOOSE g : Is(g)
<1>1. n \in Nat /\ \A k \in 1..n : msgs[k] \in Msg
  BY ElementOfSeq
<1>2. step \in [1..n -> [Acc -> Acc]]
  BY <1>1, TakeType
<1>3. PICK f : Recurs(f, Acc, n, acc, step)
  BY <1>1, <1>2, RecursionExists
<1>4. f \in [0..n -> Acc] /\ f[0] = acc /\ \A k \in 1..n : f[k] = step[k][f[k - 1]]
  BY <1>3 DEF Recurs
<1>5. ASSUME NEW k \in 1..n PROVE f[k] = Take(f[k - 1], msgs[k])
  <2>1. k - 1 \in 0..n /\ f[k - 1] \in Acc
    BY <1>1, <1>4
  <2> QED
    BY <1>4, <2>1
<1>6. Is(f)
  <2> DEFINE g == [k \in 0..n |-> IF k = 0 THEN acc ELSE Take(f[k - 1], msgs[k])]
  <2>1. \A k \in 0..n : f[k] = g[k]
    <3> SUFFICES ASSUME NEW k \in 0..n PROVE f[k] = g[k]
      OBVIOUS
    <3>1. k = 0 \/ k \in 1..n
      BY <1>1
    <3> QED
      BY <1>4, <1>5, <3>1
  <2>2. f = [k \in 0..n |-> f[k]]
    BY <1>4
  <2> QED
    BY <2>1, <2>2
<1>7. Is(taken)
  <2> HIDE DEF Is
  <2> QED
    BY <1>6
<1>8. TakeAll(acc, msgs) = taken[n]
  BY DEF TakeAll
<1> HIDE DEF taken
<1>9. taken[0] = acc /\ \A k \in 1..n : taken[k] = Take(taken[k - 1], msgs[k])
  <2>1. \A k \in 0..n : taken[k] = IF k = 0 THEN acc ELSE Take(taken[k - 1], msgs[k])
    BY <1>7
  <2> QED
    BY <1>1, <2>1
<1>10. \A k \in Nat : k <= n => taken[k] = f[k]
  <2> DEFINE S == {k \in Nat : k <= n => taken[k] = f[k]}
  <2>1. 0 \in S
    BY <1>4, <1>9
  <2>2. ASSUME NEW k \in S PROVE k + 1 \in S
    <3> SUFFICES ASSUME k + 1 <= n PROVE taken[k + 1] = f[k + 1]
      BY <2>2
    <3>1. k + 1 \in 1..n /\ (k + 1) - 1 = k /\ taken[k] = f[k]
      BY <1>1, <2>2
    <3> QED
      BY <1>5, <1>9, <3>1
  <2>3. S = Nat
    <3> HIDE DEF S
    <3>1. S \in SUBSET Nat
      BY DEF S
    <3> QED
      BY <2>1, <2>2, <3>1, SetInduction
  <2> QED
    BY <2>3
<1>11. Takes(f, acc, msgs)
  BY <1>4, <1>5 DEF Takes
<1> QED
  BY <1>1, <1>4, <1>8, <1>10, <1>11

\* There is one way to take messages.
LEMMA TakesOnce ==
  ASSUME NEW acc \in Acc, NEW msgs \in Seq(Msg), NEW g, Takes(g, acc, msgs)
  PROVE  TakeAll(acc, msgs) = g[Len(msgs)]
<1> DEFINE n == Len(msgs)
<1>1. PICK f \in [0..n -> Acc] : Takes(f, acc, msgs) /\ TakeAll(acc, msgs) = f[n]
  BY Taking
<1> DEFINE S == {k \in Nat : k <= n => f[k] = g[k]}
<1>2. n \in Nat
  OBVIOUS
<1>3. 0 \in S
  BY <1>1 DEF Takes
<1>4. ASSUME NEW k \in S PROVE k + 1 \in S
  <2> SUFFICES ASSUME k + 1 <= n PROVE f[k + 1] = g[k + 1]
    BY <1>4
  <2>1. k + 1 \in 1..n /\ (k + 1) - 1 = k /\ f[k] = g[k]
    BY <1>2, <1>4
  <2>2. f[k + 1] = Take(f[(k + 1) - 1], msgs[k + 1]) /\ g[k + 1] = Take(g[(k + 1) - 1], msgs[k + 1])
    BY <1>1, <2>1 DEF Takes
  <2> QED
    BY <2>1, <2>2
<1>5. S = Nat
  <2> HIDE DEF S
  <2>1. S \in SUBSET Nat
    BY DEF S
  <2> QED
    BY <1>3, <1>4, <2>1, SetInduction
<1> QED
  BY <1>1, <1>2, <1>5

\* Messages are taken in parts.
LEMMA TakeParts ==
  ASSUME NEW acc \in Acc, NEW x \in Seq(Msg), NEW y \in Seq(Msg)
  PROVE  /\ TakeAll(acc, x) \in Acc /\ TakeAll(acc, << >>) = acc
         /\ TakeAll(acc, Cat(x, y)) = TakeAll(TakeAll(acc, x), y)
<1> DEFINE n == Len(x)
           m == Len(y)
           c == Cat(x, y)
<1>1. PICK f \in [0..n -> Acc] : Takes(f, acc, x) /\ TakeAll(acc, x) = f[n]
  BY Taking
<1>2. n \in Nat /\ m \in Nat /\ f[n] \in Acc
  BY <1>1
<1>3. PICK g \in [0..m -> Acc] : Takes(g, f[n], y) /\ TakeAll(f[n], y) = g[m]
  BY <1>2, Taking
<1>4. /\ c \in Seq(Msg) /\ Len(c) = n + m
      /\ \A i \in 1..n : c[i] = x[i]
      /\ \A i \in 1..m : c[n + i] = y[i]
  BY ConcatParts DEF Cat
<1> HIDE DEF n, m, c
<1> DEFINE h == [k \in 0..(n + m) |-> IF k <= n THEN f[k] ELSE g[k - n]]
<1>5. h[0] = acc
  BY <1>1, <1>2 DEF Takes
<1>6. ASSUME NEW k \in 1..(n + m) PROVE h[k] = Take(h[k - 1], c[k])
  <2>1. CASE k <= n
    <3>1. k \in 1..n /\ k - 1 \in 0..(n + m) /\ k - 1 <= n
      BY <1>2, <2>1
    <3>2. f[k] = Take(f[k - 1], x[k])
      BY <1>1, <3>1 DEF Takes, n
    <3>3. h[k] = f[k] /\ h[k - 1] = f[k - 1] /\ c[k] = x[k]
      BY <1>2, <1>4, <2>1, <3>1
    <3> HIDE DEF h
    <3> QED
      BY <3>2, <3>3
  <2>2. CASE k > n
    <3>1. k - n \in 1..m /\ n + (k - n) = k /\ k - 1 \in 0..(n + m) /\ (k - n) - 1 = (k - 1) - n
      BY <1>2, <2>2
    <3>2. g[k - n] = Take(g[(k - n) - 1], y[k - n])
      BY <1>3, <3>1 DEF Takes, m
    <3>3. h[k] = g[k - n] /\ c[k] = y[k - n]
      BY <1>2, <1>4, <2>2, <3>1
    <3>4. h[k - 1] = g[(k - n) - 1]
      <4>1. CASE k - 1 <= n
        <5>1. k - 1 = n /\ (k - n) - 1 = 0
          BY <1>2, <2>2, <4>1
        <5>2. h[n] = f[n] /\ g[0] = f[n]
          BY <1>2, <1>3 DEF Takes
        <5> QED
          BY <5>1, <5>2
      <4>2. CASE ~(k - 1 <= n)
        BY <3>1, <4>2
      <4> QED
        BY <4>1, <4>2
    <3> HIDE DEF h
    <3> QED
      BY <3>2, <3>3, <3>4
  <2> QED
    BY <1>2, <2>1, <2>2
<1>7. h[n + m] = g[m]
  <2>1. CASE m = 0
    BY <1>2, <1>3, <2>1 DEF Takes
  <2>2. CASE m # 0
    <3>1. ~(n + m <= n) /\ (n + m) - n = m /\ n + m \in 0..(n + m)
      BY <1>2, <2>2
    <3> QED
      BY <3>1
  <2> QED
    BY <2>1, <2>2
<1> HIDE DEF h
<1>8. Takes(h, acc, c)
  BY <1>4, <1>5, <1>6 DEF Takes
<1>9. TakeAll(acc, c) = h[n + m]
  BY <1>4, <1>8, TakesOnce
<1>10. TakeAll(acc, << >>) = acc
  <2> DEFINE z == << >>
  <2>1. z \in Seq(Msg) /\ Len(z) = 0
    OBVIOUS
  <2> HIDE DEF z
  <2>2. PICK e \in [0..Len(z) -> Acc] : Takes(e, acc, z) /\ TakeAll(acc, z) = e[Len(z)]
    BY <2>1, Taking
  <2>3. TakeAll(acc, z) = acc
    BY <2>1, <2>2 DEF Takes
  <2> QED
    BY <2>3 DEF z
<1> QED
  BY <1>1, <1>2, <1>3, <1>7, <1>9, <1>10 DEF c

\* The chunks of a subscription: all of its symbols, and the last chunk says so.
LEMMA MessagesFacts ==
  ASSUME NEW id \in Nat, NEW syms \in Seq(STRING) \ {<< >>}, NEW start \in Starts
  PROVE  LET ms == Messages(id, syms, start)
             n  == (Len(syms) + ChunkSize - 1) \div ChunkSize
         IN  /\ ms \in Seq(Msg) /\ Len(ms) = n /\ n \in Nat \ {0}
             /\ \A i \in 1..n :
                  /\ ms[i].id = id /\ ms[i].start = start /\ (ms[i].is_last <=> i = n)
                  /\ ms[i].syms = SubSeq(syms, (i - 1) * ChunkSize + 1,
                                         IF i = n THEN Len(syms) ELSE i * ChunkSize)
<1> DEFINE C == ChunkSize
           L == Len(syms)
           n == (L + C - 1) \div C
           ms == Messages(id, syms, start)
<1>1. C \in Nat \ {0} /\ L \in Nat \ {0}
  BY EmptySeq, SubscriptionsAssumption
<1>2. n \in Nat \ {0} /\ (n - 1) * C < L /\ L <= n * C
  BY <1>1, ChunkCount
<1>3. ms = [i \in 1..n |->
              LET from == (i - 1) * C
                  distance_from_end == L - from
                  chunk_size == IF distance_from_end < C THEN distance_from_end ELSE C
              IN  [id |-> id, start |-> start, syms |-> SubSeq(syms, from + 1, from + chunk_size),
                   is_last |-> distance_from_end <= C]]
  BY DEF Messages
<1> HIDE DEF ms, n, C, L
<1>4. ASSUME NEW i \in 1..n
      PROVE  LET from == (i - 1) * C
             IN  /\ from \in Nat /\ from <= L /\ i * C = from + C
                 /\ i = n => L - from <= C
                 /\ i # n => from + C < L
  <2>1. i \in Nat /\ n \in Nat /\ i - 1 \in Nat /\ n - 1 \in Nat /\ i - 1 <= n - 1 /\ (i - 1) + 1 = i
    BY <1>2
  <2>2. (i - 1) * C <= (n - 1) * C /\ (i - 1) * C \in Nat /\ i * C = (i - 1) * C + C
    BY <1>1, <2>1, Multiples
  <2>3. CASE i = n
    BY <1>1, <1>2, <2>2, <2>3
  <2>4. CASE i # n
    <3>1. i <= n - 1
      BY <2>1, <2>4
    <3>2. i * C <= (n - 1) * C /\ i * C \in Nat /\ (n - 1) * C \in Nat
      BY <1>1, <2>1, <3>1, Multiples
    <3> QED
      BY <1>1, <1>2, <2>2, <2>4, <3>2
  <2> QED
    BY <2>3, <2>4
<1>5. ASSUME NEW i \in 1..n
      PROVE  /\ ms[i] \in Msg
             /\ ms[i].id = id /\ ms[i].start = start /\ (ms[i].is_last <=> i = n)
             /\ ms[i].syms = SubSeq(syms, (i - 1) * C + 1, IF i = n THEN L ELSE i * C)
  <2> DEFINE from == (i - 1) * C
             d == L - from
             size == IF d < C THEN d ELSE C
             e == SubSeq(syms, from + 1, from + size)
  <2>1. /\ from \in Nat /\ from <= L /\ i * C = from + C
        /\ i = n => L - from <= C
        /\ i # n => from + C < L
    BY <1>4
  <2>2. ms[i] = [id |-> id, start |-> start, syms |-> e, is_last |-> d <= C]
    BY <1>3
  <2> HIDE DEF from
  <2>3. (d <= C <=> i = n) /\ from + size = (IF i = n THEN L ELSE i * C) /\ from + size \in 0..L
    <3>1. CASE i = n
      BY <1>1, <2>1, <3>1
    <3>2. CASE i # n
      BY <1>1, <2>1, <3>2
    <3> QED
      BY <3>1, <3>2
  <2>4. e \in Seq(STRING)
    <3> DEFINE to == from + size
    <3>1. to \in 0..Len(syms) /\ from \in Nat
      BY <2>1, <2>3 DEF L
    <3> HIDE DEF to
    <3>2. SubSeq(syms, from + 1, to) \in Seq(STRING)
      BY <3>1
    <3> QED
      BY <3>2 DEF to
  <2> HIDE DEF e, d
  <2>5. ms[i] \in Msg
    BY <2>2, <2>4 DEF Msg
  <2>6. ms[i].id = id /\ ms[i].start = start /\ (ms[i].is_last <=> i = n)
    <3> DEFINE z == d <= C
    <3>1. ms[i] = [id |-> id, start |-> start, syms |-> e, is_last |-> z] /\ (z <=> i = n)
      BY <2>2, <2>3 DEF d
    <3> HIDE DEF z
    <3> DEFINE m == [id |-> id, start |-> start, syms |-> e, is_last |-> z]
    <3>2. m.is_last = z /\ m.id = id /\ m.start = start
      BY Zenon
    <3> HIDE DEF m
    <3>3. ms[i] = m
      BY <3>1 DEF m
    <3> QED
      BY <3>1, <3>2, <3>3
  <2>7. ms[i].syms = e
    BY <2>2
  <2>8. e = SubSeq(syms, (i - 1) * C + 1, IF i = n THEN L ELSE i * C)
    BY <2>3 DEF e, from
  <2> QED
    BY <2>5, <2>6, <2>7, <2>8
<1>6. ms \in Seq(Msg) /\ Len(ms) = n
  <2>1. ms \in [1..n -> Msg]
    BY <1>3, <1>5
  <2> QED
    BY <1>2, <2>1, FunctionSeq
<1> QED
  BY <1>2, <1>5, <1>6 DEF ms, n, L, C

\* The chunks behind one another.
LEMMA ChunkJoin ==
  ASSUME NEW syms \in Seq(STRING), NEW a \in Nat, NEW b \in Nat, a <= b, b <= Len(syms)
  PROVE  SubSeq(syms, 1, a) \o SubSeq(syms, a + 1, b) = SubSeq(syms, 1, b)
<1> DEFINE w == SubSeq(syms, 1, b)
<1>1. b \in 0..Len(syms) /\ a \in 0..b
  OBVIOUS
<1>2. w \in Seq(STRING) /\ Len(w) = b /\ \A i \in 1..b : w[i] = syms[i]
  BY <1>1, TakeDrop
<1>3. SubSeq(w, 1, a) \o SubSeq(w, a + 1, Len(w)) = w
  BY <1>1, <1>2, Rejoined
<1>4. SubSeq(w, 1, a) = SubSeq(syms, 1, a)
  <2> DEFINE u == SubSeq(w, 1, a)
             v == SubSeq(syms, 1, a)
  <2>1. u \in Seq(STRING) /\ Len(u) = a /\ \A i \in 1..a : u[i] = w[i]
    BY <1>1, <1>2, TakeDrop
  <2>2. a \in 0..Len(syms)
    BY <1>1
  <2>3. v \in Seq(STRING) /\ Len(v) = a /\ \A i \in 1..a : v[i] = syms[i]
    BY <2>2, TakeDrop
  <2> HIDE DEF u, v, w
  <2>4. \A i \in 1..Len(u) : u[i] = v[i]
    BY <1>1, <1>2, <2>1, <2>3
  <2>5. u = v
    BY <2>1, <2>3, <2>4, SeqEqual
  <2> QED
    BY <2>5 DEF u, v
<1>5. SubSeq(w, a + 1, Len(w)) = SubSeq(syms, a + 1, b)
  <2> DEFINE u == SubSeq(w, a + 1, Len(w))
             v == SubSeq(syms, a + 1, b)
  <2>1. u \in Seq(STRING) /\ Len(u) = b - a /\ \A i \in 1..(b - a) : u[i] = w[a + i]
    <3> HIDE DEF w
    <3>1. w \in Seq(STRING) /\ a \in 0..Len(w) /\ Len(w) = b
      BY <1>1, <1>2
    <3> QED
      BY <3>1, TakeDrop
  <2>2. v \in Seq(STRING) /\ Len(v) = b - a /\ \A i \in 1..(b - a) : v[i] = syms[a + i]
    BY <1>1
  <2> HIDE DEF u, v, w
  <2>3. ASSUME NEW i \in 1..Len(u) PROVE u[i] = v[i]
    <3>1. i \in 1..(b - a) /\ a + i \in 1..b
      BY <2>1
    <3> QED
      BY <1>2, <2>1, <2>2, <3>1
  <2>4. u = v
    BY <2>1, <2>2, <2>3, SeqEqual
  <2> QED
    BY <2>4 DEF u, v
<1> QED
  BY <1>3, <1>4, <1>5

\* The gateway puts the chunks of a subscription together to its request.
LEMMA OneSubscription ==
  ASSUME NEW id \in Nat, NEW syms \in Seq(STRING) \ {<< >>}, NEW start \in Starts,
         NEW whole \in Seq(Request)
  PROVE  TakeAll([whole |-> whole, part |-> << >>], Messages(id, syms, start))
           = [whole |-> Append(whole, [id |-> id, start |-> start, syms |-> syms]), part |-> << >>]
<1> DEFINE C == ChunkSize
           L == Len(syms)
           n == (L + C - 1) \div C
           ms == Messages(id, syms, start)
           acc == [whole |-> whole, part |-> << >>]
           r == [id |-> id, start |-> start, syms |-> syms]
           end == [whole |-> Append(whole, r), part |-> << >>]
           P(k) == SubSeq(syms, 1, k * C)
           f == [k \in 0..n |-> IF k = n THEN end ELSE [whole |-> whole, part |-> P(k)]]
<1>1. C \in Nat \ {0} /\ L \in Nat \ {0} /\ n \in Nat \ {0} /\ (n - 1) * C < L /\ L <= n * C
  <2>1. C \in Nat \ {0} /\ L \in Nat \ {0}
    BY EmptySeq, SubscriptionsAssumption
  <2> QED
    BY <2>1, ChunkCount
<1>2. /\ ms \in Seq(Msg) /\ Len(ms) = n
      /\ \A i \in 1..n :
           /\ ms[i].id = id /\ ms[i].start = start /\ (ms[i].is_last <=> i = n)
           /\ ms[i].syms = SubSeq(syms, (i - 1) * C + 1, IF i = n THEN L ELSE i * C)
  BY MessagesFacts
<1>3. acc \in Acc
  BY DEF Acc
<1> HIDE DEF n, ms, C, P
<1>4. f[0] = acc
  <2>1. P(0) = << >>
    <3>1. 0 * C = 0
      BY <1>1
    <3>2. SubSeq(syms, 1, 0) = << >>
      OBVIOUS
    <3> QED
      BY <3>1, <3>2 DEF P
  <2> QED
    BY <1>1, <2>1
<1>5. ASSUME NEW k \in 1..n PROVE f[k] = Take(f[k - 1], ms[k])
  <2> DEFINE a == (k - 1) * C
             b == IF k = n THEN L ELSE k * C
             s == SubSeq(syms, a + 1, b)
             g == [whole |-> whole, part |-> P(k - 1)]
  <2>1. a \in Nat /\ b \in Nat /\ a <= b /\ b <= L
    <3>1. k - 1 \in Nat /\ n - 1 \in Nat /\ k - 1 <= n - 1 /\ (k - 1) + 1 = k /\ k \in Nat
      BY <1>1
    <3>2. (k - 1) * C <= (n - 1) * C /\ (k - 1) * C \in Nat /\ k * C = (k - 1) * C + C
      BY <1>1, <3>1, Multiples
    <3>3. CASE k = n
      BY <1>1, <3>2, <3>3
    <3>4. CASE k # n
      <4>1. k <= n - 1
        BY <1>1, <3>1, <3>4
      <4>2. k * C <= (n - 1) * C /\ k * C \in Nat /\ (n - 1) * C \in Nat
        BY <1>1, <3>1, <4>1, Multiples
      <4> QED
        BY <1>1, <3>2, <3>4, <4>2
    <3> QED
      BY <3>3, <3>4
  <2>2. SubSeq(syms, 1, a) \o s = SubSeq(syms, 1, b)
    <3> HIDE DEF a, b
    <3> QED
      BY <2>1, ChunkJoin
  <2>3. f[k - 1] = g
    BY <1>1
  <2>4. ms[k].id = id /\ ms[k].start = start /\ (ms[k].is_last <=> k = n) /\ ms[k].syms = s
    BY <1>2
  <2>5. P(k - 1) \o s = SubSeq(syms, 1, b)
    BY <2>2 DEF P
  <2> HIDE DEF a, s
  <2>6. CASE k = n
    <3>1. f[k] = end
      BY <1>1, <2>6
    <3>2. SubSeq(syms, 1, b) = syms
      BY <2>6
    <3>3. g.part \o ms[k].syms = syms /\ g.whole = whole
      BY <2>4, <2>5, <3>2
    <3>4. Take(g, ms[k]) = [whole |-> Append(g.whole, [id |-> ms[k].id, start |-> ms[k].start,
                                                        syms |-> g.part \o ms[k].syms]),
                            part |-> << >>]
      BY <2>4, <2>6 DEF Take
    <3> HIDE DEF f, g
    <3> QED
      BY <2>3, <2>4, <3>1, <3>3, <3>4
  <2>7. CASE k # n
    <3>1. f[k] = [whole |-> whole, part |-> P(k)]
      BY <1>1, <2>7
    <3>2. g.part \o ms[k].syms = P(k) /\ g.whole = whole
      BY <2>4, <2>5, <2>7 DEF P
    <3>3. Take(g, ms[k]) = [whole |-> g.whole, part |-> g.part \o ms[k].syms]
      BY <2>4, <2>7 DEF Take
    <3> HIDE DEF f, g
    <3> QED
      BY <2>3, <3>1, <3>2, <3>3
  <2> QED
    BY <2>6, <2>7
<1>6. f[n] = end
  BY <1>1
<1> HIDE DEF f, acc, end
<1>7. Takes(f, acc, ms)
  BY <1>2, <1>4, <1>5 DEF Takes
<1>8. TakeAll(acc, ms) = f[n]
  BY <1>2, <1>3, <1>7, TakesOnce
<1> QED
  BY <1>6, <1>8 DEF acc, end, ms

\* The gateway before the first message.
Nothing == [whole |-> << >>, part |-> << >>]

\* The gateway puts subscriptions sent one after the other together to their requests.
Named == {r \in Request : r.syms # << >>}
Chunks(reqs) ==
  FlattenSeq([i \in 1..Len(reqs) |-> Messages(reqs[i].id, reqs[i].syms, reqs[i].start)])

\* Chunks are put together to the requests they were made of.
LEMMA ManySubscriptions ==
  ASSUME NEW reqs \in Seq(Named)
  PROVE  /\ Chunks(reqs) \in Seq(Msg) /\ (reqs # << >> => Chunks(reqs) # << >>)
         /\ TakeAll(Nothing, Chunks(reqs)) = [whole |-> reqs, part |-> << >>]
<1> DEFINE n == Len(reqs)
           M == [i \in 1..n |-> Messages(reqs[i].id, reqs[i].syms, reqs[i].start)]
           Q(k) == SubSeq(reqs, 1, k)
<1>1. n \in Nat /\ reqs \in Seq(Request) /\ \A i \in 1..n : reqs[i] \in Named
  <2>1. \A r \in Named : r \in Request
    BY DEF Named
  <2> QED
    BY <2>1, ElementOfSeq
<1>2. ASSUME NEW i \in 1..n
      PROVE  /\ M[i] \in Seq(Msg) /\ Len(M[i]) # 0
             /\ \A w \in Seq(Request) : TakeAll([whole |-> w, part |-> << >>], M[i])
                                          = [whole |-> Append(w, reqs[i]), part |-> << >>]
  <2> DEFINE r == reqs[i]
             m == Messages(r.id, r.syms, r.start)
  <2>1. r.id \in Nat /\ r.syms \in Seq(STRING) \ {<< >>} /\ r.start \in Starts
        /\ r = [id |-> r.id, start |-> r.start, syms |-> r.syms]
    BY <1>1 DEF Named, Request
  <2>2. m \in Seq(Msg) /\ Len(m) # 0
    <3>1. m \in Seq(Msg) /\ Len(m) \in Nat \ {0}
      BY <2>1, MessagesFacts
    <3> QED
      BY <3>1
  <2>3. ASSUME NEW w \in Seq(Request)
        PROVE  TakeAll([whole |-> w, part |-> << >>], m) = [whole |-> Append(w, r), part |-> << >>]
    <3> HIDE DEF r
    <3> QED
      BY <2>1, OneSubscription
  <2>4. M[i] = m
    OBVIOUS
  <2> HIDE DEF m, r, M
  <2> QED
    BY <2>2, <2>3, <2>4 DEF r
<1>3. M \in Seq(Seq(Msg)) /\ Len(M) = n
  <2>1. M \in [1..n -> Seq(Msg)]
    BY <1>2
  <2> QED
    BY <1>1, <2>1, FunctionSeq
<1>4. Chunks(reqs) = FlattenSeq(M)
  BY DEF Chunks
<1> HIDE DEF M
<1>5. PICK f \in [0..n -> Seq(Msg)] : Concatenates(f, M) /\ FlattenSeq(M) = f[n]
  BY <1>3, Flattening
<1>6. f[0] = << >> /\ \A k \in 1..n : f[k] = Cat(f[k - 1], M[k])
  BY <1>3, <1>5 DEF Concatenates, Cat
<1>7. /\ \A k \in 0..n : Q(k) \in Seq(Request)
      /\ \A k \in 0..n : k + 1 <= n => Q(k + 1) = Append(Q(k), reqs[k + 1])
      /\ Q(0) = << >> /\ Q(n) = reqs
  <2>1. Q(0) = << >> /\ Q(n) = reqs
    BY <1>1
  <2>2. ASSUME NEW k \in 0..n PROVE Q(k) \in Seq(Request)
    BY <1>1, <2>2, TakeDrop
  <2>3. ASSUME NEW k \in 0..n, k + 1 <= n PROVE Q(k + 1) = Append(Q(k), reqs[k + 1])
    <3> DEFINE a == Q(k + 1)
               b == Append(Q(k), reqs[k + 1])
    <3>1. k \in Nat /\ k + 1 \in 0..n /\ k + 1 \in 1..n
      BY <1>1, <2>3
    <3>2. a \in Seq(Request) /\ Len(a) = k + 1 /\ \A j \in 1..(k + 1) : a[j] = reqs[j]
      BY <1>1, <3>1, TakeDrop
    <3>3. Q(k) \in Seq(Request) /\ Len(Q(k)) = k /\ \A j \in 1..k : Q(k)[j] = reqs[j]
      BY <1>1, TakeDrop
    <3>4. reqs[k + 1] \in Request
      BY <1>1, <3>1 DEF Named
    <3> HIDE DEF Q
    <3>5. /\ b \in Seq(Request) /\ Len(b) = k + 1 /\ b[k + 1] = reqs[k + 1]
          /\ \A j \in 1..k : b[j] = Q(k)[j]
      BY <3>3, <3>4, AppendProperties, SMTT(30)
    <3> HIDE DEF a, b
    <3>6. ASSUME NEW j \in 1..Len(a) PROVE a[j] = b[j]
      <4>1. j \in 1..k \/ j = k + 1
        BY <3>1, <3>2
      <4> QED
        BY <3>2, <3>3, <3>5, <4>1
    <3>7. a = b
      BY <3>2, <3>5, <3>6, SeqEqual
    <3> QED
      BY <3>7 DEF a, b
  <2> QED
    BY <2>1, <2>2, <2>3
<1> HIDE DEF Q
<1> DEFINE A(k) == [whole |-> Q(k), part |-> << >>]
           S == {k \in Nat : k <= n => TakeAll(Nothing, f[k]) = A(k)}
<1>8. Nothing \in Acc
  BY DEF Nothing, Acc
<1>9. 0 \in S
  <2>1. << >> \in Seq(Msg)
    OBVIOUS
  <2>2. TakeAll(Nothing, << >>) = Nothing
    BY <1>8, <2>1, TakeParts
  <2>3. A(0) = Nothing
    BY <1>7 DEF Nothing
  <2> QED
    BY <1>6, <2>2, <2>3
<1>10. ASSUME NEW k \in S PROVE k + 1 \in S
  <2> SUFFICES ASSUME k + 1 <= n PROVE TakeAll(Nothing, f[k + 1]) = A(k + 1)
    BY <1>10
  <2>1. k \in 0..n /\ k + 1 \in 1..n /\ (k + 1) - 1 = k /\ TakeAll(Nothing, f[k]) = A(k)
    BY <1>1, <1>10
  <2>2. f[k] \in Seq(Msg) /\ M[k + 1] \in Seq(Msg) /\ Q(k) \in Seq(Request)
    BY <1>2, <1>5, <1>7, <2>1
  <2>3. f[k + 1] = Cat(f[k], M[k + 1])
    BY <1>6, <2>1
  <2>4. TakeAll(Nothing, Cat(f[k], M[k + 1])) = TakeAll(TakeAll(Nothing, f[k]), M[k + 1])
    BY <1>8, <2>2, TakeParts
  <2>5. TakeAll(A(k), M[k + 1]) = [whole |-> Append(Q(k), reqs[k + 1]), part |-> << >>]
    BY <1>2, <2>1, <2>2
  <2>6. Append(Q(k), reqs[k + 1]) = Q(k + 1)
    BY <1>7, <2>1
  <2> QED
    BY <2>1, <2>3, <2>4, <2>5, <2>6
<1>11. S = Nat
  <2> HIDE DEF S
  <2>1. S \in SUBSET Nat
    BY DEF S
  <2> QED
    BY <1>9, <1>10, <2>1, SetInduction
<1>12. TakeAll(Nothing, f[n]) = A(n) /\ A(n) = [whole |-> reqs, part |-> << >>]
  <2>1. n \in S
    BY <1>1, <1>11
  <2>2. n <= n
    BY <1>1
  <2>3. TakeAll(Nothing, f[n]) = A(n)
    BY <2>1, <2>2
  <2> QED
    BY <1>7, <2>3
<1>13. reqs # << >> => f[n] # << >>
  <2> SUFFICES ASSUME reqs # << >> PROVE f[n] # << >>
    OBVIOUS
  <2>1. n \in 1..n /\ n - 1 \in 0..n
    BY <1>1, EmptySeq
  <2>2. f[n] = Cat(f[n - 1], M[n]) /\ f[n - 1] \in Seq(Msg) /\ M[n] \in Seq(Msg) /\ Len(M[n]) # 0
    BY <1>2, <1>5, <1>6, <2>1
  <2>3. Len(f[n]) = Len(f[n - 1]) + Len(M[n]) /\ Len(f[n - 1]) \in Nat /\ Len(M[n]) \in Nat
    BY <2>2, ConcatParts DEF Cat
  <2>4. Len(f[n]) # 0
    <3> DEFINE a == Len(f[n - 1])
               b == Len(M[n])
    <3>1. a \in Nat /\ b \in Nat /\ b # 0 /\ Len(f[n]) = a + b
      BY <2>2, <2>3
    <3> HIDE DEF a, b
    <3> QED
      BY <3>1
  <2>5. f[n] = << >> => Len(f[n]) = 0
    OBVIOUS
  <2> QED
    BY <2>4, <2>5
<1>14. f[n] \in Seq(Msg)
  BY <1>1, <1>5
<1> QED
  BY <1>4, <1>5, <1>12, <1>13, <1>14

\* The largest id seen by the loop of Resubscribe.
LEMMA MaxIdFacts ==
  ASSUME SubType, NEW n \in 0..Len(subscriptions)
  PROVE  /\ MaxId(n) \in 0..MaxSubId /\ MaxId(n) >= sub_counter
         /\ \A i \in 1..n : MaxId(n) >= subscriptions[i].id
         /\ MaxId(n) \in {sub_counter} \cup {subscriptions[i].id : i \in 1..n}
<1> DEFINE D == Len(subscriptions)
           I(k) == {sub_counter} \cup {subscriptions[i].id : i \in 1..k}
           P(k, m) == m >= sub_counter /\ \A i \in 1..k : m >= subscriptions[i].id
           S == {k \in Nat : k <= D => \E m \in I(k) : P(k, m)}
<1>1. /\ D \in Nat /\ sub_counter \in 0..MaxSubId /\ MaxSubId \in Nat
      /\ \A i \in 1..D : subscriptions[i].id \in 0..MaxSubId
  <2>1. \A i \in 1..D : subscriptions[i] \in Subscription
    BY ElementOfSeq DEF SubType
  <2> QED
    BY <2>1, SubscriptionsAssumption DEF SubType, Subscription
<1> HIDE DEF D
<1>2. 0 \in S
  <2>1. sub_counter \in I(0) /\ P(0, sub_counter)
    BY <1>1
  <2> QED
    BY <2>1
<1>3. ASSUME NEW k \in S PROVE k + 1 \in S
  <2> SUFFICES ASSUME k + 1 <= D PROVE \E m \in I(k + 1) : P(k + 1, m)
    BY <1>3
  <2>1. k \in Nat /\ k <= D
    BY <1>1, <1>3
  <2>2. PICK m \in I(k) : P(k, m)
    BY <1>3, <2>1
  <2> DEFINE d == subscriptions[k + 1].id
  <2>3. d \in Nat /\ d \in I(k + 1) /\ m \in I(k + 1) /\ m \in Nat
    <3>1. k + 1 \in 1..D /\ (\A i \in 1..k : i \in 1..(k + 1) /\ i \in 1..D)
      BY <1>1, <2>1
    <3>2. d \in Nat /\ d \in I(k + 1)
      BY <1>1, <2>1, <3>1
    <3>3. m \in I(k + 1) /\ m \in Nat
      BY <1>1, <3>1
    <3> QED
      BY <3>2, <3>3
  <2>4. ASSUME NEW i \in 1..(k + 1) PROVE i \in 1..k \/ i = k + 1
    BY <2>1
  <2>5. CASE m >= d
    <3>1. P(k + 1, m)
      BY <2>2, <2>4, <2>5
    <3> QED
      BY <2>3, <3>1
  <2>6. CASE d > m
    <3>1. ASSUME NEW i \in 1..(k + 1) PROVE d >= subscriptions[i].id
      <4>1. i \in 1..D /\ subscriptions[i].id \in Nat
        BY <1>1, <2>1
      <4> QED
        BY <2>2, <2>3, <2>4, <2>6, <4>1
    <3>2. d >= sub_counter
      BY <1>1, <2>2, <2>3, <2>6
    <3> QED
      BY <2>3, <3>1, <3>2
  <2> QED
    BY <2>3, <2>5, <2>6
<1>4. S = Nat
  <2> HIDE DEF S
  <2>1. S \in SUBSET Nat
    BY DEF S
  <2> QED
    BY <1>2, <1>3, <2>1, SetInduction
<1>5. \E m \in I(n) : P(n, m)
  <2>1. n \in Nat /\ n <= D
    BY <1>1 DEF D
  <2>2. n \in S
    BY <1>4, <2>1
  <2> HIDE DEF I, P
  <2> QED
    BY <2>1, <2>2
<1>6. MaxId(n) = CHOOSE m \in I(n) : P(n, m)
  BY DEF MaxId
<1>7. MaxId(n) \in I(n) /\ P(n, MaxId(n))
  <2> HIDE DEF I, P
  <2> QED
    BY <1>5, <1>6
<1>8. MaxId(n) \in 0..MaxSubId
  BY <1>1, <1>7 DEF D
<1> QED
  BY <1>7, <1>8

-----------------------------------------------------------------------------

\* Resubscribe's messages are the chunks of these requests.
Again(n) == [i \in 1..n |-> [id |-> MaxId(i), start |-> Dropped(subscriptions[i].start),
                             syms |-> subscriptions[i].syms]]

\* They are requests, one per subscription.
LEMMA AgainFacts ==
  ASSUME SubType, NEW n \in 0..Len(subscriptions)
  PROVE  /\ Again(n) \in Seq(Named) /\ Len(Again(n)) = n
         /\ ResubscribeMessages(n) = Chunks(Again(n))
<1>1. n \in Nat /\ Len(subscriptions) \in Nat /\ \A i \in 1..n : subscriptions[i] \in Subscription
  BY ElementOfSeq DEF SubType
<1>2. ASSUME NEW i \in 1..n
      PROVE  [id |-> MaxId(i), start |-> Dropped(subscriptions[i].start), syms |-> subscriptions[i].syms] \in Named
  <2>1. subscriptions[i].syms \in Seq(STRING) \ {<< >>} /\ subscriptions[i].start \in Starts
    BY <1>1 DEF Subscription
  <2>2. MaxId(i) \in Nat
    <3>1. i \in 0..Len(subscriptions)
      BY <1>1
    <3>2. MaxId(i) \in 0..MaxSubId /\ MaxSubId \in Nat
      BY <3>1, MaxIdFacts, SubscriptionsAssumption
    <3> QED
      BY <3>2
  <2>3. Dropped(subscriptions[i].start) \in Starts
    BY DEF Dropped, Starts
  <2> QED
    BY <2>1, <2>2, <2>3 DEF Named, Request
<1>3. Again(n) \in [1..n -> Named]
  BY <1>2 DEF Again
<1>4. Again(n) \in Seq(Named) /\ Len(Again(n)) = n
  BY <1>1, <1>3, FunctionSeq
<1> DEFINE R == Again(n)
           M == [i \in 1..n |-> Messages(MaxId(i), subscriptions[i].syms, Dropped(subscriptions[i].start))]
           N == [i \in 1..Len(R) |-> Messages(R[i].id, R[i].syms, R[i].start)]
<1>5. ASSUME NEW i \in 1..n
      PROVE  R[i].id = MaxId(i) /\ R[i].syms = subscriptions[i].syms
             /\ R[i].start = Dropped(subscriptions[i].start)
  BY DEF Again
<1>6. Len(R) = n
  BY <1>4
<1> HIDE DEF R
<1>7. M = N
  BY <1>5, <1>6
<1>8. ResubscribeMessages(n) = FlattenSeq(M) /\ Chunks(R) = FlattenSeq(N)
  BY DEF ResubscribeMessages, Chunks
<1> QED
  BY <1>4, <1>7, <1>8 DEF R

\* Its messages carry no start time.
LEMMA AgainWithoutTime ==
  ASSUME SubType, NEW n \in 0..Len(subscriptions)
  PROVE  LET ms == ResubscribeMessages(n)
         IN  ms \in Seq(Msg) /\ \A k \in 1..Len(ms) : ms[k].start # "time"
<1> DEFINE M == [i \in 1..n |-> Messages(MaxId(i), subscriptions[i].syms, Dropped(subscriptions[i].start))]
           U == {m \in Msg : m.start # "time"}
<1>1. n \in Nat /\ \A i \in 1..n : subscriptions[i] \in Subscription /\ i \in 0..Len(subscriptions)
  BY ElementOfSeq DEF SubType
<1>2. ASSUME NEW i \in 1..n PROVE M[i] \in Seq(U)
  <2> DEFINE d == Dropped(subscriptions[i].start)
             y == subscriptions[i].syms
             id == MaxId(i)
             m == Messages(id, y, d)
  <2>1. y \in Seq(STRING) \ {<< >>} /\ d \in Starts /\ d # "time"
    BY <1>1 DEF Subscription, Dropped, Starts
  <2>2. id \in Nat
    <3>1. MaxId(i) \in 0..MaxSubId /\ MaxSubId \in Nat
      BY <1>1, MaxIdFacts, SubscriptionsAssumption
    <3> QED
      BY <3>1
  <2> HIDE DEF d, y, id
  <2>3. m \in Seq(Msg) /\ \A j \in 1..Len(m) : m[j].start = d
    BY <2>1, <2>2, MessagesFacts
  <2>4. M[i] = m
    BY DEF d, y, id
  <2> HIDE DEF m, M
  <2>5. \A j \in 1..Len(m) : m[j] \in U
    BY <2>1, <2>3, ElementOfSeq
  <2>6. m \in [1..Len(m) -> U] /\ Len(m) \in Nat
    BY <2>3, <2>5
  <2> HIDE DEF U
  <2> QED
    BY <2>4, <2>6, FunctionSeq
<1>3. M \in Seq(Seq(U))
  <2>1. M \in [1..n -> Seq(U)]
    BY <1>2
  <2> HIDE DEF M, U
  <2> QED
    BY <1>1, <2>1, FunctionSeq
<1>4. FlattenSeq(M) \in Seq(U)
  <2> HIDE DEF M, U
  <2>1. << >> \in Seq(Seq(U))
    OBVIOUS
  <2> QED
    BY <1>3, <2>1, FlattenParts
<1>5. ResubscribeMessages(n) = FlattenSeq(M)
  BY DEF ResubscribeMessages
<1> DEFINE ms == ResubscribeMessages(n)
<1>6. ms \in Seq(U)
  BY <1>4, <1>5
<1> HIDE DEF ms, M
<1>7. \A k \in 1..Len(ms) : ms[k] \in U
  <2> HIDE DEF U
  <2> QED
    BY <1>6, ElementOfSeq
<1>8. ms \in Seq(Msg)
  BY <1>6
<1> QED
  BY <1>7, <1>8 DEF ms

\* Where nothing changes but the calls and the connection.
LEMMA SubSame ==
  ASSUME SubInv, UNCHANGED idVars, Writable' => Writable
  PROVE  SubInv'
<1>1. SubType'
  BY DEF SubInv, SubType, idVars
<1>2. Assembled' = Assembled
  BY DEF Assembled, idVars
<1>3. SubMirror'
  BY <1>2 DEF SubInv, SubMirror, idVars
<1>4. SubOrder'
  BY DEF SubInv, SubOrder, idVars
<1> QED
  BY <1>1, <1>3, <1>4 DEF SubInv

\* A new connection.
LEMMA SubReconnected ==
  ASSUME SubInv, NEW gateway, Reconnected(gateway)
  PROVE  SubInv'
<1>1. /\ sub_counter' = 0 /\ received' = << >> /\ UNCHANGED <<subscriptions, in_order>>
      /\ mirrored' = (gateway = "authenticated" /\ subscriptions = << >>)
      /\ caught_up' = (subscriptions = << >>)
  BY DEF Reconnected
<1>2. SubType'
  BY <1>1, SubscriptionsAssumption DEF SubInv, SubType
<1>3. SubMirror'
  <2>1. Nothing \in Acc
    BY DEF Nothing, Acc
  <2>2. << >> \in Seq(Msg)
    OBVIOUS
  <2>3. Assembled' = Nothing
    BY <1>1, <2>1, <2>2, TakeParts DEF Assembled, Nothing
  <2>4. mirrored' => subscriptions' = << >>
    BY <1>1
  <2>5. subscriptions' = << >> => Mirrors(Nothing, subscriptions', in_order')
    BY <2>1 DEF Mirrors, Nothing
  <2> QED
    BY <2>3, <2>4, <2>5 DEF SubMirror
<1>4. SubOrder'
  <2>1. caught_up' => Len(subscriptions') = 0
    BY <1>1
  <2> QED
    BY <1>1, <2>1 DEF SubInv, SubOrder, Ordered
<1> QED
  BY <1>2, <1>3, <1>4 DEF SubInv

\* What the gateway has is requests and a part of one.
LEMMA AssembledParts ==
  ASSUME SubType, NEW more \in Seq(Msg)
  PROVE  /\ Assembled \in Acc
         /\ TakeAll(Nothing, Cat(received, more)) = TakeAll(Assembled, more)
         /\ received = << >> => Assembled = Nothing
<1>1. Nothing \in Acc /\ received \in Seq(Msg) /\ Assembled = TakeAll(Nothing, received)
  BY DEF Nothing, Acc, SubType, Assembled
<1> QED
  BY <1>1, TakeParts

\* A new id is not behind the ones before, and ahead of them until they are exhausted.
LEMMA NewId ==
  ASSUME sub_counter \in 0..MaxSubId
  PROVE  /\ NextSubId \in 0..MaxSubId /\ NextSubId \in Nat
         /\ \A d \in 0..sub_counter : d <= NextSubId /\ (d < MaxSubId => d < NextSubId)
BY SubscriptionsAssumption DEF NextSubId

\* A subscription more in what the client records.
LEMMA OneOrdered ==
  ASSUME NEW subs \in Seq(Subscription),
         NEW id \in 0..MaxSubId, NEW syms \in Seq(STRING) \ {<< >>}, NEW start \in Starts
  PROVE  LET new == Append(subs, [id |-> id, syms |-> syms, start |-> start])
         IN  /\ new \in Seq(Subscription)
             /\ (Ordered(subs) /\ \A i \in 1..Len(subs) :
                                    subs[i].id <= id /\ (subs[i].id < MaxSubId => subs[i].id < id))
                  => Ordered(new)
             /\ (\A i \in 1..Len(subs) : subs[i].id <= id) => \A i \in 1..Len(new) : new[i].id <= id
<1> DEFINE s == [id |-> id, syms |-> syms, start |-> start]
           new == Append(subs, s)
           n == Len(subs)
<1>1. id \in Nat /\ MaxSubId \in Nat
  BY SubscriptionsAssumption
<1>2. s \in Subscription /\ s.id = id
  BY DEF Subscription
<1> HIDE DEF s
<1>3. /\ new \in Seq(Subscription) /\ Len(new) = n + 1 /\ n \in Nat
      /\ new[n + 1] = s /\ \A i \in 1..n : new[i] = subs[i]
  BY <1>2, AppendProperties
<1> HIDE DEF new, n
<1>4. \A i \in 1..(n + 1) : (i \in 1..n /\ new[i] = subs[i]) \/ (i = n + 1 /\ new[i] = s)
  BY <1>3
<1>5. ASSUME Ordered(subs), \A i \in 1..n : subs[i].id <= id /\ (subs[i].id < MaxSubId => subs[i].id < id)
       PROVE  Ordered(new)
  <2> SUFFICES ASSUME NEW i \in 1..(n + 1), NEW j \in 1..(n + 1), i < j
               PROVE  new[i].id <= new[j].id /\ (new[i].id < MaxSubId => new[i].id < new[j].id)
    BY <1>3 DEF Ordered
  <2>1. i \in 1..n /\ new[i] = subs[i]
    BY <1>3
  <2>2. CASE j \in 1..n
    BY <1>3, <1>5, <2>1, <2>2 DEF Ordered, n
  <2>3. CASE j = n + 1
    BY <1>2, <1>3, <1>5, <2>1, <2>3
  <2> QED
    BY <1>4, <2>2, <2>3
<1>6. ASSUME \A i \in 1..n : subs[i].id <= id, NEW i \in 1..(n + 1) PROVE new[i].id <= id
  BY <1>1, <1>2, <1>4, <1>6
<1> QED
  BY <1>3, <1>5, <1>6 DEF new, n, s

\* A subscription more on both sides.
LEMMA OneMore ==
  ASSUME NEW subs \in Seq(Subscription), NEW acc, NEW ids \in BOOLEAN, Mirrors(acc, subs, ids),
         NEW id \in 0..MaxSubId, NEW syms \in Seq(STRING) \ {<< >>}, NEW start \in Starts
  PROVE  Mirrors(TakeAll(acc, Messages(id, syms, start)),
                 Append(subs, [id |-> id, syms |-> syms, start |-> start]), ids)
<1> DEFINE s == [id |-> id, syms |-> syms, start |-> start]
           r == [id |-> id, start |-> start, syms |-> syms]
           new == Append(subs, s)
           whole == Append(acc.whole, r)
           end == [whole |-> whole, part |-> << >>]
           n == Len(subs)
<1>0. id \in Nat /\ MaxSubId \in Nat
  BY SubscriptionsAssumption
<1>1. s \in Subscription /\ s.id = id /\ s.syms = syms /\ s.start = start
  BY DEF Subscription
<1>2. r \in Request /\ r.id = id /\ r.syms = syms /\ r.start = start
  BY <1>0 DEF Request
<1>3. acc \in Acc /\ acc.part = << >> /\ Len(acc.whole) = n
  BY DEF Mirrors
<1>4. acc.whole \in Seq(Request) /\ acc = [whole |-> acc.whole, part |-> << >>]
  BY <1>3 DEF Acc
<1>5. TakeAll(acc, Messages(id, syms, start)) = end
  <2>1. TakeAll([whole |-> acc.whole, part |-> << >>], Messages(id, syms, start)) = end
    BY <1>0, <1>4, OneSubscription
  <2> QED
    BY <1>4, <2>1
<1> HIDE DEF s, r
<1>6. /\ new \in Seq(Subscription) /\ Len(new) = n + 1 /\ n \in Nat
      /\ new[n + 1] = s /\ \A i \in 1..n : new[i] = subs[i]
  BY <1>1, AppendProperties
<1>7. /\ whole \in Seq(Request) /\ Len(whole) = n + 1
      /\ whole[n + 1] = r /\ \A i \in 1..n : whole[i] = acc.whole[i]
  BY <1>2, <1>3, <1>4, AppendProperties
<1> HIDE DEF new, whole, n
<1>8. ASSUME NEW i \in 1..(n + 1)
      PROVE  (i \in 1..n /\ new[i] = subs[i] /\ whole[i] = acc.whole[i]) \/ (i = n + 1 /\ new[i] = s /\ whole[i] = r)
  <2>1. i \in 1..n \/ i = n + 1
    BY <1>6
  <2> QED
    BY <1>6, <1>7, <2>1
<1>9. end.whole = whole /\ end.part = << >> /\ end \in Acc
  <2>1. << >> \in Seq(STRING)
    OBVIOUS
  <2> QED
    BY <1>7, <2>1 DEF Acc
<1> HIDE DEF end
<1>10. Mirrors(end, new, ids)
  <2>1. ASSUME NEW i \in 1..(n + 1)
        PROVE  /\ whole[i].syms = new[i].syms /\ whole[i].start = new[i].start
               /\ ids => whole[i].id = new[i].id
    <3>1. \A j \in 1..n : acc.whole[j].syms = subs[j].syms /\ acc.whole[j].start = subs[j].start
                          /\ (ids => acc.whole[j].id = subs[j].id)
      BY DEF Mirrors, n
    <3> QED
      BY <1>1, <1>2, <1>8, <3>1
  <2> QED
    BY <1>6, <1>7, <1>9, <2>1 DEF Mirrors
<1> QED
  BY <1>5, <1>10 DEF new, n, s

\* A lost connection has nothing the gateway could be asked for.
LEMMA SubLost ==
  ASSUME SubInv, sub_counter' \in 0..MaxSubId, received' \in Seq(Msg), mirrored' = FALSE,
         gw' = "closed", subscriptions' \in Seq(Subscription), in_order' \in BOOLEAN,
         caught_up' \in BOOLEAN, in_order' => Ordered(subscriptions'),
         in_order' /\ caught_up' =>
           \A i \in 1..Len(subscriptions') : subscriptions'[i].id <= sub_counter'
  PROVE  SubInv'
<1>1. SubType'
  BY DEF SubType
<1>2. SubMirror'
  BY DEF SubMirror
<1>3. SubOrder'
  BY DEF SubOrder, Writable
<1> QED
  BY <1>1, <1>2, <1>3 DEF SubInv


\* Subscribe: all chunks reach the gateway, a write fails, or there are no symbols.
LEMMA SubSubscribe ==
  ASSUME SubInv, NEW syms \in SymbolLists, NEW start \in Starts, Subscribe(syms, start)
  PROVE  SubInv'
<1> DEFINE id == NextSubId
           msgs == Messages(id, syms, start)
<1>1. /\ SubType /\ sub_counter \in 0..MaxSubId /\ subscriptions \in Seq(Subscription)
      /\ received \in Seq(Msg) /\ mirrored \in BOOLEAN /\ in_order \in BOOLEAN
      /\ syms \in Seq(STRING) /\ caught_up \in BOOLEAN /\ (mirrored => caught_up)
  BY SubscriptionsAssumption DEF SubInv, SubType
<1>2. /\ id \in 0..MaxSubId /\ id \in Nat
      /\ \A d \in 0..sub_counter : d <= id /\ (d < MaxSubId => d < id)
  BY <1>1, NewId
<1>3. /\ sub_counter' = id /\ conn' = conn
      /\ in_order' = (in_order /\ (caught_up \/ ret' = "tcp_error")) /\ caught_up' = caught_up
  BY DEF Subscribe
<1>4. in_order' \in BOOLEAN /\ (in_order' => in_order)
  BY <1>1, <1>3
<1>5. \A i \in 1..Len(subscriptions) : subscriptions[i].id \in Nat
  <2>1. \A i \in 1..Len(subscriptions) : subscriptions[i] \in Subscription
    BY <1>1, ElementOfSeq
  <2> QED
    BY <2>1, SubscriptionsAssumption DEF Subscription
<1>6. in_order /\ caught_up => \A i \in 1..Len(subscriptions) :
        /\ subscriptions[i].id <= id
        /\ subscriptions[i].id < MaxSubId => subscriptions[i].id < id
  <2> SUFFICES ASSUME in_order, caught_up, NEW i \in 1..Len(subscriptions)
               PROVE  /\ subscriptions[i].id <= id
                      /\ subscriptions[i].id < MaxSubId => subscriptions[i].id < id
    OBVIOUS
  <2>1. subscriptions[i].id \in 0..sub_counter
    BY <1>1, <1>5 DEF SubInv, SubOrder
  <2> QED
    BY <1>2, <2>1
<1>7. CASE syms # << >> /\ received' = received \o msgs /\ mirrored' = mirrored /\ ret' = "ok"
           /\ subscriptions' = Append(subscriptions, [id |-> id, syms |-> syms, start |-> start])
  <2> HIDE DEF id
  <2>1. syms \in Seq(STRING) \ {<< >>}
    BY <1>1, <1>7
  <2>2. msgs \in Seq(Msg) /\ Len(msgs) \in Nat \ {0}
    BY <1>2, <2>1, MessagesFacts
  <2> HIDE DEF msgs
  <2>3. received' = Cat(received, msgs) /\ received' \in Seq(Msg) /\ Len(received') # 0
    BY <1>1, <1>7, <2>2, ConcatParts DEF Cat
  <2>4. in_order' = (in_order /\ caught_up)
    BY <1>3, <1>7
  <2>5. subscriptions' \in Seq(Subscription)
    <3>1. [id |-> id, syms |-> syms, start |-> start] \in Subscription
      BY <1>2, <2>1 DEF Subscription
    <3> QED
      BY <1>1, <1>7, <3>1, AppendProperties
  <2>6. SubType'
    BY <1>1, <1>2, <1>3, <1>4, <1>7, <2>3, <2>5 DEF SubType
  <2>7. Assembled' = TakeAll(Assembled, msgs)
    <3>1. TakeAll(Nothing, Cat(received, msgs)) = TakeAll(Assembled, msgs)
      BY <1>1, <2>2, AssembledParts
    <3> QED
      BY <2>3, <3>1 DEF Assembled, Nothing
  <2>8. mirrored => Mirrors(Assembled', subscriptions', in_order)
    <3> SUFFICES ASSUME mirrored PROVE Mirrors(Assembled', subscriptions', in_order)
      OBVIOUS
    <3>1. Mirrors(Assembled, subscriptions, in_order)
      BY DEF SubInv, SubMirror
    <3> QED
      BY <1>1, <1>2, <1>7, <2>1, <2>7, <3>1, OneMore DEF msgs
  <2>9. SubMirror'
    <3> SUFFICES ASSUME mirrored PROVE Mirrors(Assembled', subscriptions', in_order')
      BY <1>7 DEF SubMirror
    <3>1. in_order' = in_order
      BY <1>1, <2>4
    <3> QED
      BY <2>8, <3>1
  <2>10. SubOrder'
    <3> SUFFICES ASSUME in_order'
                 PROVE  Ordered(subscriptions') /\ \A i \in 1..Len(subscriptions') : subscriptions'[i].id <= sub_counter'
      <4>1. received' # << >>
        BY <2>3
      <4> QED
        BY <4>1 DEF SubOrder
    <3>1. in_order /\ caught_up /\ Ordered(subscriptions)
      BY <2>4 DEF SubInv, SubOrder
    <3>2. \A i \in 1..Len(subscriptions) :
            subscriptions[i].id <= id /\ (subscriptions[i].id < MaxSubId => subscriptions[i].id < id)
      BY <1>6, <3>1 DEF id
    <3> QED
      BY <1>1, <1>2, <1>3, <1>7, <2>1, <3>1, <3>2, OneOrdered
  <2> QED
    BY <2>6, <2>9, <2>10 DEF SubInv
<1>8. CASE /\ syms # << >> /\ mirrored' = FALSE /\ gw' = "closed"
           /\ \/ subscriptions' = subscriptions
              \/ /\ subscriptions' = Append(subscriptions, [id |-> id, syms |-> syms, start |-> start])
                 /\ ret' = "ok"
           /\ \E k \in 0..Len(msgs) : received' = received \o SubSeq(msgs, 1, k)
  <2>1. msgs \in Seq(Msg)
    <3> HIDE DEF id
    <3> QED
      BY <1>1, <1>2, <1>8, MessagesFacts
  <2> HIDE DEF msgs
  <2>2. received' \in Seq(Msg)
    <3>1. PICK k \in 0..Len(msgs) : received' = received \o SubSeq(msgs, 1, k)
      BY <1>8
    <3>2. SubSeq(msgs, 1, k) \in Seq(Msg)
      BY <2>1, TakeDrop
    <3> QED
      BY <1>1, <3>1, <3>2, ConcatParts
  <2>3. /\ subscriptions' \in Seq(Subscription) /\ (in_order' => Ordered(subscriptions'))
        /\ in_order' /\ caught_up' => \A i \in 1..Len(subscriptions') : subscriptions'[i].id <= sub_counter'
    <3>1. CASE subscriptions' = subscriptions
      <4>1. in_order => Ordered(subscriptions)
        BY DEF SubInv, SubOrder
      <4>2. in_order /\ caught_up => \A i \in 1..Len(subscriptions) : subscriptions[i].id <= id
        BY <1>6
      <4> HIDE DEF id
      <4> QED
        BY <1>1, <1>3, <1>4, <3>1, <4>1, <4>2
    <3>2. CASE /\ subscriptions' = Append(subscriptions, [id |-> id, syms |-> syms, start |-> start])
               /\ ret' = "ok"
      <4>1. syms \in Seq(STRING) \ {<< >>} /\ (in_order' => in_order /\ caught_up)
        BY <1>1, <1>3, <1>8, <3>2
      <4>2. in_order => Ordered(subscriptions)
        BY DEF SubInv, SubOrder
      <4> HIDE DEF id
      <4> QED
        BY <1>1, <1>2, <1>3, <1>6, <3>2, <4>1, <4>2, OneOrdered
    <3> QED
      BY <1>8, <3>1, <3>2
  <2> QED
    BY <1>1, <1>2, <1>3, <1>4, <1>8, <2>2, <2>3, SubLost
<1>9. CASE ret' = "invalid_argument" /\ UNCHANGED <<subscriptions, received, mirrored, gw>>
  <2>1. in_order' = (in_order /\ caught_up) /\ Assembled' = Assembled
    BY <1>3, <1>9 DEF Assembled
  <2>2. SubType'
    BY <1>1, <1>2, <1>3, <1>4, <1>9 DEF SubType
  <2>3. SubMirror'
    BY <1>9, <2>1 DEF SubInv, SubMirror, Mirrors
  <2>4. SubOrder'
    <3> SUFFICES ASSUME in_order, caught_up
                 PROVE  /\ Ordered(subscriptions)
                        /\ \A i \in 1..Len(subscriptions) : subscriptions[i].id <= id
                        /\ received = << >> /\ Writable => subscriptions = << >>
      BY <1>3, <1>9, <2>1 DEF SubOrder, Writable
    <3>1. \A i \in 1..Len(subscriptions) : subscriptions[i].id <= id
      BY <1>6
    <3> QED
      BY <3>1 DEF SubInv, SubOrder
  <2> QED
    BY <2>2, <2>3, <2>4 DEF SubInv
<1>10. ASSUME msgs \in Seq(Msg) PROVE SubSeq(msgs, 1, Len(msgs)) = msgs
  BY <1>10, TakeDrop
<1>11. CASE syms = << >>
  BY <1>9, <1>11 DEF Subscribe
<1>12. CASE syms # << >>
  <2>1. msgs \in Seq(Msg) /\ Len(msgs) \in Nat
    <3> HIDE DEF id
    <3> QED
      BY <1>1, <1>2, <1>12, MessagesFacts
  <2>2. PICK k \in 0..Len(msgs) :
          /\ received' = received \o SubSeq(msgs, 1, k) /\ gw' = IF k = Len(msgs) THEN gw ELSE "closed"
          /\ \/ /\ subscriptions' = Append(subscriptions, [id |-> id, syms |-> syms, start |-> start])
                /\ mirrored' = (mirrored /\ k = Len(msgs)) /\ ret' = "ok"
             \/ subscriptions' = subscriptions /\ mirrored' = FALSE /\ k < Len(msgs)
    BY <1>12 DEF Subscribe, WriteAllMessages, WriteFails, Arrive
  <2> HIDE DEF msgs
  <2>3. CASE k = Len(msgs)
    <3>1. mirrored' = mirrored /\ received' = received \o msgs
      BY <1>1, <1>10, <2>1, <2>2, <2>3
    <3> QED
      BY <1>7, <1>12, <2>1, <2>2, <2>3, <3>1
  <2>4. CASE k # Len(msgs)
    <3>1. mirrored' = FALSE /\ gw' = "closed"
      BY <2>2, <2>4
    <3> QED
      BY <1>8, <1>12, <2>2, <3>1
  <2> QED
    BY <2>3, <2>4
<1> QED
  BY <1>11, <1>12

\* Resubscribe changes start times only.
LEMMA AfterFacts ==
  ASSUME SubType, NEW m \in 0..Len(subscriptions), AfterResubscribing(m)
  PROVE  /\ sub_counter' = MaxId(m) /\ sub_counter' \in 0..MaxSubId
         /\ subscriptions' \in Seq(Subscription) /\ Len(subscriptions') = Len(subscriptions)
         /\ \A i \in 1..Len(subscriptions) :
              /\ subscriptions'[i].id = subscriptions[i].id
              /\ subscriptions'[i].syms = subscriptions[i].syms
              /\ i <= m => subscriptions'[i].start = Dropped(subscriptions[i].start)
<1> DEFINE n == Len(subscriptions)
           After(i) == IF i <= m THEN [subscriptions[i] EXCEPT !.start = Dropped(@)] ELSE subscriptions[i]
<1>1. n \in Nat /\ \A i \in 1..n : subscriptions[i] \in Subscription
  BY ElementOfSeq DEF SubType
<1>2. sub_counter' = MaxId(m) /\ subscriptions' = [i \in 1..n |-> After(i)]
  BY DEF AfterResubscribing
<1>3. ASSUME NEW i \in 1..n
      PROVE  /\ After(i) \in Subscription
             /\ After(i).id = subscriptions[i].id /\ After(i).syms = subscriptions[i].syms
             /\ i <= m => After(i).start = Dropped(subscriptions[i].start)
  <2>1. subscriptions[i] \in Subscription /\ Dropped(subscriptions[i].start) \in Starts
    BY <1>1 DEF Dropped, Starts
  <2> DEFINE s == subscriptions[i]
             d == Dropped(s.start)
  <2>2. [s EXCEPT !.start = d] \in Subscription /\ [s EXCEPT !.start = d].id = s.id
        /\ [s EXCEPT !.start = d].syms = s.syms /\ [s EXCEPT !.start = d].start = d
    <3> HIDE DEF d, s
    <3>1. s \in Subscription /\ d \in Starts
      BY <2>1 DEF s, d
    <3> QED
      BY <3>1 DEF Subscription
  <2>3. CASE i <= m
    BY <2>2, <2>3
  <2>4. CASE ~(i <= m)
    BY <2>1, <2>4
  <2> QED
    BY <2>3, <2>4
<1> HIDE DEF After
<1>4. subscriptions' \in Seq(Subscription) /\ Len(subscriptions') = n
  <2>1. subscriptions' \in [1..n -> Subscription]
    BY <1>2, <1>3
  <2> QED
    BY <1>1, <2>1, FunctionSeq
<1>5. \A i \in 1..n : subscriptions'[i] = After(i)
  BY <1>2
<1>6. sub_counter' \in 0..MaxSubId
  BY <1>2, MaxIdFacts
<1> QED
  BY <1>2, <1>3, <1>4, <1>5, <1>6

\* On a new connection the ids of Resubscribe are the ones recorded.
LEMMA IdsAgain ==
  ASSUME SubType, sub_counter = 0, Ordered(subscriptions), NEW i \in 1..Len(subscriptions)
  PROVE  MaxId(i) = subscriptions[i].id
<1>1. /\ Len(subscriptions) \in Nat /\ i \in 0..Len(subscriptions)
      /\ \A j \in 1..Len(subscriptions) : subscriptions[j].id \in Nat
  <2>1. \A j \in 1..Len(subscriptions) : subscriptions[j] \in Subscription
    BY ElementOfSeq DEF SubType
  <2>2. Len(subscriptions) \in Nat
    BY DEF SubType
  <2> QED
    BY <2>1, <2>2, SubscriptionsAssumption DEF Subscription
<1>2. /\ MaxId(i) \in 0..MaxSubId /\ \A j \in 1..i : MaxId(i) >= subscriptions[j].id
      /\ MaxId(i) \in {sub_counter} \cup {subscriptions[j].id : j \in 1..i}
  BY <1>1, MaxIdFacts
<1>3. MaxId(i) >= subscriptions[i].id /\ MaxId(i) \in Nat
  BY <1>1, <1>2, SubscriptionsAssumption
<1>4. CASE MaxId(i) = sub_counter
  BY <1>1, <1>3, <1>4
<1>5. CASE \E j \in 1..i : MaxId(i) = subscriptions[j].id
  <2>1. PICK j \in 1..i : MaxId(i) = subscriptions[j].id
    BY <1>5
  <2>2. j \in 1..Len(subscriptions) /\ j <= i
    BY <1>1
  <2>3. subscriptions[j].id <= subscriptions[i].id
    BY <1>1, <2>2 DEF Ordered
  <2> QED
    BY <1>1, <1>3, <2>1, <2>2, <2>3
<1> QED
  BY <1>2, <1>4, <1>5

\* Resubscribe: every subscription reaches the gateway again, or a write fails.
LEMMA SubResubscribe ==
  ASSUME SubInv, Resubscribe
  PROVE  SubInv'
<1> DEFINE n == Len(subscriptions)
           msgs == ResubscribeMessages(n)
<1>1. /\ SubType /\ sub_counter \in 0..MaxSubId /\ subscriptions \in Seq(Subscription)
      /\ received \in Seq(Msg) /\ in_order \in BOOLEAN /\ in_order' = in_order
      /\ caught_up \in BOOLEAN
      /\ n \in 0..Len(subscriptions) /\ n \in Nat
  BY DEF SubInv, SubType, Resubscribe
<1>2. Again(n) \in Seq(Named) /\ Len(Again(n)) = n /\ msgs = Chunks(Again(n))
  BY <1>1, AgainFacts
<1>3. /\ msgs \in Seq(Msg) /\ (n # 0 => msgs # << >>)
      /\ TakeAll(Nothing, msgs) = [whole |-> Again(n), part |-> << >>]
  <2>1. n # 0 => Again(n) # << >>
    BY <1>2
  <2> DEFINE again == Again(n)
  <2> HIDE DEF msgs, again, n
  <2>2. Chunks(again) \in Seq(Msg) /\ (again # << >> => Chunks(again) # << >>)
         /\ TakeAll(Nothing, Chunks(again)) = [whole |-> again, part |-> << >>]
    BY <1>2, ManySubscriptions DEF again
  <2> QED
    BY <1>2, <2>1, <2>2 DEF again
<1>4. subscriptions # << >> => n # 0
  BY <1>1, EmptySeq
<1>5. CASE /\ msgs = << >> \/ Writable
           /\ received' = received \o msgs /\ gw' = gw /\ AfterResubscribing(n)
           /\ mirrored' = (gw # "unauthenticated" /\ received = << >>) /\ caught_up' = TRUE
  <2>1. /\ sub_counter' = MaxId(n) /\ sub_counter' \in 0..MaxSubId
        /\ subscriptions' \in Seq(Subscription) /\ Len(subscriptions') = n
        /\ \A i \in 1..n : /\ subscriptions'[i].id = subscriptions[i].id
                           /\ subscriptions'[i].syms = subscriptions[i].syms
                           /\ i <= n => subscriptions'[i].start = Dropped(subscriptions[i].start)
    BY <1>1, <1>5, AfterFacts
  <2> HIDE DEF n, msgs
  <2>2. received' \in Seq(Msg) /\ received' = Cat(received, msgs)
    BY <1>1, <1>3, <1>5, ConcatParts DEF Cat
  <2>3. SubType'
    BY <1>1, <1>5, <2>1, <2>2 DEF SubType
  <2>4. in_order /\ received = << >> /\ n # 0 => sub_counter = 0 /\ Ordered(subscriptions)
    <3>1. n # 0 => subscriptions # << >>
      BY <1>1 DEF n
    <3> QED
      BY <1>3, <1>5, <3>1 DEF SubInv, SubOrder
  <2>5. SubMirror'
    <3> SUFFICES ASSUME received = << >> PROVE Mirrors(Assembled', subscriptions', in_order)
      BY <1>1, <1>5 DEF SubMirror
    <3> DEFINE acc == [whole |-> Again(n), part |-> << >>]
    <3>1. received' = msgs
      BY <1>3, <1>5, ConcatEmptySeq
    <3>2. Assembled' = acc
      BY <1>3, <3>1 DEF Assembled, Nothing
    <3>3. acc.whole = Again(n) /\ acc.part = << >>
      OBVIOUS
    <3>4. acc \in Acc
      <4>1. \A r \in Named : r \in Request
        BY DEF Named
      <4>2. Again(n) \in Seq(Request) /\ << >> \in Seq(STRING)
        BY <1>2, <4>1
      <4> QED
        BY <4>2 DEF Acc
    <3> HIDE DEF acc
    <3>5. ASSUME NEW i \in 1..n
          PROVE  /\ Again(n)[i].syms = subscriptions'[i].syms /\ Again(n)[i].start = subscriptions'[i].start
                 /\ in_order => Again(n)[i].id = subscriptions'[i].id
      <4>1. /\ Again(n)[i].syms = subscriptions[i].syms /\ Again(n)[i].id = MaxId(i)
            /\ Again(n)[i].start = Dropped(subscriptions[i].start)
        BY DEF Again
      <4>2. i <= n /\ n # 0
        BY <1>1
      <4>3. in_order => MaxId(i) = subscriptions[i].id
        BY <1>1, <2>4, <4>2, IdsAgain DEF n
      <4> QED
        BY <2>1, <4>1, <4>2, <4>3
    <3>6. Mirrors(acc, subscriptions', in_order)
      BY <1>2, <2>1, <3>3, <3>4, <3>5 DEF Mirrors
    <3> QED
      BY <3>2, <3>6
  <2>6. SubOrder'
    <3> SUFFICES ASSUME in_order
                 PROVE  /\ Ordered(subscriptions')
                        /\ \A i \in 1..n : subscriptions'[i].id <= sub_counter'
                        /\ received' = << >> => subscriptions' = << >>
      BY <1>1, <2>1 DEF SubOrder
    <3>1. Ordered(subscriptions')
      BY <2>1 DEF SubInv, SubOrder, Ordered, n
    <3>2. \A i \in 1..n : MaxId(n) >= subscriptions[i].id
      BY <1>1, MaxIdFacts
    <3>3. ASSUME NEW i \in 1..n PROVE subscriptions'[i].id <= sub_counter'
      <4>1. subscriptions'[i] \in Subscription
        BY <2>1, ElementOfSeq
      <4>2. subscriptions'[i].id \in Nat
        BY <4>1, SubscriptionsAssumption DEF Subscription
      <4> QED
        BY <2>1, <3>2, <4>2, SubscriptionsAssumption
    <3>4. received' = << >> => subscriptions' = << >>
      <4> SUFFICES ASSUME received' = << >> PROVE subscriptions' = << >>
        OBVIOUS
      <4>1. Len(received') = Len(received) + Len(msgs) /\ Len(received') = 0
        <5>1. Len(received') = 0
          OBVIOUS
        <5> QED
          BY <1>1, <1>3, <1>5, <5>1, ConcatParts
      <4>2. Len(msgs) = 0
        BY <1>1, <1>3, <4>1
      <4>3. msgs = << >>
        BY <1>3, <4>2, EmptySeq
      <4>4. n = 0
        BY <1>3, <4>3
      <4> QED
        BY <2>1, <4>4, EmptySeq
    <3> QED
      BY <3>1, <3>3, <3>4
  <2> QED
    BY <2>3, <2>5, <2>6 DEF SubInv
<1>6. ASSUME NEW i \in 0..n, NEW k \in 0..Len(msgs), received' = received \o SubSeq(msgs, 1, k),
             gw' = "closed", AfterResubscribing(i), mirrored' = FALSE,
             \/ caught_up' = TRUE /\ i = n
             \/ caught_up' = caught_up
      PROVE  SubInv'
  <2>1. /\ sub_counter' \in 0..MaxSubId /\ subscriptions' \in Seq(Subscription)
        /\ Len(subscriptions') = Len(subscriptions) /\ sub_counter' = MaxId(i)
        /\ \A j \in 1..Len(subscriptions) : subscriptions'[j].id = subscriptions[j].id
    BY <1>1, <1>6, AfterFacts
  <2> HIDE DEF msgs
  <2>2. received' \in Seq(Msg)
    <3>1. SubSeq(msgs, 1, k) \in Seq(Msg)
      BY <1>3, TakeDrop
    <3> QED
      BY <1>1, <1>6, <3>1, ConcatParts
  <2>3. in_order' => Ordered(subscriptions')
    BY <1>1, <2>1 DEF SubInv, SubOrder, Ordered
  <2>4. ASSUME in_order, caught_up', NEW j \in 1..Len(subscriptions)
        PROVE  subscriptions'[j].id <= sub_counter'
    <3>1. /\ MaxId(i) \in 0..MaxSubId /\ MaxId(i) >= sub_counter
          /\ \A l \in 1..i : MaxId(i) >= subscriptions[l].id
      BY <1>1, MaxIdFacts
    <3>2. subscriptions[j] \in Subscription
      BY <1>1, ElementOfSeq
    <3>3. subscriptions[j].id \in Nat /\ MaxId(i) \in Nat /\ sub_counter \in Nat
      BY <1>1, <3>1, <3>2, SubscriptionsAssumption DEF Subscription
    <3>4. CASE i = n
      BY <2>1, <3>1, <3>3, <3>4
    <3>5. CASE caught_up' = caught_up
      <4>1. subscriptions[j].id <= sub_counter
        BY <2>4, <3>5 DEF SubInv, SubOrder
      <4> QED
        BY <2>1, <3>1, <3>3, <4>1
    <3> QED
      BY <1>6, <3>4, <3>5
  <2>5. caught_up' \in BOOLEAN
    BY <1>1, <1>6
  <2> QED
    BY <1>1, <1>6, <2>1, <2>2, <2>3, <2>4, <2>5, SubLost
<1>7. CASE \E k \in 0..Len(msgs) :
             /\ WriteAllMessages(msgs, k) /\ AfterResubscribing(n) /\ caught_up' = TRUE
             /\ mirrored' = (gw # "unauthenticated" /\ received = << >> /\ k = Len(msgs))
  <2>1. PICK k \in 0..Len(msgs) :
             /\ WriteAllMessages(msgs, k) /\ AfterResubscribing(n) /\ caught_up' = TRUE
             /\ mirrored' = (gw # "unauthenticated" /\ received = << >> /\ k = Len(msgs))
    BY <1>7
  <2> HIDE DEF msgs
  <2>2. CASE k = Len(msgs)
    <3>1. SubSeq(msgs, 1, Len(msgs)) = msgs /\ (msgs # << >> => k > 0)
      BY <1>3, <2>2, TakeDrop, EmptySeq
    <3>2. received' = received \o msgs /\ gw' = gw /\ (msgs = << >> \/ Writable)
      BY <2>1, <2>2, <3>1 DEF WriteAllMessages, Arrive
    <3>3. mirrored' = (gw # "unauthenticated" /\ received = << >>)
      BY <2>1, <2>2
    <3> QED
      BY <1>5, <2>1, <3>2, <3>3
  <2>3. CASE k # Len(msgs)
    <3>1. received' = received \o SubSeq(msgs, 1, k) /\ gw' = "closed" /\ mirrored' = FALSE
      BY <2>1, <2>3 DEF WriteAllMessages, Arrive
    <3>2. n \in 0..n
      BY <1>1
    <3> QED
      BY <1>6, <2>1, <3>1, <3>2
  <2> QED
    BY <2>2, <2>3
<1>8. CASE \E i \in 1..n :
             /\ \E k \in 0..(Len(ResubscribeMessages(i)) - 1) : WriteFails(msgs, k)
             /\ AfterResubscribing(i) /\ mirrored' = FALSE /\ caught_up' = caught_up
  <2>1. PICK i \in 1..n :
             /\ \E k \in 0..(Len(ResubscribeMessages(i)) - 1) : WriteFails(msgs, k)
             /\ AfterResubscribing(i) /\ mirrored' = FALSE /\ caught_up' = caught_up
    BY <1>8
  <2>2. PICK k \in 0..(Len(ResubscribeMessages(i)) - 1) : WriteFails(msgs, k)
    BY <2>1
  <2>3. i \in 0..n /\ k \in Nat
    BY <1>1
  <2> HIDE DEF msgs
  <2>4. Len(msgs) \in Nat
    BY <1>3
  <2>5. k < Len(msgs) /\ received' = received \o SubSeq(msgs, 1, k) /\ gw' = "closed"
    BY <2>2, <2>3, <2>4 DEF WriteFails, Arrive
  <2>6. k \in 0..Len(msgs)
    BY <2>3, <2>4, <2>5
  <2> QED
    BY <1>6, <2>1, <2>3, <2>5, <2>6
<1> QED
  BY <1>7, <1>8 DEF Resubscribe

\* Before the first call.
LEMMA SubInitInv == SubInit => SubInv
<1> SUFFICES ASSUME SubInit PROVE SubInv
  OBVIOUS
<1>1. SubType
  BY SubscriptionsAssumption DEF SubInit, SubType
<1>2. SubMirror
  <2>1. << >> \in Seq(Msg) /\ received = << >> /\ subscriptions = << >>
    BY DEF SubInit
  <2>2. Assembled = Nothing /\ Assembled \in Acc
    BY <1>1, <2>1, AssembledParts
  <2> QED
    BY <2>1, <2>2 DEF SubMirror, Mirrors, Nothing
<1>3. SubOrder
  BY DEF SubInit, SubOrder, Ordered
<1> QED
  BY <1>1, <1>2, <1>3 DEF SubInv

\* Every operation on subscriptions keeps what the client records and what the gateway has
\* together.
LEMMA SubNextInv == SubInv /\ [SubNext]_subVars => SubInv'
<1> SUFFICES ASSUME SubInv, [SubNext]_subVars PROVE SubInv'
  OBVIOUS
<1>1. CASE \E syms \in SymbolLists, start \in Starts : Subscribe(syms, start)
  BY <1>1, SubSubscribe
<1>2. CASE Resubscribe
  BY <1>2, SubResubscribe
<1>3. CASE \E gateway \in {"authenticated", "unauthenticated"} : Reconnected(gateway)
  BY <1>3, SubReconnected
<1>4. CASE ReconnectFailed \/ Stopped \/ ConnectionLost \/ UNCHANGED subVars
  <2>1. UNCHANGED idVars /\ (Writable' => Writable)
    BY <1>4 DEF ReconnectFailed, Stopped, ConnectionLost, subVars, Writable
  <2> QED
    BY <2>1, SubSame
<1> QED
  BY <1>1, <1>2, <1>3, <1>4 DEF SubNext

\* The gateway's requests have the symbols and starts the client records.
LEMMA MirrorsClient == SubInv => GatewayMirrorsClient
<1> SUFFICES ASSUME SubInv, mirrored
             PROVE  Assembled.part = << >> /\ Requests(Assembled.whole) = Requests(subscriptions)
  BY DEF GatewayMirrorsClient
<1> DEFINE w == Assembled.whole
<1>1. /\ Assembled.part = << >> /\ Len(w) = Len(subscriptions)
      /\ \A i \in 1..Len(subscriptions) : w[i].syms = subscriptions[i].syms /\ w[i].start = subscriptions[i].start
  BY DEF SubInv, SubMirror, Mirrors
<1> HIDE DEF w
<1>2. Requests(w) = Requests(subscriptions)
  BY <1>1 DEF Requests
<1> QED
  BY <1>1, <1>2 DEF w

\* The gateway knows the ids the client records, and they are distinct.
LEMMA InvIdsAgree == SubInv => IdsAgree
<1> SUFFICES ASSUME SubInv, in_order
             PROVE  /\ mirrored => Ids(Assembled.whole) = Ids(subscriptions)
                    /\ \A i, j \in 1..Len(subscriptions) :
                         i # j /\ subscriptions[i].id < MaxSubId
                           => subscriptions[i].id # subscriptions[j].id
  BY DEF IdsAgree
<1>1. mirrored => Ids(Assembled.whole) = Ids(subscriptions)
  <2> SUFFICES ASSUME mirrored PROVE Ids(Assembled.whole) = Ids(subscriptions)
    OBVIOUS
  <2> DEFINE w == Assembled.whole
  <2>1. /\ Len(w) = Len(subscriptions)
        /\ \A i \in 1..Len(subscriptions) : w[i].id = subscriptions[i].id
    BY DEF SubInv, SubMirror, Mirrors
  <2> HIDE DEF w
  <2>2. Ids(w) = Ids(subscriptions)
    BY <2>1 DEF Ids
  <2> QED
    BY <2>2 DEF w
<1>2. ASSUME NEW i \in 1..Len(subscriptions), NEW j \in 1..Len(subscriptions), i # j,
             subscriptions[i].id < MaxSubId, subscriptions[i].id = subscriptions[j].id
      PROVE  FALSE
  <2>1. \A k \in 1..Len(subscriptions) : subscriptions[k] \in Subscription
    BY ElementOfSeq DEF SubInv, SubType
  <2>2. subscriptions[i].id \in Nat /\ subscriptions[j].id \in Nat
    BY <2>1, SubscriptionsAssumption DEF Subscription
  <2>3. Len(subscriptions) \in Nat /\ Ordered(subscriptions)
    BY DEF SubInv, SubType, SubOrder
  <2>4. i < j \/ j < i
    BY <1>2, <2>3
  <2>5. \/ i < j /\ subscriptions[i].id < subscriptions[j].id
        \/ j < i /\ subscriptions[j].id < subscriptions[i].id
    BY <1>2, <2>3, <2>4 DEF Ordered
  <2> QED
    BY <1>2, <2>2, <2>5
<1> QED
  BY <1>1, <1>2

\* What the operations on subscriptions preserve: types, the requests the gateway has put
\* together and the order of the ids.
THEOREM SubInvHolds == SubSpec => []SubInv
<1>1. SubInit => SubInv
  BY SubInitInv
<1>2. SubInv /\ [SubNext]_subVars => SubInv'
  BY SubNextInv
<1> QED
  BY <1>1, <1>2, PTL DEF SubSpec

\* Resubscribe never asks the gateway to replay, whatever was subscribed to before and
\* wherever an earlier call failed.
THEOREM ResubscribeDropsStartsHolds == SubSpec => ResubscribeDropsStarts
<1>1. SubInv /\ [SubNext]_subVars => [ResubscribeStep]_subVars
  <2> SUFFICES ASSUME SubInv, [SubNext]_subVars, ret' = "ok",
                      Len(subscriptions') = Len(subscriptions), NEW k \in NewMessages
               PROVE  received'[k].start # "time"
    BY DEF ResubscribeStep
  <2>1. received \in Seq(Msg) /\ Len(received) \in Nat /\ SubType /\ subscriptions \in Seq(Subscription)
        /\ Len(subscriptions) \in Nat
    BY DEF SubInv, SubType
  <2>2. received' # received
    BY <2>1 DEF NewMessages
  <2>3. ASSUME NEW gateway, Reconnected(gateway) PROVE FALSE
    <3>1. Len(received') = 0
      BY <2>3 DEF Reconnected
    <3> QED
      BY <2>1, <3>1 DEF NewMessages
  <2>4. ~(ReconnectFailed \/ Stopped \/ ConnectionLost \/ UNCHANGED subVars)
    BY <2>2 DEF ReconnectFailed, Stopped, ConnectionLost, idVars, subVars
  <2>5. ASSUME NEW syms, NEW start, Subscribe(syms, start) PROVE FALSE
    <3>1. subscriptions' = Append(subscriptions, [id |-> NextSubId, syms |-> syms, start |-> start])
      BY <2>5 DEF Subscribe
    <3>2. Len(subscriptions') = Len(subscriptions) + 1
      BY <2>1, <3>1
    <3> QED
      BY <2>1, <3>2
  <2>6. Resubscribe
    BY <2>3, <2>4, <2>5 DEF SubNext
  <2> DEFINE ms == ResubscribeMessages(Len(subscriptions))
  <2>7. PICK l \in 0..Len(ms) : received' = received \o SubSeq(ms, 1, l)
    BY <2>6 DEF Resubscribe, WriteAllMessages, Arrive
  <2>8. ms \in Seq(Msg) /\ \A j \in 1..Len(ms) : ms[j].start # "time"
    BY <2>1, AgainWithoutTime
  <2> HIDE DEF ms
  <2>9. /\ Len(received') = Len(received) + l /\ l \in Nat /\ Len(ms) \in Nat /\ l <= Len(ms)
        /\ \A j \in 1..l : received'[Len(received) + j] = ms[j]
    <3>1. /\ SubSeq(ms, 1, l) \in Seq(Msg) /\ Len(SubSeq(ms, 1, l)) = l
          /\ \A j \in 1..l : SubSeq(ms, 1, l)[j] = ms[j]
      BY <2>8
    <3> QED
      BY <2>1, <2>7, <2>8, <3>1, ConcatParts
  <2>10. k - Len(received) \in 1..l /\ k - Len(received) \in 1..Len(ms) /\ Len(received) + (k - Len(received)) = k
    BY <2>1, <2>9 DEF NewMessages
  <2> QED
    BY <2>8, <2>9, <2>10
<1> QED
  BY <1>1, SubInvHolds, PTL DEF SubSpec, ResubscribeDropsStarts

\* Every request the gateway of a connection without a failed write has put together is a
\* subscription the client records, chunks, symbols and start, and the other way round.
THEOREM GatewayMirrorsClientHolds == SubSpec => []GatewayMirrorsClient
<1>1. SubInv => GatewayMirrorsClient
  BY MirrorsClient
<1> QED
  BY <1>1, SubInvHolds, PTL

\* The ids of IncrementSubCounter and of Resubscribe stay distinct and the same on both
\* sides, across failed calls and reconnects.
THEOREM IdsAgreeHolds == SubSpec => []IdsAgree
<1>1. SubInv => IdsAgree
  BY InvIdsAgree
<1> QED
  BY <1>1, SubInvHolds, PTL

\* The steps of a session are steps of its subscriptions, or leave them alone.
LEMMA SessionSubInv == SubInv /\ [Next]_vars => SubInv'
<1> SUFFICES ASSUME SubInv, [Next]_vars PROVE SubInv'
  OBVIOUS
<1>1. CASE \E syms \in SymbolLists, start \in Starts : SubscribeCall(syms, start)
  BY <1>1, SubSubscribe DEF SubscribeCall
<1>2. CASE ResubscribeCall
  BY <1>2, SubResubscribe DEF ResubscribeCall
<1>3. CASE Reconnect
  BY <1>3, SubReconnected, SubSame DEF Reconnect, ReconnectFailed, Writable
<1>4. CASE GatewayCloses \/ Stop
  <2>1. UNCHANGED idVars /\ ~Writable'
    BY <1>4 DEF GatewayCloses, ConnectionLost, Stop, Stopped, Writable
  <2> QED
    BY <2>1, SubSame
<1>5. CASE Start
  <2>1. UNCHANGED idVars /\ (Writable' => Writable)
    BY <1>5 DEF Start, Writable
  <2> QED
    BY <2>1, SubSame
<1>6. CASE (\E len \in RecordLens : GatewaySends(len)) \/ Tick \/ UNCHANGED vars
  <2>1. UNCHANGED idVars /\ (Writable' => Writable)
    BY <1>6 DEF GatewaySends, Tick, connVars, vars, subVars, Writable
  <2> QED
    BY <2>1, SubSame
<1>7. CASE StartPrelude \/ StartMetadata \/ StartOverruns \/ ReadExactFails
  <2>1. UNCHANGED idVars /\ (Writable' => Writable)
    BY <1>7 DEF StartPrelude, StartMetadata, StartOverruns, ReadExactFails, connVars, Writable
  <2> QED
    BY <2>1, SubSame
<1>8. CASE \/ \E t \in Timeouts : NextRecordTimeout(t)
           \/ \E t \in Timeouts \cup {HbTimeout} : FillBufferCall(t)
           \/ NextRecordForever \/ TryNextRecord
  <2>1. UNCHANGED idVars /\ (Writable' => Writable)
    BY <1>8 DEF NextRecordTimeout, NextRecordForever, NextRecord, FillBufferCall, TryNextRecord,
                connVars, Writable
  <2> QED
    BY <2>1, SubSame
<1>9. CASE CallStep
  <2>1. UNCHANGED idVars /\ (Writable' => Writable)
    BY <1>9 DEF CallStep, ReadSome, ReadsNothing, ReadFails, PollTimesOut, connVars, Writable
  <2> QED
    BY <2>1, SubSame
<1> QED
  BY <1>1, <1>2, <1>3, <1>4, <1>5, <1>6, <1>7, <1>8, <1>9 DEF Next

\* Both also hold in a whole session, with Start, the reads, heartbeats and Stop in
\* between, where the gateway streams while the application subscribes.
THEOREM SessionKeepsSubscriptions == Spec => [](GatewayMirrorsClient /\ IdsAgree)
<1>1. Init => SubInv
  BY SubInitInv DEF Init
<1>2. SubInv /\ [Next]_vars => SubInv'
  BY SessionSubInv
<1>3. SubInv => GatewayMirrorsClient /\ IdsAgree
  BY MirrorsClient, InvIdsAgree
<1> QED
  BY <1>1, <1>2, <1>3, PTL DEF Spec

-----------------------------------------------------------------------------
(* Authentication.                                                         *)

\* What the gateway says before and after the reply.
Greets(c) == Cat(Cat(<<"lsg", "nl">>, c), <<"nl">>)
Answers(r) == Cat(Cat(r, <<"nl">>), Extra)

\* What is to come for the client, and with it what it has not consumed.
ToCome == Cat(arrived, to_send)
Held == Cat(unread, ToCome)

\* It is what the gateway says, or a beginning of it if the gateway has closed.
Tells(w, g) == Begins(w, g) /\ (~closed => w = g)

\* The tokens of the lines and those around them.
Letters == STRING \cup {"lsg", "nl"}
NoNewline(s) == \A i \in 1..Len(s) : s[i] # "nl"
Misread == {"malformed_response", "invalid_argument", "no_success", "rejected"}

AuthTypes ==
  /\ unread \in Seq(Letters) /\ arrived \in Seq(Letters) /\ to_send \in Seq(Letters)
  /\ response \in Responses \cup {<< >>} /\ closed \in BOOLEAN
AuthInv ==
  /\ AuthTypes
  /\ pc \in {"begin", "challenge", "challenge_more"} => \E c \in Challenges : Tells(Held, Greets(c))
  /\ pc = "reply" => arrived = << >> /\ to_send = << >>
  /\ pc = "deadline" => Tells(ToCome, Answers(response))
  /\ pc = "response" => Tells(Held, Answers(response)) /\ NoNewline(unread)
  /\ pc = "authenticated" => Verdict(response) = "accepted" /\ (~closed => Held = Extra)
  /\ pc # "failed" => why = "none"
  /\ why \in Misread => Verdict(response) = why

\* The elements of a sequence made of two.
PartsOf(w, u, v, B) ==
  /\ w \in Seq(B) /\ Len(w) = Len(u) + Len(v)
  /\ \A i \in 1..Len(u) : w[i] = u[i]
  /\ \A i \in 1..Len(v) : w[Len(u) + i] = v[i]

\* They are those of the two.
LEMMA CatParts ==
  ASSUME NEW B, NEW u \in Seq(B), NEW v \in Seq(B)
  PROVE  PartsOf(Cat(u, v), u, v, B)
  BY ConcatParts DEF PartsOf, Cat

\* The least of some numbers is one of them, and there is one if there are any.
LEMMA LeastOf ==
  ASSUME NEW at \in SUBSET Nat
  PROVE  /\ at = {} => Least(at) = 0
         /\ at # {} => Least(at) \in at /\ \A j \in at : Least(at) <= j
<1>1. ASSUME at # {} PROVE \E k \in at : \A j \in at : k <= j
  BY <1>1, NatMin
<1> QED
  BY <1>1, ZenonT(60) DEF Least

\* Where the first newline behind an index is.
LEMMA NewlineFacts ==
  ASSUME NEW B, NEW s \in Seq(B), NEW i \in Nat
  PROVE  /\ Newline(s, i) = 0 => \A k \in (i + 1)..Len(s) : s[k] # "nl"
         /\ Newline(s, i) # 0 =>
              /\ Newline(s, i) \in (i + 1)..Len(s) /\ s[Newline(s, i)] = "nl"
              /\ \A k \in (i + 1)..Len(s) : s[k] = "nl" => Newline(s, i) <= k
<1> DEFINE at == {k \in (i + 1)..Len(s) : s[k] = "nl"}
<1>1. at \in SUBSET Nat /\ 0 \notin at
  OBVIOUS
<1>2. Newline(s, i) = Least(at)
  BY DEF Newline
<1>3. /\ at = {} => Least(at) = 0
      /\ at # {} => Least(at) \in at /\ \A j \in at : Least(at) <= j
  BY <1>1, LeastOf
<1> QED
  BY <1>1, <1>2, <1>3

\* The first line of what begins with a line, and what follows it.
LineRead(got, r, y, e) ==
  LET nl == Newline(got, 0)
  IN  /\ nl = Len(r) + 1 /\ SubSeq(got, 1, nl - 1) = r
      /\ Cat(got, y) = Cat(Cat(r, <<"nl">>), e) => Cat(SubSeq(got, nl + 1, Len(got)), y) = e

\* DecodeAuthResp finds the gateway's line, however much came with it.
LEMMA LineLemma ==
  ASSUME NEW B, "nl" \in B, NEW r \in Seq(B), NoNewline(r), NEW e \in Seq(B), NEW got \in Seq(B), NEW y \in Seq(B),
         Begins(Cat(got, y), Cat(Cat(r, <<"nl">>), e)), Newline(got, 0) # 0
  PROVE  LineRead(got, r, y, e)
<1> DEFINE n == <<"nl">>
           h == Cat(r, n)
           w == Cat(got, y)
           a == Cat(h, e)
           nl == Newline(got, 0)
<1>1. n \in Seq(B) /\ Len(n) = 1 /\ n[1] = "nl"
  OBVIOUS
<1> HIDE DEF n
<1>2. /\ h \in Seq(B) /\ Len(h) = Len(r) + 1 /\ h[Len(r) + 1] = "nl"
      /\ \A i \in 1..Len(r) : h[i] = r[i]
  <2>1. /\ h \in Seq(B) /\ Len(h) = Len(r) + Len(n)
        /\ \A i \in 1..Len(r) : h[i] = r[i]
        /\ \A i \in 1..Len(n) : h[Len(r) + i] = n[i]
    <3>1. PartsOf(h, r, n, B)
      BY <1>1, CatParts
    <3> QED
      BY <3>1 DEF PartsOf
  <2> QED
    BY <1>1, <2>1
<1> HIDE DEF h
<1>3. /\ a \in Seq(B) /\ Len(a) = Len(h) + Len(e) /\ \A i \in 1..Len(h) : a[i] = h[i]
  BY <1>2, CatParts DEF PartsOf
<1>4. /\ w \in Seq(B) /\ Len(w) = Len(got) + Len(y) /\ \A i \in 1..Len(got) : w[i] = got[i]
  BY CatParts DEF PartsOf
<1>5. Len(w) <= Len(a) /\ \A i \in 1..Len(w) : w[i] = a[i]
  BY DEF Begins, a, h, n
<1>6. Len(r) \in Nat /\ Len(got) \in Nat /\ Len(y) \in Nat /\ Len(e) \in Nat /\ Len(h) \in Nat
  BY <1>2
<1>7. /\ nl \in (0 + 1)..Len(got) /\ got[nl] = "nl" /\ \A k \in (0 + 1)..Len(got) : got[k] = "nl" => nl <= k
  BY NewlineFacts
<1> HIDE DEF nl, w, a
<1>8. \A i \in 1..Len(got) : got[i] = a[i]
  BY <1>4, <1>5, <1>6
<1>9. nl = Len(r) + 1
  <2>1. CASE nl <= Len(r)
    <3>1. nl \in 1..Len(r) /\ nl \in 1..Len(h) /\ nl \in 1..Len(got)
      BY <1>2, <1>6, <1>7, <2>1
    <3>2. got[nl] = r[nl]
      BY <1>2, <1>3, <1>8, <3>1
    <3> QED
      BY <1>7, <3>1, <3>2 DEF NoNewline
  <2>2. CASE nl > Len(r) + 1
    <3> DEFINE k == Len(r) + 1
    <3>1. k \in 1..Len(got) /\ k \in 1..Len(h) /\ k < nl /\ k \in (0 + 1)..Len(got)
      BY <1>2, <1>6, <1>7, <2>2
    <3>2. got[k] = "nl"
      BY <1>2, <1>3, <1>8, <3>1
    <3> QED
      BY <1>6, <1>7, <3>1, <3>2
  <2> QED
    BY <1>6, <1>7, <2>1, <2>2
<1>10. SubSeq(got, 1, nl - 1) = r
  <2> DEFINE t == SubSeq(got, 1, Len(r))
  <2>1. nl - 1 = Len(r) /\ Len(r) \in 0..Len(got)
    BY <1>6, <1>7, <1>9
  <2>2. t \in Seq(B) /\ Len(t) = Len(r) /\ \A i \in 1..Len(r) : t[i] = got[i]
    BY <2>1, TakeDrop
  <2> HIDE DEF t
  <2>3. ASSUME NEW i \in 1..Len(r) PROVE t[i] = r[i]
    <3>1. i \in 1..Len(h) /\ i \in 1..Len(got)
      BY <1>2, <1>6, <2>1
    <3>2. t[i] = got[i]
      BY <2>2, Zenon
    <3>3. got[i] = a[i] /\ a[i] = h[i]
      BY <1>3, <1>8, <3>1, Zenon
    <3>4. h[i] = r[i]
      BY <1>2, Zenon
    <3> QED
      BY <3>2, <3>3, <3>4, Zenon
  <2>4. t = r
    BY <2>2, <2>3, SeqEqual
  <2> QED
    BY <2>1, <2>4 DEF t
<1>11. ASSUME w = a PROVE Cat(SubSeq(got, nl + 1, Len(got)), y) = e
  <2>1. nl = Len(h) /\ nl \in 0..Len(got) /\ nl \in 0..Len(h)
    BY <1>2, <1>6, <1>7, <1>9
  <2>2. SubSeq(w, nl + 1, Len(w)) = SubSeq(got, nl + 1, Len(got)) \o y
    BY <2>1, DropConcat DEF w, Cat
  <2>3. SubSeq(a, nl + 1, Len(a)) = SubSeq(h, nl + 1, Len(h)) \o e
    BY <1>2, <2>1, DropConcat DEF a, Cat
  <2>4. SubSeq(h, nl + 1, Len(h)) = << >>
    BY <1>2, <2>1
  <2>5. << >> \o e = e
    OBVIOUS
  <2> QED
    BY <1>11, <2>2, <2>3, <2>4, <2>5 DEF Cat
<1> QED
  BY <1>9, <1>10, <1>11 DEF LineRead, nl, w, a, h, n

\* When DecodeChallenge has two newlines it has all that the gateway says before the reply.
LEMMA ChallengeLemma ==
  ASSUME NEW B, "nl" \in B, "lsg" \in B, NEW c \in Seq(B), NoNewline(c), NEW s \in Seq(B), NEW y \in Seq(B),
         Begins(Cat(s, y), Greets(c)), Newline(s, Newline(s, 0)) # 0
  PROVE  y = << >>
<1> DEFINE l == <<"lsg", "nl">>
           n == <<"nl">>
           h == Cat(l, c)
           g == Cat(h, n)
           w == Cat(s, y)
           first == Newline(s, 0)
           next == Newline(s, first)
<1>1. l \in Seq(B) /\ Len(l) = 2 /\ n \in Seq(B) /\ Len(n) = 1
  OBVIOUS
<1> HIDE DEF l, n
<1>2. /\ h \in Seq(B) /\ Len(h) = Len(l) + Len(c) /\ \A i \in 1..Len(c) : h[Len(l) + i] = c[i]
      /\ \A i \in 1..Len(l) : h[i] = l[i]
  <2>1. PartsOf(h, l, c, B)
    BY <1>1, CatParts
  <2> QED
    BY <2>1 DEF PartsOf
<1> HIDE DEF h
<1>3. g \in Seq(B) /\ Len(g) = Len(h) + Len(n) /\ \A i \in 1..Len(h) : g[i] = h[i]
  <2>1. PartsOf(g, h, n, B)
    BY <1>1, <1>2, CatParts
  <2> QED
    BY <2>1 DEF PartsOf
<1>4. w \in Seq(B) /\ Len(w) = Len(s) + Len(y) /\ \A i \in 1..Len(s) : w[i] = s[i]
  BY CatParts DEF PartsOf
<1>5. Len(w) <= Len(g) /\ \A i \in 1..Len(w) : w[i] = g[i]
  BY DEF Begins, Greets, g, h, l, n
<1>6. Len(c) \in Nat /\ Len(s) \in Nat /\ Len(y) \in Nat
  OBVIOUS
<1>7. first # 0
  <2> SUFFICES ASSUME first = 0 PROVE FALSE
    OBVIOUS
  <2>1. next = Newline(s, 0)
    BY Zenon
  <2> QED
    BY <2>1
<1>8. first \in (0 + 1)..Len(s) /\ s[first] = "nl"
  <2>1. 0 \in Nat
    OBVIOUS
  <2> QED
    BY <1>7, <2>1, NewlineFacts, ZenonT(60)
<1>9. next \in (first + 1)..Len(s) /\ s[next] = "nl"
  <2>1. first \in Nat
    BY <1>8
  <2> HIDE DEF first
  <2> QED
    BY <2>1, NewlineFacts DEF first
<1> HIDE DEF first, next, g, w
<1>10. next = Len(g)
  <2>1. next >= 2 /\ next <= Len(g) /\ next \in 1..Len(s) /\ next \in 1..Len(w) /\ Len(g) = Len(c) + 3
    BY <1>1, <1>2, <1>3, <1>4, <1>5, <1>6, <1>8, <1>9
  <2>2. g[next] = "nl"
    BY <1>4, <1>5, <1>9, <2>1
  <2>3. CASE next > 2 /\ next < Len(g)
    <3> DEFINE i == next - 2
    <3>1. i \in 1..Len(c) /\ Len(l) + i = next /\ next \in 1..Len(h)
      BY <1>1, <1>2, <1>6, <2>1, <2>3
    <3>2. c[i] = "nl"
      BY <1>2, <1>3, <2>2, <3>1
    <3> QED
      BY <3>1, <3>2 DEF NoNewline
  <2>4. CASE next = 2
    <3>1. first = 1 /\ 1 \in 1..Len(w) /\ 1 \in 1..Len(s) /\ 1 \in 1..Len(h) /\ 1 \in 1..Len(l)
      BY <1>1, <1>2, <1>4, <1>6, <1>8, <1>9, <2>1, <2>4
    <3>2. s[1] = h[1]
      BY <1>3, <1>4, <1>5, <3>1
    <3>3. h[1] = "lsg"
      <4>2. l[1] = "lsg"
        BY DEF l
      <4> QED
        BY <1>2, <3>1, <4>2
    <3> QED
      BY <1>8, <3>1, <3>2, <3>3
  <2> QED
    BY <1>6, <2>1, <2>3, <2>4
<1>11. Len(y) = 0
  BY <1>3, <1>4, <1>5, <1>6, <1>9, <1>10
<1> QED
  BY <1>11, EmptySeq
\* A piece moves from the beginning of t to the end of x.
LEMMA PieceMoves ==
  ASSUME NEW B, NEW x \in Seq(B), NEW t \in Seq(B), NEW n \in 1..Len(t)
  PROVE  /\ x \o SubSeq(t, 1, n) \in Seq(B) /\ SubSeq(t, n + 1, Len(t)) \in Seq(B)
         /\ Cat(x \o SubSeq(t, 1, n), SubSeq(t, n + 1, Len(t))) = Cat(x, t)
<1> DEFINE a == SubSeq(t, 1, n)
           b == SubSeq(t, n + 1, Len(t))
<1>1. n \in 0..Len(t)
  OBVIOUS
<1>2. a \in Seq(B) /\ b \in Seq(B) /\ a \o b = t
  BY <1>1, TakeDrop, Rejoined
<1> HIDE DEF a, b
<1>3. x \o a \in Seq(B)
  BY <1>2, ConcatParts
<1>4. (x \o a) \o b = x \o (a \o b)
  <2>1. Cat(x, Cat(a, b)) = Cat(Cat(x, a), b)
    BY <1>2, CatFacts
  <2> QED
    BY <2>1, Zenon DEF Cat
<1> QED
  BY <1>2, <1>3, <1>4 DEF Cat, a, b

\* A beginning of a beginning.
LEMMA ShorterBegins ==
  ASSUME NEW B, NEW u \in Seq(B), NEW v \in Seq(B), NEW g \in Seq(B), Begins(Cat(u, v), g)
  PROVE  Begins(u, g)
<1>1. PartsOf(Cat(u, v), u, v, B)
  BY CatParts
<1>2. Len(u) \in Nat /\ Len(v) \in Nat
  OBVIOUS
<1> DEFINE w == Cat(u, v)
<1>3. Len(w) = Len(u) + Len(v) /\ \A i \in 1..Len(u) : w[i] = u[i]
  BY <1>1 DEF PartsOf
<1>4. Len(w) <= Len(g) /\ \A i \in 1..Len(w) : w[i] = g[i]
  BY DEF Begins
<1> HIDE DEF w
<1>5. Len(u) <= Len(w) /\ \A i \in 1..Len(u) : i \in 1..Len(w)
  BY <1>2, <1>3
<1>6. Len(u) <= Len(g)
  <2>1. Len(g) \in Nat
    OBVIOUS
  <2> QED
    BY <1>2, <1>3, <1>4, <2>1
<1>7. \A i \in 1..Len(u) : u[i] = g[i]
  BY <1>3, <1>4, <1>5
<1> QED
  BY <1>6, <1>7 DEF Begins

\* What the gateway may say is a sequence of strings, and its lines have no newline.
LEMMA GatewayLines ==
  /\ \A c \in Challenges : c \in Seq(Letters) /\ NoNewline(c) /\ Greets(c) \in Seq(Letters)
  /\ \A r \in Responses \cup {<< >>} :
       r \in Seq(Letters) /\ NoNewline(r) /\ Answers(r) \in Seq(Letters)
<1>0. \A x \in Seq(STRING) : x \in Seq(Letters)
  BY DEF Letters
<1>1. \A c \in Challenges \cup Responses \cup {<< >>} : c \in Seq(Letters) /\ NoNewline(c)
  <2>1. \A c \in Challenges \cup Responses : c \in Seq(STRING) /\ NoNewline(c)
    BY AuthAssumption, Zenon DEF NoNewline
  <2>2. << >> \in Seq(Letters) /\ NoNewline(<< >>)
    BY DEF NoNewline
  <2> QED
    BY <1>0, <2>1, <2>2, Zenon
<1>2. /\ <<"nl">> \in Seq(Letters) /\ <<"lsg", "nl">> \in Seq(Letters) /\ Extra \in Seq(Letters)
  <2>1. Extra \in Seq(STRING)
    BY AuthAssumption, Zenon
  <2>2. "nl" \in Letters /\ "lsg" \in Letters
    BY DEF Letters
  <2>3. <<"nl">> \in Seq(Letters) /\ <<"lsg", "nl">> \in Seq(Letters)
    BY <2>2
  <2> QED
    BY <1>0, <2>1, <2>3
<1>3. \A x, y \in Seq(Letters) : Cat(x, y) \in Seq(Letters)
  BY CatFacts
<1>4. ASSUME NEW c \in Challenges PROVE Greets(c) \in Seq(Letters)
  BY <1>1, <1>2, <1>3, ZenonT(30) DEF Greets
<1>5. ASSUME NEW r \in Responses \cup {<< >>} PROVE Answers(r) \in Seq(Letters)
  BY <1>1, <1>2, <1>3, ZenonT(30) DEF Answers
<1> QED
  BY <1>1, <1>4, <1>5

\* Nothing has been read when the gateway begins.
LEMMA AuthBegins ==
  ASSUME AuthInit
  PROVE  AuthInv
<1>1. PICK c \in Challenges : to_send = <<"lsg", "nl">> \o c \o <<"nl">>
  BY DEF AuthInit
<1>2. c \in Seq(Letters) /\ Greets(c) \in Seq(Letters) /\ to_send = Greets(c)
  <2>1. c \in Seq(Letters) /\ Greets(c) \in Seq(Letters)
    BY GatewayLines
  <2> QED
    BY <1>1, <2>1 DEF Greets, Cat
<1>3. Held = Greets(c)
  <2>1. Held = Cat(<< >>, Cat(<< >>, Greets(c)))
    BY <1>2, Zenon DEF Held, ToCome, AuthInit
  <2> QED
    BY <1>2, <2>1, CatEmpty
<1>4. Tells(Held, Greets(c))
  <2>1. Begins(Greets(c), Greets(c))
    BY <1>2 DEF Begins
  <2> QED
    BY <1>3, <2>1 DEF Tells
<1>5. AuthTypes
  <2>1. << >> \in Seq(Letters)
    OBVIOUS
  <2> QED
    BY <1>2, <2>1 DEF AuthTypes, AuthInit
<1> QED
  BY <1>4, <1>5 DEF AuthInv, AuthInit, Misread

\* The client's part of the state.
clientVars == <<pc, unread, session_id, why, response>>

\* A step of the gateway that leaves the client alone keeps what it says true.
LEMMA GatewayStep ==
  ASSUME AuthInv, UNCHANGED clientVars, arrived' \in Seq(Letters), to_send' \in Seq(Letters), closed' \in BOOLEAN,
         arrived = << >> /\ to_send = << >> => arrived' = << >> /\ to_send' = << >>,
         \A g \in Seq(Letters) : Tells(Held, g) => Tells(Held, g)',
         \A g \in Seq(Letters) : Tells(ToCome, g) => Tells(ToCome, g)',
         ~closed' => ~closed /\ Held' = Held
  PROVE  AuthInv'
<1>1. \A c \in Challenges : Greets(c) \in Seq(Letters) /\ Greets(c)' = Greets(c)
  BY GatewayLines DEF Greets, Cat
<1>2. Answers(response) \in Seq(Letters) /\ Answers(response)' = Answers(response)
  BY GatewayLines DEF Answers, Cat, AuthInv, AuthTypes, clientVars
<1>3. AuthTypes'
  BY DEF AuthInv, AuthTypes, clientVars
<1>4. (pc \in {"begin", "challenge", "challenge_more"} => \E c \in Challenges : Tells(Held, Greets(c)))'
  BY <1>1 DEF AuthInv, clientVars
<1>5. (pc = "reply" => arrived = << >> /\ to_send = << >>)'
  BY DEF AuthInv, clientVars
<1>6. (pc = "deadline" => Tells(ToCome, Answers(response)))'
  BY <1>2 DEF AuthInv, clientVars
<1>7. (pc = "response" => Tells(Held, Answers(response)) /\ NoNewline(unread))'
  BY <1>2 DEF AuthInv, clientVars, NoNewline
<1>8. (pc = "authenticated" => Verdict(response) = "accepted" /\ (~closed => Held = Extra))'
  BY DEF AuthInv, clientVars
<1>9. ((pc # "failed" => why = "none") /\ (why \in Misread => Verdict(response) = why))'
  BY DEF AuthInv, clientVars
<1> QED
  BY <1>3, <1>4, <1>5, <1>6, <1>7, <1>8, <1>9 DEF AuthInv

\* A piece reaches the client's kernel: all that is to come is the same.
LEMMA SendsStep ==
  ASSUME AuthInv, NEW n \in 1..Len(to_send), AuthGatewaySends(n)
  PROVE  AuthInv'
<1>1. unread \in Seq(Letters) /\ arrived \in Seq(Letters) /\ to_send \in Seq(Letters) /\ closed \in BOOLEAN
  BY DEF AuthInv, AuthTypes
<1>2. /\ arrived' \in Seq(Letters) /\ to_send' \in Seq(Letters)
      /\ Cat(arrived', to_send') = Cat(arrived, to_send)
  BY <1>1, PieceMoves DEF AuthGatewaySends
<1>3. UNCHANGED clientVars /\ closed' = closed
  BY DEF AuthGatewaySends, clientVars
<1>4. ToCome' = ToCome /\ Held' = Held
  BY <1>2, <1>3, Zenon DEF ToCome, Held, clientVars
<1>6. ASSUME NEW g \in Seq(Letters)
      PROVE  (Tells(Held, g) => Tells(Held, g)') /\ (Tells(ToCome, g) => Tells(ToCome, g)')
  BY <1>3, <1>4, Zenon DEF Tells, Begins
<1>7. arrived = << >> /\ to_send = << >> => arrived' = << >> /\ to_send' = << >>
  <2> SUFFICES ASSUME to_send = << >> PROVE FALSE
    OBVIOUS
  <2> QED
    OBVIOUS
<1> QED
  BY <1>1, <1>2, <1>3, <1>4, <1>6, <1>7, GatewayStep

\* The gateway closes: what is still to come is a beginning of what was.
LEMMA ClosesStep ==
  ASSUME AuthInv, AuthGatewayCloses
  PROVE  AuthInv'
<1>1. unread \in Seq(Letters) /\ arrived \in Seq(Letters) /\ to_send \in Seq(Letters) /\ << >> \in Seq(Letters)
  BY DEF AuthInv, AuthTypes
<1>2. UNCHANGED clientVars /\ closed' = TRUE /\ arrived' = arrived /\ to_send' = << >> /\ unread' = unread
  BY DEF AuthGatewayCloses, clientVars
<1>3. ToCome' = arrived /\ Held' = Cat(unread, arrived)
  <2>1. Cat(arrived, << >>) = arrived
    BY <1>1, CatEmpty
  <2> QED
    BY <1>2, <2>1, Zenon DEF ToCome, Held
<1>4. Cat(unread, arrived) \in Seq(Letters) /\ Held = Cat(Cat(unread, arrived), to_send)
  <2>1. Cat(unread, arrived) \in Seq(Letters)
    BY <1>1, CatFacts
  <2>2. Cat(unread, Cat(arrived, to_send)) = Cat(Cat(unread, arrived), to_send)
    BY <1>1, CatFacts
  <2> QED
    BY <2>1, <2>2, Zenon DEF Held, ToCome
<1>5. ASSUME NEW g \in Seq(Letters), Tells(Held, g) PROVE Tells(Held, g)'
  <2>1. Begins(Cat(Cat(unread, arrived), to_send), g)
    BY <1>4, <1>5, Zenon DEF Tells
  <2>2. Begins(Cat(unread, arrived), g)
    BY <1>1, <1>4, <2>1, ShorterBegins
  <2>3. Begins(Held', g)
    BY <1>3, <2>2, Zenon
  <2> QED
    BY <1>2, <2>3, Zenon DEF Tells, Begins
<1>6. ASSUME NEW g \in Seq(Letters), Tells(ToCome, g) PROVE Tells(ToCome, g)'
  <2>1. Begins(Cat(arrived, to_send), g)
    BY <1>6, Zenon DEF Tells, ToCome
  <2>2. Begins(arrived, g)
    BY <1>1, <2>1, ShorterBegins
  <2>3. Begins(ToCome', g)
    BY <1>3, <2>2, Zenon
  <2> QED
    BY <1>2, <2>3, Zenon DEF Tells, Begins
<1> QED
  BY <1>1, <1>2, <1>5, <1>6, GatewayStep

\* A step of the client that fails keeps the rest.
LEMMA FailStep ==
  ASSUME AuthInv, NEW reason, Fail(reason), reason \notin Misread, UNCHANGED response, UNCHANGED closed,
         unread' \in Seq(Letters), arrived' \in Seq(Letters), to_send' \in Seq(Letters)
  PROVE  AuthInv'
<1>1. pc' = "failed" /\ why' = reason
  BY DEF Fail
<1>2. AuthTypes'
  BY DEF AuthInv, AuthTypes
<1> QED
  BY <1>1, <1>2 DEF AuthInv, Misread

\* The clock and a client that does nothing leave it all as it is.
LEMMA IdleStep ==
  ASSUME AuthInv, UNCHANGED <<clientVars, gatewayVars>>
  PROVE  AuthInv'
<1>1. UNCHANGED <<pc, unread, why, response, to_send, arrived, closed>>
  BY DEF clientVars, gatewayVars
<1>2. UNCHANGED Held /\ UNCHANGED ToCome
  BY <1>1, Zenon DEF Held, ToCome
<1>3. /\ \A g \in Seq(Letters) : Tells(Held, g) => Tells(Held, g)'
      /\ \A g \in Seq(Letters) : Tells(ToCome, g) => Tells(ToCome, g)'
  BY <1>1, <1>2, Zenon DEF Tells, Begins
<1>4. arrived' \in Seq(Letters) /\ to_send' \in Seq(Letters) /\ closed' \in BOOLEAN
  BY <1>1 DEF AuthInv, AuthTypes
<1> QED
  BY <1>1, <1>2, <1>3, <1>4, GatewayStep DEF clientVars

\* DecodeChallenge begins its first read: the gateway has said nothing it has seen.
LEMMA EnterChallengeStep ==
  ASSUME AuthInv, EnterChallenge
  PROVE  AuthInv'
<1>1. /\ pc = "begin" /\ unread' = unread /\ UNCHANGED <<session_id, to_send, arrived, closed, response>>
      /\ \/ pc' = "challenge" /\ why' = why
         \/ Fail("timed_out")
  BY DEF EnterChallenge, EnterRead, gatewayVars
<1>2. unread' \in Seq(Letters) /\ arrived' \in Seq(Letters) /\ to_send' \in Seq(Letters)
  BY <1>1 DEF AuthInv, AuthTypes
<1>3. CASE Fail("timed_out")
  BY <1>1, <1>2, <1>3, FailStep DEF Misread
<1>4. CASE pc' = "challenge" /\ why' = why
  <2>1. PICK c \in Challenges : Tells(Held, Greets(c))
    BY <1>1 DEF AuthInv
  <2>2. Tells(Held, Greets(c))'
    <3>1. UNCHANGED Held
      BY <1>1, Zenon DEF Held, ToCome
    <3>2. UNCHANGED Greets(c)
      BY DEF Greets, Cat
    <3> QED
      BY <1>1, <2>1, <3>1, <3>2, Zenon DEF Tells, Begins
  <2>3. AuthTypes'
    BY <1>1, <1>2 DEF AuthInv, AuthTypes
  <2>4. why' = "none"
    BY <1>1, <1>4 DEF AuthInv
  <2> QED
    BY <1>4, <2>2, <2>3, <2>4 DEF AuthInv, Misread
<1> QED
  BY <1>1, <1>3, <1>4

\* DecodeAuthResp begins its first read, with a buffer it has cleared.
LEMMA EnterResponseStep ==
  ASSUME AuthInv, EnterResponse
  PROVE  AuthInv'
<1>1. /\ pc = "deadline" /\ unread' = << >> /\ UNCHANGED <<session_id, to_send, arrived, closed, response>>
      /\ \/ pc' = "response" /\ why' = why
         \/ Fail("timed_out")
  BY DEF EnterResponse, EnterRead, gatewayVars
<1>2. unread' \in Seq(Letters) /\ arrived' \in Seq(Letters) /\ to_send' \in Seq(Letters)
  BY <1>1 DEF AuthInv, AuthTypes
<1>3. CASE Fail("timed_out")
  BY <1>1, <1>2, <1>3, FailStep DEF Misread
<1>4. CASE pc' = "response" /\ why' = why
  <2>1. Tells(ToCome, Answers(response))
    BY <1>1 DEF AuthInv
  <2>2. Held' = ToCome
    <3>1. ToCome \in Seq(Letters)
      BY CatFacts DEF ToCome, AuthInv, AuthTypes
    <3>2. Cat(<< >>, ToCome) = ToCome
      BY <3>1, CatEmpty
    <3> QED
      BY <1>1, <3>2, Zenon DEF Held, ToCome
  <2>3. Tells(Held, Answers(response))'
    <3>1. UNCHANGED Answers(response)
      BY <1>1, Zenon DEF Answers, Cat
    <3> QED
      BY <1>1, <2>1, <2>2, <3>1, Zenon DEF Tells, Begins
  <2>4. AuthTypes' /\ NoNewline(unread)'
    BY <1>1, <1>2 DEF AuthInv, AuthTypes, NoNewline
  <2>5. why' = "none"
    BY <1>1, <1>4 DEF AuthInv
  <2> QED
    BY <1>4, <2>3, <2>4, <2>5 DEF AuthInv, Misread
<1> QED
  BY <1>1, <1>3, <1>4

\* A read moves bytes from the kernel to the buffer.
ReadMoves(n) ==
  LET u == unread \o SubSeq(arrived, 1, n)
      a == SubSeq(arrived, n + 1, Len(arrived))
  IN  u \in Seq(Letters) /\ a \in Seq(Letters) /\ Cat(u, Cat(a, to_send)) = Held

\* Nothing is lost or reordered by it.
LEMMA ReadLemma ==
  ASSUME AuthInv, NEW n \in 1..Len(arrived)
  PROVE  ReadMoves(n)
<1> DEFINE u == unread \o SubSeq(arrived, 1, n)
           a == SubSeq(arrived, n + 1, Len(arrived))
<1>1. unread \in Seq(Letters) /\ arrived \in Seq(Letters) /\ to_send \in Seq(Letters)
  BY DEF AuthInv, AuthTypes
<1>2. u \in Seq(Letters) /\ a \in Seq(Letters) /\ Cat(u, a) = Cat(unread, arrived)
  BY <1>1, PieceMoves
<1> HIDE DEF u, a
<1>3. CatLaws(Letters)
  BY CatClosed
<1>4. Cat(u, Cat(a, to_send)) = Cat(Cat(u, a), to_send)
  BY <1>1, <1>2, <1>3, Zenon DEF CatLaws
<1>5. Cat(unread, Cat(arrived, to_send)) = Cat(Cat(unread, arrived), to_send)
  BY <1>1, <1>3, Zenon DEF CatLaws
<1> QED
  BY <1>2, <1>4, <1>5, Zenon DEF ReadMoves, Held, ToCome, u, a

\* DecodeChallenge after a read: it goes on reading, fails, or has seen all there was.
LEMMA ChallengeStep ==
  ASSUME AuthInv, NEW n \in 1..Len(arrived), pc \in {"challenge", "challenge_more"}, Read(n),
         Fail("malformed_greeting") \/ DecodeChallengeLine(unread')
  PROVE  AuthInv'
<1>1. /\ unread' \in Seq(Letters) /\ arrived' \in Seq(Letters) /\ to_send' \in Seq(Letters)
      /\ UNCHANGED <<to_send, closed, response>> /\ Cat(unread', Cat(arrived', to_send)) = Held
  <2>1. ReadMoves(n)
    BY ReadLemma
  <2> QED
    BY <2>1 DEF ReadMoves, Read, AuthInv, AuthTypes
<1>2. PICK c \in Challenges : Tells(Held, Greets(c))
  BY DEF AuthInv
<1>3. Held' = Held
  BY <1>1, Zenon DEF Held, ToCome
<1>4. AuthTypes'
  BY <1>1 DEF AuthInv, AuthTypes
<1>5. CASE Fail("malformed_greeting")
  BY <1>1, <1>5, FailStep DEF Misread
<1>6. CASE Fail("malformed_challenge")
  BY <1>1, <1>6, FailStep DEF Misread
<1>7. CASE Fail("unexpected_challenge")
  BY <1>1, <1>7, FailStep DEF Misread
<1>8. why = "none"
  BY DEF AuthInv
<1>9. CASE pc' = "challenge_more" /\ UNCHANGED why
  <2>1. Tells(Held, Greets(c))'
    <3>1. UNCHANGED Greets(c)
      BY DEF Greets, Cat
    <3> QED
      BY <1>1, <1>2, <1>3, <3>1, Zenon DEF Tells, Begins
  <2> QED
    BY <1>4, <1>8, <1>9, <2>1 DEF AuthInv, Misread
<1>10. CASE Newline(unread', Newline(unread', 0)) # 0 /\ pc' = "reply" /\ UNCHANGED why
  <2> DEFINE s == unread'
             y == Cat(arrived', to_send)
  <2>1. s \in Seq(Letters) /\ y \in Seq(Letters) /\ "nl" \in Letters /\ "lsg" \in Letters
    BY <1>1, CatFacts DEF AuthInv, AuthTypes, Letters
  <2>2. c \in Seq(Letters) /\ NoNewline(c)
    BY GatewayLines
  <2>3. Begins(Cat(s, y), Greets(c))
    BY <1>1, <1>2, Zenon DEF Tells
  <2>4. Newline(s, Newline(s, 0)) # 0
    BY <1>10
  <2> HIDE DEF s, y
  <2>5. y = << >>
    BY <2>1, <2>2, <2>3, <2>4, ChallengeLemma
  <2>6. arrived' = << >> /\ to_send = << >>
    <3>1. PartsOf(y, arrived', to_send, Letters)
      BY <1>1, CatParts DEF y
    <3>2. Len(arrived') + Len(to_send) = 0
      BY <2>5, <3>1 DEF PartsOf
    <3> QED
      BY <1>1, <3>2, EmptySeq
  <2> QED
    BY <1>1, <1>4, <1>8, <1>10, <2>6 DEF AuthInv, Misread
<1> QED
  BY <1>5, <1>6, <1>7, <1>9, <1>10 DEF DecodeChallengeLine, JudgeChallenge

\* The reply reaches the gateway, which has said all it had and now answers.
LEMMA WriteReplyStep ==
  ASSUME AuthInv, WriteReply
  PROVE  AuthInv'
<1>1. /\ pc = "reply" /\ pc' = "deadline" /\ arrived = << >> /\ to_send = << >>
      /\ UNCHANGED <<unread, why, arrived, closed>>
  BY DEF WriteReply, AuthInv
<1>2. PICK r \in Responses : response' = r /\ to_send' = to_send \o r \o <<"nl">> \o Extra
  BY DEF WriteReply
<1>3. r \in Seq(Letters) /\ Answers(r) \in Seq(Letters)
  BY GatewayLines
<1>4. to_send' = Answers(r)
  <2>1. << >> \o r = r
    BY <1>3
  <2> QED
    BY <1>1, <1>2, <2>1, Zenon DEF Answers, Cat
<1>5. ToCome' = Answers(r)
  <2>1. Cat(<< >>, Answers(r)) = Answers(r)
    BY <1>3, CatEmpty
  <2> QED
    BY <1>1, <1>4, <2>1, Zenon DEF ToCome
<1>6. Tells(ToCome, Answers(response))'
  <2>1. Answers(response)' = Answers(r)
    BY <1>2, Zenon DEF Answers, Cat
  <2>2. Begins(Answers(r), Answers(r))
    BY <1>3 DEF Begins
  <2> QED
    BY <1>5, <2>1, <2>2, Zenon DEF Tells, Begins
<1>7. AuthTypes'
  BY <1>1, <1>2, <1>3, <1>4 DEF AuthInv, AuthTypes
<1>8. why' = "none"
  BY <1>1 DEF AuthInv
<1> QED
  BY <1>1, <1>6, <1>7, <1>8 DEF AuthInv, Misread

\* The reply is lost in a closed connection.
LEMMA WriteReplyClosedStep ==
  ASSUME AuthInv, WriteReplyClosed
  PROVE  AuthInv'
<1>1. /\ pc = "reply" /\ closed /\ arrived = << >> /\ to_send = << >>
      /\ UNCHANGED <<unread, to_send, arrived, closed, response>>
      /\ \/ Fail("write_error")
         \/ pc' = "deadline" /\ UNCHANGED why
  BY DEF WriteReplyClosed, gatewayVars, AuthInv
<1>2. unread' \in Seq(Letters) /\ arrived' \in Seq(Letters) /\ to_send' \in Seq(Letters)
  BY <1>1 DEF AuthInv, AuthTypes
<1>3. CASE Fail("write_error")
  BY <1>1, <1>2, <1>3, FailStep DEF Misread
<1>4. CASE pc' = "deadline" /\ UNCHANGED why
  <2>1. ToCome' = << >>
    <3>1. Cat(<< >>, << >>) = << >>
      BY DEF Cat
    <3> QED
      BY <1>1, <3>1, Zenon DEF ToCome
  <2>2. Answers(response)' \in Seq(Letters)
    BY <1>1, GatewayLines DEF Answers, Cat, AuthInv, AuthTypes
  <2>3. Tells(ToCome, Answers(response))'
    <3>1. Len(Answers(response)') \in Nat
      BY <2>2
    <3>2. Begins(<< >>, Answers(response)')
      BY <3>1 DEF Begins
    <3> QED
      BY <1>1, <2>1, <3>2, Zenon DEF Tells, Begins
  <2>4. AuthTypes'
    BY <1>1, <1>2 DEF AuthInv, AuthTypes
  <2>5. why' = "none"
    BY <1>1, <1>4 DEF AuthInv
  <2> QED
    BY <1>4, <2>3, <2>4, <2>5 DEF AuthInv, Misread
<1> QED
  BY <1>1, <1>3, <1>4

\* DecodeAuthResp after a read: it judges the gateway's line and nothing else, and keeps
\* what came behind it.
LEMMA ResponseStep ==
  ASSUME AuthInv, NEW n \in 1..Len(arrived), ReadResponse(n)
  PROVE  AuthInv'
<1> DEFINE got == unread \o SubSeq(arrived, 1, n)
           rest == SubSeq(arrived, n + 1, Len(arrived))
           y == Cat(rest, to_send)
           nl == Newline(got, 0)
           line == SubSeq(got, 1, nl - 1)
<1>1. got \in Seq(Letters) /\ rest \in Seq(Letters) /\ Cat(got, y) = Held
  <2>1. ReadMoves(n)
    BY ReadLemma
  <2> QED
    BY <2>1 DEF ReadMoves
<1>2. /\ pc = "response" /\ why = "none" /\ Tells(Held, Answers(response)) /\ to_send \in Seq(Letters)
      /\ response \in Responses \cup {<< >>}
  BY DEF ReadResponse, AuthInv, AuthTypes
<1>3. CASE nl = 0 /\ Read(n) /\ UNCHANGED <<pc, why, session_id>>
  <2>1. unread' = got /\ arrived' = rest /\ UNCHANGED <<to_send, closed, response, pc, why>>
    BY <1>3 DEF Read
  <2>2. Held' = Held
    BY <1>1, <2>1, Zenon DEF Held, ToCome
  <2>3. NoNewline(unread)'
    <3>1. 0 \in Nat
      OBVIOUS
    <3>2. \A k \in (0 + 1)..Len(got) : got[k] # "nl"
      BY <1>1, <1>3, <3>1, NewlineFacts
    <3> HIDE DEF got
    <3>3. \A k \in 1..Len(got) : got[k] # "nl"
      BY <3>2
    <3> QED
      BY <2>1, <3>3, Zenon DEF NoNewline
  <2>4. Tells(Held, Answers(response))'
    <3>1. UNCHANGED Answers(response)
      BY <2>1, Zenon DEF Answers, Cat
    <3> QED
      BY <1>2, <2>1, <2>2, <3>1, Zenon DEF Tells, Begins
  <2>5. AuthTypes'
    BY <1>1, <2>1 DEF AuthInv, AuthTypes
  <2> QED
    BY <1>2, <2>1, <2>3, <2>4, <2>5 DEF AuthInv, Misread
<1>4. CASE /\ nl # 0 /\ unread' = Rest(got, nl) /\ arrived' = rest
           /\ \/ Verdict(line) = "accepted" /\ pc' = "authenticated" /\ UNCHANGED why
              \/ Verdict(line) # "accepted" /\ Fail(Verdict(line))
           /\ UNCHANGED <<to_send, closed, response>>
  <2> HIDE DEF got, rest, line, nl
  <2>1. /\ response \in Seq(Letters) /\ NoNewline(response) /\ "nl" \in Letters /\ Extra \in Seq(Letters)
        /\ y \in Seq(Letters)
    <3>1. response \in Seq(Letters) /\ NoNewline(response)
      BY <1>2, GatewayLines
    <3>2. \A x \in Seq(STRING) : x \in Seq(Letters)
      BY DEF Letters
    <3>3. Extra \in Seq(Letters)
      BY <3>2, AuthAssumption, Zenon
    <3>4. y \in Seq(Letters)
      BY <1>1, <1>2, CatFacts
    <3> QED
      BY <3>1, <3>3, <3>4 DEF Letters
  <2> HIDE DEF y
  <2>2. Begins(Cat(got, y), Cat(Cat(response, <<"nl">>), Extra))
    BY <1>1, <1>2, Zenon DEF Tells, Answers
  <2>3. LineRead(got, response, y, Extra)
    BY <1>1, <1>4, <2>1, <2>2, LineLemma DEF nl
  <2>4. line = response
    BY <2>3 DEF LineRead, line, nl
  <2>5. nl = Len(response) + 1 /\ Len(response) + 1 \in 1..Len(got)
    <3>1. 0 \in Nat
      OBVIOUS
    <3>2. nl \in (0 + 1)..Len(got)
      BY <1>1, <1>4, <3>1, NewlineFacts DEF nl
    <3> QED
      BY <2>3, <3>2 DEF LineRead, nl
  <2>6. unread' \in Seq(Letters)
    <3>1. nl \in 0..Len(got)
      BY <2>5
    <3> QED
      BY <1>1, <1>4, <3>1, TakeDrop DEF Rest
  <2>7. AuthTypes'
    BY <1>1, <1>2, <1>4, <2>6 DEF AuthInv, AuthTypes
  <2>8. ASSUME ~closed' PROVE Held' = Extra
    <3>1. Cat(got, y) = Cat(Cat(response, <<"nl">>), Extra)
      BY <1>1, <1>2, <1>4, <2>8, Zenon DEF Tells, Answers
    <3>2. Cat(Rest(got, nl), y) = Extra
      BY <2>3, <3>1 DEF LineRead, Rest, nl
    <3> QED
      BY <1>4, <3>2, Zenon DEF Held, ToCome, y
  <2>9. Verdict(line) = Verdict(response) /\ UNCHANGED Verdict(response)
    BY <1>4, <2>4, Zenon
  <2>10. CASE Verdict(line) = "accepted" /\ pc' = "authenticated" /\ UNCHANGED why
    BY <1>2, <1>4, <2>7, <2>8, <2>9, <2>10 DEF AuthInv, Misread
  <2>11. CASE Verdict(line) # "accepted" /\ Fail(Verdict(line))
    BY <1>2, <1>4, <2>7, <2>9, <2>11 DEF AuthInv, Misread, Fail
  <2> QED
    BY <1>4, <2>10, <2>11
<1> QED
  BY <1>3, <1>4 DEF ReadResponse

\* A read gives up, a closed connection is noticed, or not, time passes.
LEMMA WaitingStep ==
  ASSUME AuthInv, ReadTimesOut \/ ReadClosed \/ AuthTick \/ Finished
  PROVE  AuthInv'
<1>1. unread \in Seq(Letters) /\ arrived \in Seq(Letters) /\ to_send \in Seq(Letters)
  BY DEF AuthInv, AuthTypes
<1>2. CASE ReadTimesOut
  <2>1. Fail("timed_out") /\ UNCHANGED <<unread, arrived, to_send, closed, response>>
    BY <1>2 DEF ReadTimesOut, gatewayVars
  <2> QED
    BY <1>1, <2>1, FailStep DEF Misread
<1>3. CASE ReadClosed
  <2>1. /\ UNCHANGED <<unread, session_id, arrived, to_send, closed, response>>
        /\ Fail("closed") \/ UNCHANGED <<pc, why>>
    BY <1>3 DEF ReadClosed, gatewayVars
  <2>2. CASE Fail("closed")
    BY <1>1, <2>1, <2>2, FailStep DEF Misread
  <2>3. CASE UNCHANGED <<pc, why>>
    BY <2>1, <2>3, IdleStep DEF clientVars, gatewayVars
  <2> QED
    BY <2>1, <2>2, <2>3
<1>4. CASE AuthTick
  BY <1>4, IdleStep DEF AuthTick, clientVars, gatewayVars
<1>5. CASE Finished
  BY <1>5, IdleStep DEF Finished, authVars, clientVars, gatewayVars
<1> QED
  BY <1>2, <1>3, <1>4, <1>5

\* Every step keeps the invariant.
LEMMA AuthInductive ==
  ASSUME AuthInv, [AuthNext]_authVars
  PROVE  AuthInv'
<1>1. ASSUME NEW n \in 1..Len(to_send), AuthGatewaySends(n) PROVE AuthInv'
  BY <1>1, SendsStep
<1>2. CASE AuthGatewayCloses
  BY <1>2, ClosesStep
<1>3. CASE AuthTick \/ Finished
  BY <1>3, WaitingStep
<1>4. CASE ClientStep
  <2>1. CASE EnterChallenge
    BY <2>1, EnterChallengeStep
  <2>2. CASE EnterResponse
    BY <2>2, EnterResponseStep
  <2>3. CASE ReadTimesOut \/ ReadClosed
    BY <2>3, WaitingStep
  <2>4. CASE WriteReply
    BY <2>4, WriteReplyStep
  <2>5. CASE WriteReplyClosed
    BY <2>5, WriteReplyClosedStep
  <2>6. ASSUME NEW n \in 1..Len(arrived), ReadChallenge(n) PROVE AuthInv'
    BY <2>6, ChallengeStep DEF ReadChallenge
  <2>7. ASSUME NEW n \in 1..Len(arrived), ReadChallengeMore(n) PROVE AuthInv'
    BY <2>7, ChallengeStep DEF ReadChallengeMore
  <2>8. ASSUME NEW n \in 1..Len(arrived), ReadResponse(n) PROVE AuthInv'
    BY <2>8, ResponseStep
  <2> QED
    BY <1>4, <2>1, <2>2, <2>3, <2>4, <2>5, <2>6, <2>7, <2>8 DEF ClientStep
<1>5. CASE UNCHANGED authVars
  BY <1>5, IdleStep DEF authVars, clientVars, gatewayVars
<1> QED
  BY <1>1, <1>2, <1>3, <1>4, <1>5 DEF AuthNext

\* Where a piece of the line ends.
PieceEnd(line, pos) == IF Bar(line, pos) = 0 THEN Len(line) ELSE Bar(line, pos) - 1

\* A piece from pos on is all that comes before the next separator, and no separator is in it.
PieceAt(line, pos) ==
  LET e == PieceEnd(line, pos)
  IN  /\ e \in (pos - 1)..Len(line) /\ \A k \in pos..e : line[k] # "|"
      /\ e < Len(line) => line[e + 1] = "|" /\ Bar(line, pos) = e + 1
      /\ e = Len(line) => Bar(line, pos) = 0
      /\ \A p : (PairAt(line, pos) = <<p>>) <=> (e = pos /\ line[pos] = p)

\* Every piece is one.
LEMMA PieceFacts ==
  ASSUME NEW B, NEW line \in Seq(B), NEW pos \in 1..Len(line)
  PROVE  PieceAt(line, pos)
<1> DEFINE at == {k \in pos..Len(line) : line[k] = "|"}
           e == PieceEnd(line, pos)
           bar == Bar(line, pos)
<1>0. Len(line) \in Nat /\ pos \in Nat /\ pos >= 1 /\ pos <= Len(line)
  OBVIOUS
<1>1. at \in SUBSET Nat /\ 0 \notin at
  BY <1>0
<1>2. /\ at = {} => bar = 0
      /\ at # {} => bar \in at /\ \A j \in at : bar <= j
  <2>1. bar = Least(at)
    BY DEF Bar
  <2> HIDE DEF at, bar
  <2> QED
    BY <1>1, <2>1, LeastOf
<1>3. /\ bar = 0 => e = Len(line)
      /\ bar # 0 => e = bar - 1
  BY DEF PieceEnd
<1>4. PairAt(line, pos) = SubSeq(line, pos, e)
  BY DEF PairAt, PieceEnd
<1> HIDE DEF e, bar
<1>5. e \in (pos - 1)..Len(line)
  BY <1>0, <1>1, <1>2, <1>3
<1>6. \A k \in pos..e : line[k] # "|"
  BY <1>0, <1>1, <1>2, <1>3
<1>7. e < Len(line) => line[e + 1] = "|" /\ bar = e + 1
  BY <1>0, <1>1, <1>2, <1>3
<1>8. e = Len(line) => bar = 0
  BY <1>0, <1>1, <1>2, <1>3
<1>9. ASSUME NEW p PROVE (SubSeq(line, pos, e) = <<p>>) <=> (e = pos /\ line[pos] = p)
  <2> DEFINE t == SubSeq(line, pos, e)
  <2>1. Len(t) = e - pos + 1 /\ (e >= pos => t[1] = line[pos])
    BY <1>0, <1>5
  <2>2. t \in Seq(B)
    BY <1>0, <1>5
  <2>3. e \in Int
    BY <1>0, <1>5
  <2> HIDE DEF t
  <2>4. ASSUME t = <<p>> PROVE e = pos /\ line[pos] = p
    <3>1. Len(t) = 1 /\ t[1] = p
      BY <2>4
    <3>2. e = pos
      <4>1. \A m \in Int : m - pos + 1 = 1 => m = pos
        BY <1>0
      <4>2. e - pos + 1 = 1
        BY <2>1, <3>1, Zenon
      <4> QED
        BY <2>3, <4>1, <4>2, Zenon
    <3>3. e >= pos
      BY <1>0, <3>2
    <3>4. t[1] = line[pos]
      BY <2>1, <3>3
    <3> QED
      BY <3>1, <3>2, <3>4
  <2>5. ASSUME e = pos, line[pos] = p PROVE t = <<p>>
    <3>1. Len(t) = 1 /\ t[1] = p
      BY <1>0, <2>1, <2>5
    <3> QED
      BY <2>2, <3>1
  <2> QED
    BY <2>4, <2>5 DEF t
<1> QED
  BY <1>4, <1>5, <1>6, <1>7, <1>8, <1>9 DEF PieceAt, e, bar

\* A piece holds every token of it that is no separator: there is one around each such token.
LEMMA PieceAround ==
  ASSUME NEW B, NEW line \in Seq(B), NEW i \in 1..Len(line), line[i] # "|"
  PROVE  \E pos \in 1..i : (pos = 1 \/ line[pos - 1] = "|") /\ i <= PieceEnd(line, pos)
<1> DEFINE PieceFrom(k) == k = 1 \/ line[k - 1] = "|"
           D == {d \in 0..(i - 1) : PieceFrom(i - d)}
<1>0. i \in Nat /\ Len(line) \in Nat /\ 1 <= i /\ i <= Len(line)
  OBVIOUS
<1>1. D \in SUBSET Nat /\ i - 1 \in D
  BY <1>0
<1>2. PICK d \in D : \A x \in D : d <= x
  BY <1>1, NatMin
<1> DEFINE pos == i - d
           e == PieceEnd(line, pos)
<1>3. pos \in 1..i /\ pos \in 1..Len(line) /\ PieceFrom(pos) /\ d \in Nat
  BY <1>0, <1>2
<1>4. /\ e \in (pos - 1)..Len(line) /\ (e < Len(line) => line[e + 1] = "|")
  <2> HIDE DEF pos
  <2>1. PieceAt(line, pos)
    BY <1>3, PieceFacts
  <2> QED
    BY <2>1 DEF PieceAt
<1>5. i <= e
  <2> SUFFICES ASSUME e < i PROVE FALSE
    BY <1>0, <1>3, <1>4
  <2> DEFINE x == i - (e + 2)
  <2> HIDE DEF e
  <2>1. line[e + 1] = "|" /\ e \in Int /\ e + 1 <= i /\ pos <= e + 1
    BY <1>0, <1>3, <1>4
  <2>2. e + 1 # i
    BY <2>1
  <2>3. x \in 0..(i - 1) /\ x < d
    BY <1>0, <1>3, <2>1, <2>2
  <2>4. PieceFrom(i - x)
    <3>1. i - x = e + 2 /\ (i - x) - 1 = e + 1
      BY <1>0, <2>1
    <3> QED
      BY <2>1, <3>1
  <2> QED
    BY <1>0, <1>2, <1>3, <2>3, <2>4
<1> QED
  BY <1>3, <1>5

\* What Verdict asks of the line.
Judged(line) ==
  /\ \A pos \in PairStarts(line) : \E p \in GoodPairs : PairAt(line, pos) = <<p>>
  /\ \E pos \in PairStarts(line) : PairAt(line, pos) = <<"success=1">>
  /\ \A pos \in PairStarts(line) : PairAt(line, pos) # <<"success=0">>

\* It accepts a line if every pair is a good one, and success=1 but not success=0 is among them.
LEMMA VerdictMeans ==
  ASSUME NEW B, NEW line \in Seq(B)
  PROVE  Verdict(line) = "accepted" <=> Judged(line)
<1> DEFINE throwing == {pos \in PairStarts(line) : \A p \in GoodPairs : PairAt(line, pos) # <<p>>}
<1>1. throwing \in SUBSET Nat /\ 0 \notin throwing
  BY DEF PairStarts
<1>2. FirstThrowing(line) = 0 <=> throwing = {}
  <2>1. FirstThrowing(line) = Least(throwing)
    BY DEF FirstThrowing
  <2> HIDE DEF throwing
  <2> QED
    BY <1>1, <2>1, LeastOf
<1>3. throwing = {} <=> \A pos \in PairStarts(line) : \E p \in GoodPairs : PairAt(line, pos) = <<p>>
  BY Zenon
<1>4. \A p : <<p>> \in Pairs(line) <=> \E pos \in PairStarts(line) : PairAt(line, pos) = <<p>>
  BY Zenon DEF Pairs
<1> DEFINE one == <<"success=1">> \in Pairs(line)
           zero == <<"success=0">> \in Pairs(line)
           bad == FirstThrowing(line)
<1>5. Verdict(line) = "accepted" <=> bad = 0 /\ one /\ ~zero
  <2>1. Verdict(line) = CASE bad # 0 /\ PairAt(line, bad) = <<BadSessionId>> -> "invalid_argument"
                          [] bad # 0 /\ PairAt(line, bad) # <<BadSessionId>> -> "malformed_response"
                          [] bad = 0 /\ ~one /\ ~zero -> "no_success"
                          [] bad = 0 /\ zero -> "rejected"
                          [] OTHER -> "accepted"
    BY DEF Verdict
  <2> HIDE DEF one, zero, bad
  <2> QED
    BY <2>1
<1> QED
  BY <1>2, <1>3, <1>4, <1>5, Zenon DEF Judged

\* Where the loop looks for a pair, for a line whose last token is no separator: at its
\* beginning and behind each separator.
LEMMA StartsFacts ==
  ASSUME NEW B, NEW line \in Seq(B), NEW pos \in 1..Len(line), line[Len(line)] # "|",
         pos = 1 \/ line[pos - 1] = "|"
  PROVE  pos \in PairStarts(line)
<1> DEFINE e == PieceEnd(line, pos)
<1>0. Len(line) \in Nat /\ Len(line) # 0
  OBVIOUS
<1>1. /\ e \in (pos - 1)..Len(line)
      /\ e < Len(line) => line[e + 1] = "|" /\ Bar(line, pos) = e + 1
      /\ e = Len(line) => Bar(line, pos) = 0
  <2>1. PieceAt(line, pos)
    BY PieceFacts
  <2> QED
    BY <2>1 DEF PieceAt
<1>2. Bar(line, pos) # Len(line)
  <2> HIDE DEF e
  <2>1. CASE e < Len(line)
    <3>1. line[Bar(line, pos)] = "|"
      BY <1>1, <2>1
    <3> QED
      BY <3>1
  <2>2. CASE e = Len(line)
    BY <1>0, <1>1, <2>2
  <2> QED
    BY <1>0, <1>1, <2>1, <2>2
<1> QED
  BY <1>2 DEF PairStarts

\* An accepted line says success=1, and not success=0 unless the loop has not seen its end.
LEMMA AcceptedSays ==
  ASSUME NEW B, NEW line \in Seq(B), Verdict(line) = "accepted"
  PROVE  /\ "success=1" \in AllPairs(line)
         /\ "success=0" \notin AllPairs(line) \/ line[Len(line)] = "|"
<1>1. Judged(line)
  BY VerdictMeans
<1>2. \A p : p \in AllPairs(line) <=> \E i \in 1..Len(line) : line[i] = p /\ p \in GoodPairs
  BY Zenon DEF AllPairs
<1>3. \A pos \in PairStarts(line) : pos \in 1..Len(line)
  BY DEF PairStarts
<1>4. \A pos \in 1..Len(line) : PieceAt(line, pos)
  BY PieceFacts
<1>5. "success=1" \in AllPairs(line)
  <2>1. PICK pos \in PairStarts(line) : PairAt(line, pos) = <<"success=1">>
    BY <1>1 DEF Judged
  <2>2. pos \in 1..Len(line) /\ line[pos] = "success=1"
    BY <1>3, <1>4, <2>1 DEF PieceAt
  <2>3. "success=1" \in GoodPairs
    BY DEF GoodPairs
  <2> QED
    BY <1>2, <2>2, <2>3, Zenon
<1>6. ASSUME "success=0" \in AllPairs(line), line[Len(line)] # "|" PROVE FALSE
  <2>1. PICK i \in 1..Len(line) : line[i] = "success=0"
    BY <1>2, <1>6, Zenon
  <2>2. PICK pos \in 1..i : (pos = 1 \/ line[pos - 1] = "|") /\ i <= PieceEnd(line, pos)
    BY <2>1, PieceAround
  <2>3. pos \in 1..Len(line)
    BY <2>1, <2>2
  <2>4. pos \in PairStarts(line)
    BY <1>6, <2>2, <2>3, StartsFacts
  <2>5. PICK p \in GoodPairs : PairAt(line, pos) = <<p>>
    BY <1>1, <2>4 DEF Judged
  <2>6. PieceEnd(line, pos) = pos
    BY <1>4, <2>3, <2>5 DEF PieceAt
  <2>7. pos = i
    BY <2>1, <2>2, <2>6
  <2>8. PairAt(line, pos) = <<"success=0">>
    <3>1. line[pos] = "success=0"
      BY <2>1, <2>7, Zenon
    <3> QED
      BY <1>4, <2>3, <2>6, <3>1 DEF PieceAt
  <2> QED
    BY <1>1, <2>4, <2>8 DEF Judged
<1> QED
  BY <1>5, <1>6

\* A well-formed line that says success=1 and not success=0 is accepted.
LEMMA WellFormedAccepted ==
  ASSUME NEW B, NEW line \in Seq(B), WellFormed(line), "success=1" \in AllPairs(line),
         "success=0" \notin AllPairs(line)
  PROVE  Verdict(line) = "accepted"
<1>0. Len(line) \in Nat /\ Len(line) % 2 = 1
  BY DEF WellFormed
<1>1. \A i \in 1..Len(line) : (i % 2 = 1 => line[i] \in GoodPairs) /\ (i % 2 # 1 => line[i] = "|")
  BY DEF WellFormed
<1>2. "|" \notin GoodPairs /\ "success=1" \in GoodPairs /\ "success=0" \in GoodPairs
  BY DEF GoodPairs
<1>3. \A p : p \in AllPairs(line) <=> \E i \in 1..Len(line) : line[i] = p /\ p \in GoodPairs
  BY Zenon DEF AllPairs
<1>4. line[Len(line)] # "|" /\ Len(line) \in 1..Len(line)
  <2>1. Len(line) \in 1..Len(line)
    BY <1>0
  <2> QED
    BY <1>0, <1>1, <1>2, <2>1
<1>5. ASSUME NEW pos \in 1..Len(line), pos = 1 \/ line[pos - 1] = "|"
      PROVE  pos % 2 = 1 /\ line[pos] \in GoodPairs /\ PairAt(line, pos) = <<line[pos]>>
  <2>1. pos % 2 = 1
    <3>1. CASE pos = 1
      BY <3>1
    <3>2. CASE pos # 1 /\ line[pos - 1] = "|"
      <4>1. pos - 1 \in 1..Len(line)
        BY <1>0, <3>2
      <4>2. (pos - 1) % 2 # 1
        BY <1>1, <1>2, <3>2, <4>1
      <4> QED
        BY <4>1, <4>2
    <3> QED
      BY <1>5, <3>1, <3>2
  <2>2. line[pos] \in GoodPairs
    BY <1>1, <2>1
  <2> DEFINE e == PieceEnd(line, pos)
  <2>3. PieceAt(line, pos)
    BY PieceFacts
  <2>4. /\ e \in (pos - 1)..Len(line) /\ \A k \in pos..e : line[k] # "|"
        /\ e < Len(line) => line[e + 1] = "|"
    BY <2>3 DEF PieceAt
  <2>5. e = pos
    <3> HIDE DEF e
    <3>0. e \in Int /\ pos \in Int /\ pos - 1 <= e /\ e <= Len(line) /\ pos >= 1 /\ pos <= Len(line)
      BY <1>0, <2>4
    <3>1. e >= pos
      <4> SUFFICES ASSUME e + 1 = pos PROVE FALSE
        BY <3>0
      <4>1. line[pos] = "|"
        <5>1. e < Len(line)
          BY <1>0, <3>0
        <5> QED
          BY <2>4, <5>1
      <4> QED
        BY <1>2, <2>2, <4>1
    <3>2. e <= pos
      <4> SUFFICES ASSUME e > pos PROVE FALSE
        BY <3>0
      <4>1. pos + 1 \in 1..Len(line) /\ pos + 1 \in pos..e
        BY <1>0, <3>0
      <4>2. (pos + 1) % 2 # 1
        BY <2>1, <3>0
      <4> QED
        BY <1>1, <2>4, <4>1, <4>2
    <3> QED
      BY <3>0, <3>1, <3>2
  <2>6. PairAt(line, pos) = <<line[pos]>>
    BY <2>3, <2>5 DEF PieceAt
  <2> QED
    BY <2>1, <2>2, <2>6
<1>6. \A pos \in PairStarts(line) : pos \in 1..Len(line) /\ (pos = 1 \/ line[pos - 1] = "|")
  BY DEF PairStarts
<1>7. \A pos \in PairStarts(line) : \E p \in GoodPairs : PairAt(line, pos) = <<p>>
  BY <1>5, <1>6, Zenon
<1>8. \A pos \in PairStarts(line) : PairAt(line, pos) # <<"success=0">>
  <2> SUFFICES ASSUME NEW pos \in PairStarts(line), PairAt(line, pos) = <<"success=0">> PROVE FALSE
    OBVIOUS
  <2>1. PieceAt(line, pos) /\ pos \in 1..Len(line)
    BY <1>6, PieceFacts
  <2>2. line[pos] = "success=0"
    BY <2>1 DEF PieceAt
  <2> QED
    BY <1>2, <1>3, <2>1, <2>2, Zenon
<1>9. \E pos \in PairStarts(line) : PairAt(line, pos) = <<"success=1">>
  <2>1. PICK i \in 1..Len(line) : line[i] = "success=1"
    BY <1>3, Zenon
  <2>2. i = 1 \/ line[i - 1] = "|"
    <3> SUFFICES ASSUME i # 1 PROVE line[i - 1] = "|"
      OBVIOUS
    <3>1. i % 2 = 1
      BY <1>1, <1>2, <2>1
    <3>2. i - 1 \in 1..Len(line) /\ (i - 1) % 2 # 1
      BY <1>0, <3>1
    <3> QED
      BY <1>1, <3>2
  <2>3. i \in PairStarts(line)
    BY <1>4, <2>2, StartsFacts
  <2> QED
    BY <1>5, <2>1, <2>2, <2>3
<1>10. Judged(line)
  BY <1>7, <1>8, <1>9 DEF Judged
<1> QED
  BY <1>10, VerdictMeans

\* The invariant gives the properties.
LEMMA AuthInvGives ==
  ASSUME AuthInv
  PROVE  AuthenticatedMeansAccepted /\ KeepsBytesAfterResponse
<1>1. response \in Seq(Letters)
  BY GatewayLines DEF AuthInv, AuthTypes
<1>2. ASSUME pc = "authenticated"
      PROVE  "success=1" \in AllPairs(response) /\ (Accepted \/ response[Len(response)] = "|")
  <2>1. Verdict(response) = "accepted"
    BY <1>2 DEF AuthInv
  <2> QED
    BY <1>1, <2>1, AcceptedSays DEF Accepted
<1>3. ASSUME WellFormed(response), Accepted PROVE why \notin Misread
  <2>1. Verdict(response) = "accepted"
    BY <1>1, <1>3, WellFormedAccepted DEF Accepted
  <2> QED
    BY <2>1 DEF AuthInv, Misread
<1>4. ASSUME pc = "authenticated", ~closed PROVE unread \o arrived \o to_send = Extra
  <2>1. Held = Extra
    BY <1>4 DEF AuthInv
  <2>2. unread \in Seq(Letters) /\ arrived \in Seq(Letters) /\ to_send \in Seq(Letters)
    BY DEF AuthInv, AuthTypes
  <2>3. Cat(unread, Cat(arrived, to_send)) = Cat(Cat(unread, arrived), to_send)
    BY <2>2, CatFacts
  <2> QED
    BY <2>1, <2>3, Zenon DEF Held, ToCome, Cat
<1>5. AuthenticatedMeansAccepted
  BY <1>2, <1>3 DEF AuthenticatedMeansAccepted, Misread
<1> QED
  BY <1>4, <1>5 DEF KeepsBytesAfterResponse

\* Authenticate returns only for a response that says success=1, and does not misread a
\* well-formed one, whatever pieces the stream comes in and whatever its lines are
\* (live_blocking.cpp, DecodeChallenge and DecodeAuthResp).
THEOREM AuthenticatedMeansAcceptedHolds == AuthSpec => []AuthenticatedMeansAccepted
<1>1. AuthInit => AuthInv
  BY AuthBegins
<1>2. AuthInv /\ [AuthNext]_authVars => AuthInv'
  BY AuthInductive
<1>3. AuthInv => AuthenticatedMeansAccepted
  BY AuthInvGives
<1> QED
  BY <1>1, <1>2, <1>3, PTL DEF AuthSpec

\* DecodeAuthResp consumes its line and no byte behind it: all that the gateway sent after
\* the response is still to be read when Authenticate returns.
THEOREM KeepsBytesAfterResponseHolds == AuthSpec => []KeepsBytesAfterResponse
<1>1. AuthInit => AuthInv
  BY AuthBegins
<1>2. AuthInv /\ [AuthNext]_authVars => AuthInv'
  BY AuthInductive
<1>3. AuthInv => KeepsBytesAfterResponse
  BY AuthInvGives
<1> QED
  BY <1>1, <1>2, <1>3, PTL DEF AuthSpec

================================================================================
