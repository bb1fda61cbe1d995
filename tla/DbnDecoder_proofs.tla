------------------------- MODULE DbnDecoder_proofs -------------------------
(***************************************************************************)
(* DbnDecoder hands over the input, piece by piece and with the layouts    *)
(* its metadata announces: for every input, cut or corrupt or not, every   *)
(* size of records, metadata and buffer and every split of the reads.      *)
(***************************************************************************)
EXTENDS DbnDecoder, StreamLemmas, FiniteSetTheorems

\* What the buffer and the tokens hold; no token is corrupt unless one of the input is.
Cells == [rec : Nat, off : Nat] \cup {Uninit}
Toks == {t \in TokensOf(Cells) : t.kind # "corrupt" \/ ~Uncorrupted}

Before == {"detect", "magic", "prelude", "metadata"}
During == {"record", "callback", "done"}

\* The least any buffer may hold.
SmallestSize == IF MaxRecordLen >= 3 THEN MaxRecordLen ELSE 3

LEMMA SmallestSizeFacts ==
  /\ SmallestSize \in Nat /\ SmallestSize >= MaxRecordLen /\ SmallestSize >= 3
  /\ \A n \in BufferSizes : n \in Nat /\ n >= SmallestSize
  BY DecoderAssumption DEF SmallestSize

\* The buffer, and how far a read of the header has filled it.
BufferInv ==
  /\ BufferOf(buf, Cells) /\ buf.cap >= SmallestSize
  /\ pc = "detect" => buf.rd = 0 /\ buf.wr = 0
  /\ pc = "magic" => buf.rd = buf.wr /\ buf.wr = 1
  /\ pc = "prelude" \/ (pc = "idle" /\ metadata = 0) => Unread(buf) = <<Magic>> /\ buf.wr <= 2
  /\ pc = "metadata" => buf.rd = buf.wr

\* Which stage the calls have reached, and what a read in progress has.
StageInv ==
  /\ pc \in Before \cup During \cup {"idle", "failed"}
  /\ pc \in Before => metadata = 0
  /\ pc \in During => metadata # 0
  /\ got \in Seq(Cells) /\ (got # << >> => pc \in {"metadata", "failed"} /\ zstd # NoZstd)
  /\ pc = "metadata" => Len(got) < MetadataLen
  /\ pc = "detect" => input = source.tokens /\ zstd = NoZstd
  /\ pc = "magic" => zstd # NoZstd
  /\ zstd = NoZstd /\ pc \notin {"detect", "failed"} => SingleBytes(input)

\* The versions, and the records handed over: all of the input's, from the first.
VersionInv ==
  /\ source \in Sources /\ policy \in Policies /\ capacity \in BufferSizes
  /\ pc = "metadata" \/ metadata # 0 =>
       version = source.version /\ needs_upgrade = NeedsUpgrade(policy, version)
  /\ metadata # 0 => metadata = MetadataUpgrade(version, policy) /\ version <= kDbnVersion
  /\ delivered \in Seq([rec : Nat, layout : Nat]) /\ Len(delivered) <= Len(Records)
  /\ metadata = 0 => delivered = << >>
  /\ \A i \in 1..Len(delivered) :
       delivered[i] = [rec |-> i, layout |-> Layout(Records[i].rtype, metadata)]

\* Every piece is in its place.
PiecesInv ==
  pc # "failed" =>
    InPlace(Cat(Handed, Cat(Unread(buf), got)), zstd, input, << >>, Cells, Toks, Content)

IInv == BufferInv /\ StageInv /\ VersionInv /\ PiecesInv

-----------------------------------------------------------------------------
(* The input.                                                              *)

\* Cells and tokens.
LEMMA CellFacts ==
  /\ Cell(Cells) = Cells /\ Uninit \in Cells /\ Magic \in Cells
  /\ Toks \in SUBSET TokensOf(Cells) /\ Hostage \in Toks
<1>1. Cell(Cells) = Cells /\ Uninit \in Cells /\ Magic \in Cells
  BY DEF Cell, Cells, Magic
<1>2. << >> \in Seq(Cells)
  OBVIOUS
<1>3. Hostage \in Toks
  BY <1>2 DEF Toks, TokensOf, Hostage, Token, Kinds
<1>4. Toks \in SUBSET TokensOf(Cells)
  BY DEF Toks
<1> QED
  BY <1>1, <1>3, <1>4

\* An input is made of tokens of cells.
LEMMA SourceFacts ==
  ASSUME source \in Sources
  PROVE  /\ SourceOk(source) /\ source.tokens \in Seq(Toks)
         /\ source.version \in Nat \ {0} /\ source.sized \in BOOLEAN /\ source.wellformed \in BOOLEAN
<1>1. SourceOk(source)
  BY DecoderAssumption
<1>2. ASSUME NEW t \in TokensOf([rec : Nat, off : Nat]) PROVE t \in TokensOf(Cells)
  <2>1. \A q \in Seq([rec : Nat, off : Nat]) : q \in Seq(Cells)
    <3> DEFINE Pieces == [rec : Nat, off : Nat]
    <3>1. \A e \in Pieces : e \in Cells
      BY DEF Cells
    <3> HIDE DEF Pieces
    <3>2. \A q \in Seq(Pieces) : q \in Seq(Cells)
      BY <3>1
    <3> QED
      BY <3>2 DEF Pieces
  <2>2. /\ t = [kind |-> t.kind, out |-> t.out, last |-> t.last]
        /\ t.kind \in Kinds /\ t.out \in Seq([rec : Nat, off : Nat]) /\ t.last \in BOOLEAN
    BY DEF TokensOf
  <2>3. t.out \in Seq(Cells)
    BY <2>1, <2>2
  <2> QED
    BY <2>2, <2>3 DEF TokensOf
<1>3. source.tokens \in Seq(Toks)
  <2> DEFINE q == source.tokens
  <2>1. q \in Seq(TokensOf([rec : Nat, off : Nat]))
    BY <1>1 DEF SourceOk
  <2>2. Len(q) \in Nat /\ q \in [1..Len(q) -> TokensOf(Cells)]
    BY <1>2, <2>1
  <2>3. \A i \in 1..Len(q) : q[i].kind # "corrupt" \/ ~Uncorrupted
    BY DEF Uncorrupted
  <2>4. q \in [1..Len(q) -> Toks]
    BY <2>2, <2>3 DEF Toks
  <2> HIDE DEF q
  <2>5. q \in Seq(Toks)
    BY <2>2, <2>4, FunctionSeq
  <2> QED
    BY <2>5 DEF q
<1> QED
  BY <1>1, <1>3 DEF SourceOk

\* The unread cells.
LEMMA UnreadCells ==
  ASSUME NEW b, BufferOf(b, Cells)
  PROVE  Unread(b) \in Seq(Cells) /\ Len(Unread(b)) = b.wr - b.rd /\ b.wr - b.rd \in Nat
<1>1. Unread(b) \in Seq(Cell(Cells)) /\ Len(Unread(b)) = b.wr - b.rd
  BY UnreadSeq
<1>2. b.wr - b.rd \in Nat
  BY DEF BufferOf
<1> QED
  BY <1>1, <1>2, CellFacts

\* The parts of an input: its header, and the pieces of each record.
Parts == [r \in 1..Len(Records) |-> PiecesOf(r)]
FrontOf(n) == FirstParts(Header, Parts, n)

\* The header and the pieces of each record, and where they begin.
LEMMA PartsFacts ==
  /\ Header \in Seq(Cells) /\ Len(Header) = HeaderLen /\ HeaderLen \in Nat /\ Header[1] = Magic
  /\ \A r \in 1..Len(Records) :
       /\ PiecesOf(r) \in Seq(Cells) /\ Len(PiecesOf(r)) = Records[r].len /\ Records[r].len \in Nat \ {0}
       /\ Records[r].len <= MaxRecordLen
       /\ \A k \in 1..Records[r].len : PiecesOf(r)[k] = [rec |-> r, off |-> k]
  /\ Parts \in Seq(Seq(Cells)) /\ Len(Parts) = Len(Records)
  /\ \A r \in 1..Len(Records) : Parts[r] = PiecesOf(r)
<1>1. MetadataLen \in Nat /\ HeaderLen \in Nat /\ HeaderLen >= 1
  BY DecoderAssumption DEF HeaderLen
<1>2. Header \in [1..HeaderLen -> Cells] /\ Header[1] = Magic
  BY <1>1 DEF Header, Cells, Magic
<1>3. ASSUME NEW r \in 1..Len(Records)
      PROVE  /\ PiecesOf(r) \in Seq(Cells) /\ Len(PiecesOf(r)) = Records[r].len
             /\ Records[r].len \in Nat \ {0} /\ Records[r].len <= MaxRecordLen
             /\ \A k \in 1..Records[r].len : PiecesOf(r)[k] = [rec |-> r, off |-> k]
  <2>1. Records[r].len \in Nat \ {0} /\ Records[r].len <= MaxRecordLen /\ r \in Nat
    BY DecoderAssumption
  <2>2. PiecesOf(r) \in [1..Records[r].len -> Cells]
    BY <2>1 DEF PiecesOf, Cells
  <2>3. \A k \in 1..Records[r].len : PiecesOf(r)[k] = [rec |-> r, off |-> k]
    BY <2>1 DEF PiecesOf
  <2> QED
    BY <2>1, <2>2, <2>3, FunctionSeq
<1>4. Len(Records) \in Nat
  BY DecoderAssumption
<1>5. Parts \in [1..Len(Records) -> Seq(Cells)]
  BY <1>3 DEF Parts
<1>6. Parts \in Seq(Seq(Cells)) /\ Len(Parts) = Len(Records)
  BY <1>4, <1>5, FunctionSeq
<1>7. Header \in Seq(Cells) /\ Len(Header) = HeaderLen
  BY <1>1, <1>2, FunctionSeq
<1> QED
  BY <1>1, <1>2, <1>3, <1>6, <1>7 DEF Parts

\* The front of an input grows by the pieces of the next record.
LEMMA FrontFacts ==
  ASSUME NEW n \in 0..Len(Records)
  PROVE  /\ FrontOf(n) \in Seq(Cells) /\ FrontOf(0) = Header
         /\ Whole = FrontOf(Len(Records))
         /\ n < Len(Records) =>
              /\ FrontOf(n + 1) = Cat(FrontOf(n), PiecesOf(n + 1))
              /\ \E y \in Seq(Cells) : Whole = Cat(FrontOf(n), Cat(PiecesOf(n + 1), y))
<1>1. /\ Parts \in Seq(Seq(Cells)) /\ Len(Parts) = Len(Records) /\ Len(Records) \in Nat
      /\ Header \in Seq(Cells) /\ n \in 0..Len(Parts)
      /\ \A r \in 1..Len(Records) : Parts[r] = PiecesOf(r)
  BY PartsFacts, DecoderAssumption
<1>2. SubSeq(Parts, 1, Len(Parts)) = Parts
  BY <1>1
<1>3. Whole = FrontOf(Len(Records))
  BY <1>1, <1>2 DEF Whole, FrontOf, FirstParts, Parts, Cat
<1>4. n < Len(Records) => Parts[n + 1] = PiecesOf(n + 1)
  BY <1>1
<1>5. /\ FrontOf(n) \in Seq(Cells) /\ FrontOf(0) = Header
      /\ n < Len(Parts) =>
           /\ FrontOf(n + 1) = Cat(FrontOf(n), Parts[n + 1])
           /\ \E y \in Seq(Cells) : FrontOf(Len(Parts)) = Cat(FrontOf(n), Cat(Parts[n + 1], y))
  BY <1>1, FrontGrows DEF FrontOf
<1> QED
  BY <1>1, <1>3, <1>4, <1>5

\* Records that are the input's first are its front.
Deliveries == [rec : Nat, layout : Nat]

\* The pieces of the first records make the front of the input.
LEMMA RecordsFront ==
  ASSUME NEW d \in Seq(Deliveries), Len(d) <= Len(Records), \A i \in 1..Len(d) : d[i].rec = i
  PROVE  /\ Header \o FlattenSeq([i \in 1..Len(d) |-> PiecesOf(d[i].rec)]) = FrontOf(Len(d))
         /\ Len(d) \in 0..Len(Records)
<1> DEFINE n == Len(d)
           h == [i \in 1..n |-> PiecesOf(d[i].rec)]
           p == SubSeq(Parts, 1, n)
<1>1. n \in 0..Len(Records) /\ Len(Records) \in Nat /\ \A i \in 1..n : d[i].rec = i
  BY DecoderAssumption
<1>2. p \in Seq(Seq(Cells)) /\ Len(p) = n /\ \A i \in 1..n : p[i] = PiecesOf(i)
  <2>1. Parts \in Seq(Seq(Cells)) /\ Len(Parts) = Len(Records)
        /\ \A r \in 1..Len(Records) : Parts[r] = PiecesOf(r)
    BY PartsFacts
  <2>2. p \in Seq(Seq(Cells)) /\ Len(p) = n /\ \A i \in 1..n : p[i] = Parts[i]
    BY <1>1, <2>1, TakeDrop
  <2> QED
    BY <1>1, <2>1, <2>2
<1>3. h \in Seq(Seq(Cells)) /\ Len(h) = n
  <2>0. \A r \in 1..Len(Records) : PiecesOf(r) \in Seq(Cells)
    BY PartsFacts
  <2>1. \A i \in 1..n : PiecesOf(d[i].rec) \in Seq(Cells)
    BY <1>1, <2>0
  <2>2. n \in Nat /\ h \in [1..n -> Seq(Cells)]
    BY <1>1, <2>1
  <2> QED
    BY <2>2, FunctionSeq
<1>4. \A i \in 1..n : h[i] = p[i]
  BY <1>1, <1>2
<1>5. h = p
  <2> HIDE DEF h, p
  <2> QED
    BY <1>2, <1>3, <1>4, SeqEqual
<1> QED
  BY <1>1, <1>5 DEF FrontOf, FirstParts, Cat

\* The records handed over are the input's first.
LEMMA HandedFront ==
  ASSUME VersionInv, metadata # 0
  PROVE  Handed = FrontOf(Len(delivered)) /\ Len(delivered) \in 0..Len(Records)
<1>1. delivered \in Seq(Deliveries) /\ Len(delivered) <= Len(Records)
  BY DEF VersionInv, Deliveries
<1>2. ASSUME NEW i \in 1..Len(delivered) PROVE delivered[i].rec = i
  <2>1. delivered[i] = [rec |-> i, layout |-> Layout(Records[i].rtype, metadata)]
    BY DEF VersionInv
  <2> QED
    BY <2>1
<1> QED
  BY <1>1, <1>2, RecordsFront DEF Handed

\* An input that begins with the magic is a part of the whole.
LEMMA ContentMatches ==
  ASSUME source \in Sources, NEW u \in Seq(Cells), NEW v \in Seq(Cells), Content = Cat(u, v),
         u # << >>, u[1] = Magic
  PROVE  Begins(Content, Whole)
<1>1. Len(u) \in Nat /\ Len(u) # 0 /\ Cat(u, v)[1] = u[1] /\ Cat(u, v) \in Seq(Cells)
      /\ Len(Cat(u, v)) = Len(u) + Len(v) /\ Len(v) \in Nat
  <2>1. Len(u) \in Nat /\ Len(u) # 0 /\ Len(v) \in Nat
    BY EmptySeq
  <2>2. /\ Cat(u, v) \in Seq(Cells) /\ Len(Cat(u, v)) = Len(u) + Len(v)
        /\ \A i \in 1..Len(u) : Cat(u, v)[i] = u[i]
    BY ConcatParts DEF Cat
  <2> QED
    BY <2>1, <2>2
<1>2. Content # << >> /\ Content[1] = Magic
  BY <1>1, EmptySeq
<1>3. SourceOk(source)
  BY SourceFacts
<1> QED
  BY <1>2, <1>3 DEF SourceOk, Content, Begins

\* Its first pieces are the header's.
LEMMA HeaderPieces ==
  ASSUME source \in Sources, NEW u \in Seq(Cells), NEW v \in Seq(Cells), Content = Cat(u, v),
         u # << >>, u[1] = Magic, Len(u) <= HeaderLen
  PROVE  u = SubSeq(Header, 1, Len(u))
<1>1. Header \in Seq(Cells) /\ Len(Header) = HeaderLen /\ HeaderLen \in Nat \ {0}
      /\ Parts \in Seq(Seq(Cells)) /\ Len(Parts) = Len(Records)
  BY PartsFacts, DecoderAssumption DEF HeaderLen
<1>2. Header # << >>
  BY <1>1
<1>3. 0 \in 0..Len(Records)
  BY DecoderAssumption
<1>4. Begins(Cat(u, v), FirstParts(Header, Parts, Len(Parts)))
  BY <1>1, <1>3, ContentMatches, FrontFacts DEF FrontOf
<1> QED
  BY <1>1, <1>2, <1>4, HeaderPart

\* Behind its header and n records come the pieces of the next.
LEMMA RecordPieces ==
  ASSUME source \in Sources, NEW n \in 0..Len(Records), NEW u \in Seq(Cells), NEW v \in Seq(Cells),
         Content = Cat(FrontOf(n), Cat(u, v)), u # << >>
  PROVE  /\ n < Len(Records) /\ n + 1 \in 1..Len(Records) /\ u[1] = [rec |-> n + 1, off |-> 1]
         /\ \A i \in 1..Len(u) : i <= Records[n + 1].len => u[i] = [rec |-> n + 1, off |-> i]
         /\ Records[n + 1].len <= Len(u) => SubSeq(u, 1, Records[n + 1].len) = PiecesOf(n + 1)
<1>1. /\ Header \in Seq(Cells) /\ Header # << >> /\ Header[1] = Magic /\ 1 \in 1..Len(Header)
      /\ Parts \in Seq(Seq(Cells)) /\ Len(Parts) = Len(Records) /\ n \in 0..Len(Parts)
  BY PartsFacts, DecoderAssumption DEF HeaderLen
<1>2. FrontOf(n) \in Seq(Cells) /\ FrontOf(n) # << >> /\ FrontOf(n)[1] = Magic
  BY <1>1, FrontFacts, FrontFirst DEF FrontOf
<1>3. Cat(u, v) \in Seq(Cells)
  BY ConcatParts DEF Cat
<1>4. Begins(Content, Whole)
  BY <1>2, <1>3, ContentMatches
<1>5. Begins(Cat(FirstParts(Header, Parts, n), Cat(u, v)), FirstParts(Header, Parts, Len(Parts)))
  BY <1>1, <1>4, FrontFacts DEF FrontOf
<1>6. /\ n < Len(Parts)
      /\ \A i \in 1..Len(u) : i <= Len(Parts[n + 1]) => u[i] = Parts[n + 1][i]
      /\ Len(Parts[n + 1]) <= Len(u) => SubSeq(u, 1, Len(Parts[n + 1])) = Parts[n + 1]
  BY <1>1, <1>5, NextPart
<1>7. n + 1 \in 1..Len(Records) /\ 1 \in 1..Len(u)
  BY <1>1, <1>6, EmptySeq, DecoderAssumption, SMTT(30)
<1>8. /\ Parts[n + 1] = PiecesOf(n + 1) /\ Len(PiecesOf(n + 1)) = Records[n + 1].len
      /\ Records[n + 1].len \in Nat \ {0}
      /\ \A k \in 1..Records[n + 1].len : PiecesOf(n + 1)[k] = [rec |-> n + 1, off |-> k]
  BY <1>7, PartsFacts
<1>9. ASSUME NEW i \in 1..Len(u), i <= Records[n + 1].len PROVE u[i] = [rec |-> n + 1, off |-> i]
  <2>1. i \in 1..Records[n + 1].len
    BY <1>8, <1>9
  <2>2. u[i] = PiecesOf(n + 1)[i]
    BY <1>6, <1>8, <1>9
  <2> QED
    BY <1>8, <2>1, <2>2
<1>10. Records[n + 1].len <= Len(u) => SubSeq(u, 1, Records[n + 1].len) = PiecesOf(n + 1)
  BY <1>6, <1>8, Zenon
<1>11. u[1] = [rec |-> n + 1, off |-> 1]
  BY <1>7, <1>8, <1>9
<1> QED
  BY <1>1, <1>6, <1>7, <1>9, <1>10, <1>11

\* The first n records, whole and no others, are in the front of an input.
LastOf(r) == [rec |-> r, off |-> Records[r].len]
FrontHolds(n) ==
  /\ \A r \in 1..n : \E i \in 1..Len(FrontOf(n)) : FrontOf(n)[i] = LastOf(r)
  /\ \A i \in 1..Len(FrontOf(n)) : FrontOf(n)[i].rec \in 0..n

\* It holds them for every n.
LEMMA FrontRecords ==
  ASSUME NEW n \in 0..Len(Records)
  PROVE  FrontHolds(n)
<1> DEFINE S == {k \in Nat : k <= Len(Records) => FrontHolds(k)}
<1>1. Len(Records) \in Nat /\ n \in Nat
  BY PartsFacts
<1>2. 0 \in S
  <2>0. 0 \in 0..Len(Records)
    BY <1>1
  <2>1. FrontOf(0) = Header
    BY <2>0, FrontFacts
  <2>2. \A i \in 1..Len(Header) : Header[i].rec \in 0..0
    <3>1. Len(Header) = HeaderLen
      BY PartsFacts
    <3>2. \A i \in 1..HeaderLen : Header[i].rec = 0
      BY DEF Header
    <3> QED
      BY <3>1, <3>2
  <2>3. FrontHolds(0)
    BY <2>1, <2>2 DEF FrontHolds
  <2> QED
    BY <2>3
<1>3. ASSUME NEW k \in S PROVE k + 1 \in S
  <2> SUFFICES ASSUME k + 1 <= Len(Records) PROVE FrontHolds(k + 1)
    BY <1>3
  <2>1. k \in Nat /\ k \in 0..Len(Records) /\ k < Len(Records) /\ k + 1 \in 1..Len(Records)
    BY <1>1, <1>3
  <2>2. FrontHolds(k)
    BY <1>3, <2>1
  <2> DEFINE f == FrontOf(k)
             p == PiecesOf(k + 1)
             g == FrontOf(k + 1)
             m == Records[k + 1].len
  <2>3. f \in Seq(Cells) /\ g = Cat(f, p)
    BY <2>1, FrontFacts
  <2>4. /\ p \in Seq(Cells) /\ Len(p) = m /\ m \in Nat \ {0} /\ \A i \in 1..m : p[i] = [rec |-> k + 1, off |-> i]
    BY <2>1, PartsFacts
  <2>5. /\ \A r \in 1..k : \E i \in 1..Len(f) : f[i] = LastOf(r)
        /\ \A i \in 1..Len(f) : f[i].rec \in 0..k
    BY <2>2 DEF FrontHolds
  <2>6. LastOf(k + 1) = [rec |-> k + 1, off |-> m]
    BY DEF LastOf
  <2> HIDE DEF f, p, g, m
  <2>7. /\ Len(g) = Len(f) + Len(p) /\ Len(f) \in Nat
        /\ \A i \in 1..Len(f) : g[i] = f[i]
        /\ \A i \in 1..Len(p) : g[Len(f) + i] = p[i]
    <3>1. f \in Seq(Cells) /\ p \in Seq(Cells) /\ g = f \o p
      BY <2>3, <2>4 DEF Cat
    <3>2. Len(f) \in Nat
      BY <3>1
    <3> QED
      BY <3>1, <3>2, ConcatParts
  <2>8. ASSUME NEW r \in 1..(k + 1) PROVE \E i \in 1..Len(g) : g[i] = LastOf(r)
    <3>1. CASE r = k + 1
      <4>1. m \in 1..Len(p) /\ m \in 1..m /\ Len(f) + m \in 1..Len(g)
        BY <2>4, <2>7
      <4>2. g[Len(f) + m] = LastOf(r)
        BY <2>4, <2>6, <2>7, <3>1, <4>1
      <4> QED
        BY <4>1, <4>2
    <3>2. CASE r # k + 1
      <4>1. r \in 1..k
        BY <2>1, <3>2
      <4>2. PICK i \in 1..Len(f) : f[i] = LastOf(r)
        BY <2>5, <4>1
      <4>3. i \in 1..Len(g) /\ g[i] = LastOf(r)
        BY <2>4, <2>7, <4>2
      <4> QED
        BY <4>3
    <3> QED
      BY <3>1, <3>2
  <2>9. ASSUME NEW i \in 1..Len(g) PROVE g[i].rec \in 0..(k + 1)
    <3>1. CASE i <= Len(f)
      <4>1. i \in 1..Len(f)
        BY <2>7, <3>1
      <4>2. f[i].rec \in 0..k /\ g[i] = f[i]
        BY <2>5, <2>7, <4>1
      <4> QED
        BY <2>1, <4>2
    <3>2. CASE ~(i <= Len(f))
      <4> DEFINE j == i - Len(f)
      <4>1. j \in 1..Len(p) /\ j \in 1..m /\ Len(f) + j = i
        BY <2>4, <2>7, <3>2
      <4> HIDE DEF j
      <4>2. g[i] = [rec |-> k + 1, off |-> j]
        BY <2>4, <2>7, <4>1
      <4>3. k + 1 \in 0..(k + 1)
        BY <2>1
      <4> QED
        BY <4>2, <4>3
    <3> QED
      BY <3>1, <3>2
  <2> QED
    BY <2>8, <2>9 DEF FrontHolds, g
<1>4. S = Nat
  BY <1>2, <1>3, SetInduction
<1> QED
  BY <1>1, <1>4

\* The records that are whole can be counted.
LEMMA WholeFinite ==
  /\ IsFiniteSet(WholeRecords) /\ Cardinality(WholeRecords) \in Nat
  /\ \A n \in Nat : 1..n \in SUBSET WholeRecords => n <= Cardinality(WholeRecords)
  /\ \A n \in Nat : WholeRecords = 1..n => Cardinality(WholeRecords) = n
<1>1. \A n \in Nat : IsFiniteSet(1..n) /\ Cardinality(1..n) = n
  <2> SUFFICES ASSUME NEW n \in Nat PROVE IsFiniteSet(1..n) /\ Cardinality(1..n) = n
    OBVIOUS
  <2>1. IsFiniteSet(1..n) /\ Cardinality(1..n) = IF 1 > n THEN 0 ELSE n - 1 + 1
    <3>1. 1 \in Int /\ n \in Int
      OBVIOUS
    <3> QED
      BY <3>1, FS_Interval
  <2>2. (IF 1 > n THEN 0 ELSE n - 1 + 1) = n
    OBVIOUS
  <2> QED
    BY <2>1, <2>2
<1>2. WholeRecords \in SUBSET (1..Len(Records)) /\ Len(Records) \in Nat
  BY PartsFacts DEF WholeRecords
<1>3. IsFiniteSet(WholeRecords)
  BY <1>1, <1>2, FS_Subset
<1>4. Cardinality(WholeRecords) \in Nat
  BY <1>3, FS_CardinalityType
<1>5. ASSUME NEW n \in Nat, 1..n \in SUBSET WholeRecords PROVE n <= Cardinality(WholeRecords)
  <2>1. Cardinality(1..n) <= Cardinality(WholeRecords)
    BY <1>3, <1>5, FS_Subset
  <2> QED
    BY <1>1, <2>1
<1> QED
  BY <1>1, <1>3, <1>4, <1>5

\* The records an input is known to hold.
LEMMA WholeAtLeast ==
  ASSUME source \in Sources, NEW n \in 0..Len(Records), NEW x \in Seq(Cells),
         Content = Cat(FrontOf(n), x)
  PROVE  n <= Cardinality(WholeRecords)
<1> DEFINE f == FrontOf(n)
<1>1. n \in Nat /\ f \in Seq(Cells) /\ Len(Records) \in Nat
  BY FrontFacts, PartsFacts
<1>2. \A r \in 1..n : \E i \in 1..Len(f) : f[i] = LastOf(r)
  BY FrontRecords DEF FrontHolds
<1> HIDE DEF f
<1>3. Len(Content) = Len(f) + Len(x) /\ \A i \in 1..Len(f) : Content[i] = f[i]
  <2>1. Content = f \o x
    BY DEF f, Cat
  <2> QED
    BY <1>1, <2>1, ConcatParts
<1>4. ASSUME NEW r \in 1..n PROVE r \in WholeRecords
  <2>1. PICK i \in 1..Len(f) : f[i] = LastOf(r)
    BY <1>2
  <2>2. i \in 1..Len(Content) /\ Content[i] = LastOf(r)
    BY <1>1, <1>3, <2>1
  <2>3. r \in 1..Len(Records)
    BY <1>1
  <2> QED
    BY <2>2, <2>3 DEF WholeRecords, LastOf
<1>5. 1..n \in SUBSET WholeRecords
  BY <1>4
<1> QED
  BY <1>1, <1>5, WholeFinite

\* Behind n records less than a record is left: there are n.
LEMMA WholeExactly ==
  ASSUME source \in Sources, NEW n \in 0..Len(Records), NEW u \in Seq(Cells),
         Content = Cat(FrontOf(n), u), u # << >> => ~(Records[u[1].rec].len <= Len(u))
  PROVE  Cardinality(WholeRecords) = n
<1> DEFINE f == FrontOf(n)
           e == << >>
<1>1. n \in Nat /\ f \in Seq(Cells) /\ Len(f) \in Nat /\ Len(u) \in Nat /\ Len(Records) \in Nat
  BY FrontFacts, PartsFacts
<1>2. \A i \in 1..Len(f) : f[i].rec \in 0..n
  BY FrontRecords DEF FrontHolds
<1>3. \A r \in 1..n : \E i \in 1..Len(f) : f[i] = LastOf(r)
  BY FrontRecords DEF FrontHolds
<1>4. Cat(u, e) = u /\ e \in Seq(Cells)
  BY DEF Cat
<1>5. u # << >> =>
        /\ n + 1 \in 1..Len(Records)
        /\ \A i \in 1..Len(u) : i <= Records[n + 1].len => u[i] = [rec |-> n + 1, off |-> i]
  <2>1. Content = Cat(FrontOf(n), Cat(u, e))
    BY <1>4
  <2> HIDE DEF e
  <2> QED
    BY <1>4, <2>1, RecordPieces
<1> HIDE DEF f, e
<1>6. /\ Len(Content) = Len(f) + Len(u) /\ (\A i \in 1..Len(f) : Content[i] = f[i])
      /\ \A i \in 1..Len(u) : Content[Len(f) + i] = u[i]
  <2>1. Content = f \o u
    BY DEF f, Cat
  <2> QED
    BY <1>1, <2>1, ConcatParts
<1>7. ASSUME NEW r \in WholeRecords PROVE r \in 1..n
  <2>1. r \in 1..Len(Records) /\ \E i \in 1..Len(Content) : Content[i] = LastOf(r)
    BY DEF WholeRecords, LastOf
  <2>2. PICK i \in 1..Len(Content) : Content[i] = LastOf(r)
    BY <2>1
  <2>3. LastOf(r).rec = r /\ LastOf(r).off = Records[r].len
    BY DEF LastOf
  <2>4. CASE i <= Len(f)
    <3>1. i \in 1..Len(f)
      BY <1>1, <2>4
    <3>2. f[i].rec = r
      BY <1>6, <2>2, <2>3, <3>1
    <3> QED
      BY <1>1, <1>2, <2>1, <3>1, <3>2
  <2>5. CASE ~(i <= Len(f))
    <3> DEFINE j == i - Len(f)
    <3>1. j \in 1..Len(u) /\ Len(f) + j = i /\ j \in Nat /\ 1 \in 1..Len(u)
      BY <1>1, <1>6, <2>5
    <3> HIDE DEF j
    <3>2. u # << >>
      BY <3>1
    <3>3. /\ n + 1 \in 1..Len(Records)
          /\ \A k \in 1..Len(u) : k <= Records[n + 1].len => u[k] = [rec |-> n + 1, off |-> k]
      BY <1>5, <3>2
    <3>4. Records[n + 1].len \in Nat \ {0}
      BY <3>3, PartsFacts
    <3>5. u[1].rec = n + 1
      <4>1. 1 <= Records[n + 1].len
        BY <3>4
      <4>2. u[1] = [rec |-> n + 1, off |-> 1]
        BY <3>1, <3>3, <4>1
      <4> QED
        BY <4>2
    <3>6. Len(u) < Records[n + 1].len
      BY <1>1, <3>2, <3>4, <3>5
    <3>7. u[j] = [rec |-> n + 1, off |-> j]
      BY <1>1, <3>1, <3>3, <3>4, <3>6
    <3>8. u[j] = LastOf(r)
      BY <1>6, <2>2, <3>1
    <3>9. u[j].rec = n + 1 /\ u[j].off = j
      BY <3>7
    <3>10. r = n + 1 /\ Records[r].len = j
      BY <2>3, <3>8, <3>9
    <3> QED
      BY <1>1, <3>1, <3>4, <3>6, <3>10
  <2> QED
    BY <2>4, <2>5
<1>8. ASSUME NEW r \in 1..n PROVE r \in WholeRecords
  <2>1. PICK i \in 1..Len(f) : f[i] = LastOf(r)
    BY <1>3
  <2>2. i \in 1..Len(Content) /\ Content[i] = LastOf(r)
    BY <1>1, <1>6, <2>1
  <2>3. r \in 1..Len(Records)
    BY <1>1
  <2> QED
    BY <2>2, <2>3 DEF WholeRecords, LastOf
<1>9. WholeRecords = 1..n
  BY <1>7, <1>8
<1> QED
  BY <1>1, <1>9, WholeFinite

-----------------------------------------------------------------------------
(* The versions.                                                           *)

\* NeedsUpgrade, DecodeRecordCompat and Metadata::Upgrade agree on the layout of a record.
LEMMA LayoutsAgree ==
  ASSUME NEW v \in 1..kDbnVersion, NEW p \in Policies, NEW rtype
  PROVE  LET m == MetadataUpgrade(v, p)
         IN  /\ (IF NeedsUpgrade(p, v) THEN DecodeRecordCompat(v, p, rtype) ELSE Layout(rtype, v))
                  = Layout(rtype, m)
             /\ m \in Nat /\ m # 0 /\ Layout(rtype, m) \in Nat
<1>1. v \in {1, 2, 3}
  BY DEF kDbnVersion
<1>2. /\ Layout(rtype, 1) = 1
      /\ Layout(rtype, 2) = IF rtype = "InstrumentDef" THEN 2
                            ELSE IF rtype \in {"SymbolMapping", "Error", "System"} THEN 2 ELSE 1
      /\ Layout(rtype, 3) = IF rtype \in {"InstrumentDef", "Statistics"} THEN 3
                            ELSE IF rtype \in {"SymbolMapping", "Error", "System"} THEN 2 ELSE 1
  BY DEF Layout
<1>3. CASE v = 1
  BY <1>2, <1>3 DEF MetadataUpgrade, NeedsUpgrade, DecodeRecordCompat, Policies, Changed, kDbnVersion
<1>4. CASE v = 2
  BY <1>2, <1>4 DEF MetadataUpgrade, NeedsUpgrade, DecodeRecordCompat, Policies, Changed, kDbnVersion
<1>5. CASE v = 3
  BY <1>2, <1>5 DEF MetadataUpgrade, NeedsUpgrade, DecodeRecordCompat, Policies, Changed, kDbnVersion
<1> QED
  BY <1>1, <1>3, <1>4, <1>5

\* Steps that hand nothing over and leave the versions alone.
LEMMA VersionSame ==
  ASSUME VersionInv, UNCHANGED <<source, policy, capacity, version, needs_upgrade, metadata, delivered>>,
         pc' # "metadata"
  PROVE  VersionInv'
  BY DEF VersionInv

-----------------------------------------------------------------------------
(* The steps.                                                              *)

\* What a step must show of the pieces.
PiecesNext ==
  InPlace(Cat(Handed', Cat(Unread(buf'), got')), zstd', input', << >>, Cells, Toks, Content)

\* What a step has shown of the pieces it leaves holds after it.
LEMMA PiecesPrime ==
  ASSUME UNCHANGED source, pc' # "failed" => PiecesNext
  PROVE  PiecesInv'
<1>1. Content' = Content
  BY DEF Content
<1>2. Uncorrupted' <=> Uncorrupted
  BY DEF Uncorrupted
<1>3. Toks' = Toks
  BY <1>2 DEF Toks
<1> QED
  BY <1>1, <1>3 DEF PiecesInv, PiecesNext

\* An exception leaves nothing to show.
LEMMA ThrowStep ==
  ASSUME IInv, Throw, UNCHANGED <<source, policy, capacity, version, needs_upgrade, metadata, delivered, got>>,
         BufferOf(buf', Cells), buf'.cap >= SmallestSize,
         zstd' = NoZstd => zstd = NoZstd
  PROVE  IInv'
<1>1. pc' = "failed"
  BY DEF Throw
<1>2. BufferInv'
  BY <1>1 DEF BufferInv
<1>3. StageInv'
  BY <1>1 DEF IInv, StageInv, Before, During
<1>4. VersionInv'
  BY <1>1, VersionSame DEF IInv
<1>5. PiecesInv'
  BY <1>1, PiecesPrime
<1> QED
  BY <1>2, <1>3, <1>4, <1>5 DEF IInv

\* Facts of a state in which the decoder reads.
LEMMA ReadingFacts ==
  ASSUME IInv, pc # "failed"
  PROVE  /\ source \in Sources /\ BufferOf(buf, Cells) /\ buf.cap >= SmallestSize
         /\ Unread(buf) \in Seq(Cells) /\ Len(Unread(buf)) = buf.wr - buf.rd
         /\ got \in Seq(Cells) /\ Handed \in Seq(Cells)
         /\ buf.wr \in Nat /\ buf.rd \in Nat /\ SmallestSize \in Nat
         /\ InPlace(Cat(Handed, Cat(Unread(buf), got)), zstd, input, << >>, Cells, Toks, Content)
<1>1. BufferOf(buf, Cells) /\ buf.cap >= SmallestSize /\ source \in Sources /\ got \in Seq(Cells)
  BY DEF IInv, BufferInv, StageInv, VersionInv
<1>2. Unread(buf) \in Seq(Cells) /\ Len(Unread(buf)) = buf.wr - buf.rd
  BY <1>1, UnreadCells
<1>3. buf.wr \in Nat /\ buf.rd \in Nat /\ SmallestSize \in Nat
  BY <1>1, SmallestSizeFacts DEF BufferOf
<1>4. Handed \in Seq(Cells)
  <2>1. CASE metadata # 0
    <3>1. Handed = FrontOf(Len(delivered)) /\ Len(delivered) \in 0..Len(Records)
      BY <2>1, HandedFront DEF IInv
    <3> QED
      BY <3>1, FrontFacts
  <2>2. CASE metadata = 0
    <3>1. SubSeq(Header, 1, 2) \in Seq(Cells)
      <4>1. Header \in Seq(Cells) /\ Len(Header) = HeaderLen
        BY PartsFacts
      <4>2. 2 \in 0..Len(Header)
        BY <4>1, DecoderAssumption DEF HeaderLen
      <4> QED
        BY <4>1, <4>2, TakeDrop
    <3>2. << >> \in Seq(Cells)
      OBVIOUS
    <3> QED
      BY <2>2, <3>1, <3>2 DEF Handed
  <2> QED
    BY <2>1, <2>2
<1>5. InPlace(Cat(Handed, Cat(Unread(buf), got)), zstd, input, << >>, Cells, Toks, Content)
  BY DEF IInv, PiecesInv
<1> QED
  BY <1>1, <1>2, <1>3, <1>4, <1>5

\* FillBuffer's data reaches the buffer.
LEMMA FilledStep ==
  ASSUME IInv, pc = "record", UNCHANGED <<source, policy, capacity>>, NEW data \in Seq(Cells), Filled(data),
         Len(data) <= WriteCapacity(Shifted),
         InPlace(Cat(Handed, Cat(Unread(buf), data)), zstd', input', << >>, Cells, Toks, Content),
         zstd' = NoZstd => SingleBytes(input')
  PROVE  IInv'
<1> DEFINE c == Shifted
           f == Fill(c, data)
<1>1. /\ metadata # 0 /\ got = << >> /\ BufferOf(buf, Cells) /\ buf.cap >= SmallestSize
      /\ Unread(buf) \in Seq(Cells)
  BY ReadingFacts DEF IInv, StageInv, During
<1>2. MaxRecordLen \in Nat
  BY DecoderAssumption
<1>3. BufferOf(c, Cells) /\ c.cap >= SmallestSize /\ Unread(c) = Unread(buf)
  BY <1>1, <1>2, ShiftForSpaceLemma DEF Shifted
<1> HIDE DEF c
<1>4. BufferOf(f, Cells) /\ f.cap = c.cap /\ Unread(f) = Unread(c) \o data
  BY <1>3, FillLemma DEF c
<1>5. /\ buf' = f /\ UNCHANGED <<got, version, needs_upgrade, metadata, delivered>>
      /\ pc' \in {"record", "done", "idle"}
  BY DEF Filled, metaVars, c
<1> HIDE DEF f
<1>6. Handed' = Handed
  BY <1>1, <1>5 DEF Handed
<1>7. Cat(Unread(buf'), got') = Cat(Unread(buf), data)
  <2>1. Cat(Unread(buf), data) \in Seq(Cells)
    BY <1>1, CatFacts
  <2>2. Unread(buf') = Cat(Unread(buf), data)
    BY <1>3, <1>4, <1>5 DEF Cat
  <2> QED
    BY <1>1, <1>5, <2>1, <2>2, CatEmpty
<1>8. PiecesNext
  BY <1>6, <1>7 DEF PiecesNext
<1>9. BufferInv'
  BY <1>1, <1>3, <1>4, <1>5 DEF BufferInv
<1>10. StageInv'
  BY <1>1, <1>5 DEF IInv, StageInv, Before, During
<1>11. VersionInv'
  BY <1>5, VersionSame DEF IInv
<1>12. PiecesInv'
  BY <1>8, PiecesPrime
<1> QED
  BY <1>9, <1>10, <1>11, <1>12 DEF IInv

\* The data of a ReadExact that is complete.
Completes(data) ==
  /\ data \in Seq(Cells) /\ Len(data) = (IF pc = "metadata" THEN MetadataLen ELSE 1)
  /\ InPlace(Cat(Handed, Cat(Unread(buf), data)), zstd', input', << >>, Cells, Toks, Content)
  /\ zstd' = NoZstd => zstd = NoZstd /\ SingleBytes(input')

\* The prefix behind a compressed magic.
LEMMA MagicStep ==
  ASSUME IInv, pc = "magic", UNCHANGED <<source, policy, capacity>>, NEW data, Completes(data), HeaderRead(data)
  PROVE  IInv'
<1>1. /\ metadata = 0 /\ zstd # NoZstd /\ buf.rd = buf.wr /\ buf.wr = 1 /\ delivered = << >>
      /\ BufferOf(buf, Cells) /\ buf.cap >= SmallestSize /\ got = << >>
  BY DEF IInv, StageInv, BufferInv, VersionInv, Before
<1>2. /\ buf' = Fill(buf, data) /\ got' = << >>
      /\ UNCHANGED <<version, needs_upgrade, metadata, delivered>>
      /\ IF data = <<Magic>> THEN pc' = "idle" /\ UNCHANGED op ELSE Throw
  BY DEF HeaderRead, metaVars
<1>3. data \in Seq(Cells) /\ Len(data) = 1
  BY DEF Completes
<1>4. Len(data) <= WriteCapacity(buf)
  BY <1>1, <1>3, SmallestSizeFacts DEF WriteCapacity, BufferOf
<1>5. BufferOf(buf', Cells) /\ buf'.cap >= SmallestSize /\ Unread(buf') = Unread(buf) \o data
  BY <1>1, <1>2, <1>3, <1>4, FillLemma
<1>6. Unread(buf) = << >>
  BY <1>1, NoneUnread
<1>7. zstd' # NoZstd
  BY <1>1 DEF Completes
<1>8. CASE data = <<Magic>>
  <2>1. pc' = "idle" /\ Unread(buf') = <<Magic>>
    BY <1>2, <1>3, <1>5, <1>6, <1>8
  <2>2. buf'.wr = 2
    BY <1>1, <1>2, <1>3 DEF Fill
  <2>3. BufferInv'
    BY <1>5, <2>1, <2>2 DEF BufferInv
  <2>4. StageInv'
    BY <1>1, <1>2, <1>7, <2>1 DEF IInv, StageInv, Before, During
  <2>5. VersionInv'
    BY <1>2, <2>1, VersionSame DEF IInv
  <2>6. Handed = << >> /\ Handed' = << >>
    BY <1>1, <1>2, <2>1 DEF Handed
  <2>7. Cat(Unread(buf'), got') = Cat(Unread(buf), data)
    <3>1. Unread(buf') = Cat(Unread(buf), data) /\ Unread(buf') \in Seq(Cells)
      BY <1>3, <1>5, <1>6, <2>1, CellFacts DEF Cat
    <3> QED
      BY <1>2, <3>1, CatEmpty
  <2>8. PiecesNext
    BY <2>6, <2>7 DEF PiecesNext, Completes
  <2>9. PiecesInv'
    BY <2>8, PiecesPrime
  <2> QED
    BY <2>3, <2>4, <2>5, <2>9 DEF IInv
<1>9. CASE data # <<Magic>>
  <2>1. Throw /\ got' = got
    BY <1>1, <1>2, <1>9
  <2> QED
    BY <1>2, <1>5, <1>7, <2>1, ThrowStep
<1> QED
  BY <1>8, <1>9

\* DecodeMetadataVersionAndSize throws.
LEMMA UnsizedStep ==
  ASSUME IInv, pc = "prelude", ~source.sized, UNCHANGED <<source, policy, capacity>>, NEW data, Completes(data),
         HeaderRead(data)
  PROVE  IInv'
<1>1. /\ buf' = Fill(buf, data) /\ Throw /\ got' = << >>
      /\ UNCHANGED <<version, needs_upgrade, metadata, delivered>>
  BY DEF HeaderRead, metaVars
<1>2. data \in Seq(Cells) /\ Len(data) = 1 /\ (zstd' = NoZstd => zstd = NoZstd)
  BY DEF Completes
<1>3. BufferOf(buf, Cells) /\ buf.cap >= SmallestSize /\ buf.wr <= 2 /\ buf.wr \in Nat /\ got = << >>
  BY DEF IInv, BufferInv, StageInv, BufferOf
<1>4. Len(data) <= WriteCapacity(buf)
  BY <1>2, <1>3, SmallestSizeFacts DEF WriteCapacity, BufferOf
<1>5. BufferOf(buf', Cells) /\ buf'.cap >= SmallestSize
  BY <1>1, <1>2, <1>3, <1>4, FillLemma
<1> QED
  BY <1>1, <1>2, <1>3, <1>5, ThrowStep

\* Reserve, with nothing in the buffer.
LEMMA ReserveEmpty ==
  ASSUME NEW b, BufferOf(b, Cells), b.rd = b.wr, b.cap >= SmallestSize, SmallestSize \in Nat, NEW n \in Nat
  PROVE  LET r == Reserve(b, n)
         IN  BufferOf(r, Cells) /\ r.cap >= SmallestSize /\ r.rd = r.wr
<1>0. /\ BufferOf(Reserve(b, n), Cells) /\ Reserve(b, n).cap = (IF n <= b.cap THEN b.cap ELSE n)
      /\ b.cap \in Nat
  BY ReserveLemma, Zenon DEF BufferOf
<1>1. BufferOf(Reserve(b, n), Cells) /\ Reserve(b, n).cap >= SmallestSize
  BY <1>0
<1>2. Reserve(b, n).rd = Reserve(b, n).wr
  BY DEF Reserve, ReadCapacity, BufferOf
<1> QED
  BY <1>1, <1>2

\* DecodeMetadataVersionAndSize.
LEMMA PreludeStep ==
  ASSUME IInv, pc = "prelude", source.sized, UNCHANGED <<source, policy, capacity>>, NEW data, Completes(data),
         HeaderRead(data)
  PROVE  IInv'
<1> DEFINE f == Fill(buf, data)
           c == Consume(f, 2)
           u == Unread(f)
<1>1. /\ metadata = 0 /\ Unread(buf) = <<Magic>> /\ buf.wr <= 2 /\ delivered = << >> /\ got = << >>
  BY DEF IInv, StageInv, BufferInv, VersionInv, Before
<1>2. /\ buf' = Reserve(c, MetadataLen) /\ got' = << >> /\ pc' = "metadata"
      /\ version' = source.version /\ needs_upgrade' = NeedsUpgrade(policy, source.version)
      /\ UNCHANGED <<metadata, delivered>>
  BY DEF HeaderRead, ReserveForMetadata
<1>3. data \in Seq(Cells) /\ Len(data) = 1
  BY DEF Completes
<1>4. /\ source \in Sources /\ BufferOf(buf, Cells) /\ buf.cap >= SmallestSize
      /\ Len(Unread(buf)) = buf.wr - buf.rd /\ buf.wr \in Nat /\ buf.rd \in Nat
  BY ReadingFacts
<1>5. buf.wr - buf.rd = 1
  BY <1>1, <1>4
<1>6. Len(data) <= WriteCapacity(buf) /\ MetadataLen \in Nat \ {0} /\ SmallestSize \in Nat
  BY <1>1, <1>3, <1>4, DecoderAssumption, SmallestSizeFacts DEF WriteCapacity, BufferOf
<1>7. BufferOf(f, Cells) /\ f.cap >= SmallestSize /\ u = <<Magic>> \o data
  BY <1>1, <1>3, <1>4, <1>6, FillLemma
<1>8. f.wr = buf.wr + 1 /\ f.rd = buf.rd
  BY <1>3 DEF Fill
<1> HIDE DEF f
<1>9. 2 <= ReadCapacity(f)
  BY <1>4, <1>5, <1>8 DEF ReadCapacity
<1>10. BufferOf(c, Cells) /\ c.cap >= SmallestSize
  BY <1>7, <1>9, ConsumeLemma
<1>11. c.rd = c.wr /\ c.wr = buf.wr + 1
  BY <1>4, <1>5, <1>8 DEF Consume
<1> HIDE DEF c
<1>12. BufferOf(buf', Cells) /\ buf'.cap >= SmallestSize /\ buf'.rd = buf'.wr
  BY <1>2, <1>6, <1>10, <1>11, ReserveEmpty
<1>13. Unread(buf') = << >>
  BY <1>12, NoneUnread
<1>14. BufferInv'
  BY <1>1, <1>2, <1>4, <1>10, <1>11, <1>12 DEF BufferInv
<1>15. StageInv'
  <2>1. Len(got') < MetadataLen /\ got' \in Seq(Cells)
    BY <1>2, <1>6
  <2>2. zstd' = NoZstd => SingleBytes(input')
    BY DEF Completes
  <2> QED
    BY <1>1, <1>2, <2>1, <2>2 DEF StageInv, Before, During
<1>16. VersionInv'
  BY <1>1, <1>2 DEF IInv, VersionInv
<1>17. /\ Magic \in Cells /\ <<Magic>> \in Seq(Cells) /\ u \in Seq(Cells) /\ Len(u) = 2
       /\ u # << >> /\ u[1] = Magic /\ Cat(Unread(buf), data) = u
  <2>1. Magic \in Cells
    BY CellFacts
  <2>2. <<Magic>> \in Seq(Cells) /\ Len(<<Magic>>) = 1 /\ <<Magic>>[1] = Magic
    BY <2>1
  <2>3. /\ u \in Seq(Cells) /\ Len(u) = Len(<<Magic>>) + Len(data)
        /\ \A i \in 1..Len(<<Magic>>) : u[i] = <<Magic>>[i]
    BY <1>3, <1>7, <2>2, ConcatParts
  <2> HIDE DEF u
  <2>4. Len(u) = 2 /\ u[1] = Magic
    BY <1>3, <2>2, <2>3
  <2>5. u # << >>
    BY <2>4
  <2>6. Cat(Unread(buf), data) = u
    BY <1>1, <1>7 DEF Cat
  <2> QED
    BY <2>1, <2>2, <2>3, <2>4, <2>5, <2>6
<1> HIDE DEF u
<1>18. Handed = << >> /\ Handed' = SubSeq(Header, 1, 2)
  BY <1>1, <1>2 DEF Handed
<1>19. InPlace(u, zstd', input', << >>, Cells, Toks, Content)
  <2>1. Cat(Handed, Cat(Unread(buf), data)) = u
    BY <1>17, <1>18, CatEmpty
  <2> QED
    BY <2>1 DEF Completes
<1>20. u = SubSeq(Header, 1, 2)
  <2>1. PICK v \in Seq(Cells) : Content = Cat(u, v)
    BY <1>19, CellFacts, ReaderFirst
  <2>2. Len(u) <= HeaderLen
    BY <1>6, <1>17 DEF HeaderLen
  <2> QED
    BY <1>4, <1>17, <2>1, <2>2, HeaderPieces
<1>21. Cat(Handed', Cat(Unread(buf'), got')) = u
  <2>1. << >> \in Seq(Cells) /\ Cat(<< >>, << >>) = << >>
    BY DEF Cat
  <2>2. Cat(u, << >>) = u
    BY <1>17, CatEmpty
  <2> QED
    BY <1>2, <1>13, <1>18, <1>20, <2>1, <2>2
<1>22. PiecesInv'
  BY <1>19, <1>21, PiecesPrime DEF PiecesNext
<1> QED
  BY <1>14, <1>15, <1>16, <1>22 DEF IInv

\* Metadata written past the end of the buffer.
LEMMA OverrunStep ==
  ASSUME IInv, pc = "metadata", WriteCapacity(buf) < MetadataLen, UNCHANGED <<source, policy, capacity>>,
         NEW data, Completes(data), HeaderRead(data)
  PROVE  IInv'
<1>1. BufferOf(buf, Cells) /\ WriteCapacity(buf) \in Int /\ MetadataLen \in Nat
  BY DecoderAssumption DEF IInv, BufferInv, BufferOf, WriteCapacity
<1>2. ~(WriteCapacity(buf) >= MetadataLen)
  BY <1>1
<1>3. /\ Throw /\ UNCHANGED <<buf, version, needs_upgrade, metadata, delivered>> /\ got' = << >>
  BY <1>2 DEF HeaderRead, metaVars
<1>4. pc' = "failed"
  BY <1>3 DEF Throw
<1>5. BufferInv'
  BY <1>3, <1>4 DEF IInv, BufferInv
<1>6. StageInv'
  BY <1>3, <1>4 DEF StageInv, Before, During
<1>7. VersionInv'
  BY <1>3, <1>4, VersionSame DEF IInv
<1>8. PiecesInv'
  BY <1>4, PiecesPrime
<1> QED
  BY <1>5, <1>6, <1>7, <1>8 DEF IInv

\* DecodeMetadataFields.
LEMMA MetadataStep ==
  ASSUME IInv, pc = "metadata", WriteCapacity(buf) >= MetadataLen, UNCHANGED <<source, policy, capacity>>,
         NEW data, Completes(data), HeaderRead(data)
  PROVE  IInv'
<1> DEFINE f == Fill(buf, data)
           c == Consume(f, MetadataLen)
           s == Shift(c)
           h == SubSeq(Header, 1, 2)
           u == Cat(h, data)
<1>1. /\ metadata = 0 /\ buf.rd = buf.wr /\ delivered = << >>
      /\ version = source.version /\ needs_upgrade = NeedsUpgrade(policy, version)
      /\ policy \in Policies
  BY DEF IInv, StageInv, BufferInv, VersionInv, Before
<1>2. data \in Seq(Cells) /\ Len(data) = MetadataLen
  BY DEF Completes
<1>3. /\ source \in Sources /\ BufferOf(buf, Cells) /\ buf.cap >= SmallestSize
      /\ buf.wr \in Nat /\ buf.rd \in Nat
  BY ReadingFacts
<1>4. MetadataLen \in Nat \ {0} /\ SmallestSize \in Nat
  BY DecoderAssumption, SmallestSizeFacts
<1>5. Len(data) <= WriteCapacity(buf)
  BY <1>2, <1>3, <1>4 DEF WriteCapacity, BufferOf
<1>6. BufferOf(f, Cells) /\ f.cap >= SmallestSize
  BY <1>2, <1>3, <1>5, FillLemma
<1>7. BufferOf(c, Cells) /\ c.cap >= SmallestSize /\ Unread(c) = << >>
  BY <1>1, <1>2, <1>3, <1>5, FillConsume
<1> HIDE DEF f, c
<1>8. BufferOf(s, Cells) /\ s.cap >= SmallestSize /\ Unread(s) = << >>
  BY <1>7, ShiftLemma
<1> HIDE DEF s
<1>9. Unread(buf) = << >> /\ ~(WriteCapacity(buf) < MetadataLen)
  <2>1. ~(WriteCapacity(buf) < MetadataLen)
    BY <1>3, <1>4 DEF WriteCapacity, BufferOf
  <2> QED
    BY <1>1, <1>3, <2>1, NoneUnread
<1>10. CASE DecodeMetadataFieldsThrows
  <2>1. buf' = f /\ Throw /\ UNCHANGED <<version, needs_upgrade, metadata, delivered>> /\ got' = << >>
    BY <1>9, <1>10 DEF HeaderRead, metaVars, f
  <2>2. pc' = "failed"
    BY <2>1 DEF Throw
  <2>3. BufferInv'
    BY <1>6, <2>1, <2>2 DEF BufferInv
  <2>4. StageInv'
    BY <2>1, <2>2 DEF StageInv, Before, During
  <2>5. VersionInv'
    BY <2>1, <2>2, VersionSame DEF IInv
  <2>6. PiecesInv'
    BY <2>2, PiecesPrime
  <2> QED
    BY <2>3, <2>4, <2>5, <2>6 DEF IInv
<1>11. CASE ~DecodeMetadataFieldsThrows
  <2>1. /\ buf' = s /\ metadata' = MetadataUpgrade(version, policy) /\ got' = << >>
        /\ pc' \in {"idle", "record"}
        /\ UNCHANGED <<version, needs_upgrade, delivered>>
    BY <1>9, <1>11 DEF HeaderRead, s, c, f
  <2>2. version \in 1..kDbnVersion
    <3>1. version \in Nat \ {0}
      BY <1>1, <1>3, SourceFacts
    <3> QED
      BY <1>11, <3>1 DEF DecodeMetadataFieldsThrows, kDbnVersion
  <2>3. metadata' \in Nat /\ metadata' # 0 /\ version <= kDbnVersion
    BY <1>1, <2>1, <2>2, LayoutsAgree DEF kDbnVersion
  <2>4. BufferInv'
    BY <1>8, <2>1, <2>3 DEF BufferInv
  <2>5. StageInv'
    <3>1. zstd' = NoZstd => SingleBytes(input')
      BY DEF Completes
    <3> QED
      BY <2>1, <2>3, <3>1 DEF StageInv, Before, During
  <2>6. VersionInv'
    BY <1>1, <2>1, <2>3 DEF IInv, VersionInv
  <2>7. Handed = h /\ h \in Seq(Cells) /\ Len(h) = 2 /\ h[1] = Magic
    <3>1. Header \in Seq(Cells) /\ Len(Header) = HeaderLen /\ Header[1] = Magic
      BY PartsFacts
    <3>2. 2 \in 0..Len(Header)
      BY <1>4, <3>1 DEF HeaderLen
    <3>3. h \in Seq(Cells) /\ Len(h) = 2 /\ \A i \in 1..2 : h[i] = Header[i]
      BY <3>1, <3>2, TakeDrop
    <3>4. Handed = h
      BY <1>1 DEF Handed
    <3> QED
      BY <3>1, <3>3, <3>4
  <2> HIDE DEF h
  <2>8. /\ u \in Seq(Cells) /\ Len(u) = HeaderLen /\ u # << >> /\ u[1] = Magic
    <3>1. /\ u \in Seq(Cells) /\ Len(u) = Len(h) + Len(data)
          /\ \A i \in 1..Len(h) : u[i] = h[i]
      BY <1>2, <2>7, ConcatParts, ZenonT(60) DEF Cat
    <3> HIDE DEF u
    <3>2. Len(u) = HeaderLen /\ u[1] = Magic
      BY <1>2, <1>4, <2>7, <3>1 DEF HeaderLen
    <3>3. u # << >>
      BY <1>4, <3>2 DEF HeaderLen
    <3> QED
      BY <3>1, <3>2, <3>3
  <2>9. InPlace(u, zstd', input', << >>, Cells, Toks, Content)
    <3>1. Cat(Unread(buf), data) = data
      BY <1>2, <1>9, CatEmpty
    <3> QED
      BY <2>7, <3>1 DEF Completes
  <2> HIDE DEF u
  <2>10. u = Header
    <3>1. PICK v \in Seq(Cells) : Content = Cat(u, v)
      BY <2>9, CellFacts, ReaderFirst
    <3>2. Len(u) <= HeaderLen
      BY <1>4, <2>8 DEF HeaderLen
    <3>3. u = SubSeq(Header, 1, Len(u))
      BY <1>3, <2>8, <3>1, <3>2, HeaderPieces
    <3>4. Header \in Seq(Cells) /\ Len(Header) = HeaderLen
      BY PartsFacts
    <3>5. SubSeq(Header, 1, Len(Header)) = Header
      BY <3>4
    <3> QED
      BY <2>8, <3>3, <3>4, <3>5
  <2>11. Handed' = Header
    <3> DEFINE e == << >>
    <3>1. e \in Seq(Deliveries) /\ Len(e) = 0 /\ \A i \in 1..Len(e) : e[i].rec = i
      OBVIOUS
    <3>2. delivered' = e
      BY <1>1, <2>1
    <3> HIDE DEF e
    <3>3. Len(e) <= Len(Records) /\ Len(e) \in 0..Len(Records)
      BY <3>1, DecoderAssumption
    <3>4. Header \o FlattenSeq([i \in 1..Len(e) |-> PiecesOf(e[i].rec)]) = FrontOf(Len(e))
      BY <3>1, <3>3, RecordsFront
    <3>5. FrontOf(Len(e)) = Header
      BY <3>1, <3>3, FrontFacts
    <3> QED
      BY <2>3, <3>2, <3>4, <3>5 DEF Handed
  <2>12. Cat(Handed', Cat(Unread(buf'), got')) = u
    <3>1. Cat(<< >>, << >>) = << >>
      BY DEF Cat
    <3>2. Cat(u, << >>) = u
      BY <2>8, CatEmpty
    <3> QED
      BY <1>8, <2>1, <2>10, <2>11, <3>1, <3>2
  <2>13. PiecesInv'
    BY <2>9, <2>12, PiecesPrime DEF PiecesNext
  <2> QED
    BY <2>4, <2>5, <2>6, <2>13 DEF IInv
<1> QED
  BY <1>10, <1>11

\* DecodeRecord hands over the record at the front of the buffer.
LEMMA DecodeRecordStep ==
  ASSUME IInv, DecodeRecord
  PROVE  IInv'
<1> DEFINE n == Len(delivered)
           u == Unread(buf)
           l == RecordLen(buf)
           x == SubSeq(u, 1, l)
           y == SubSeq(u, l + 1, Len(u))
           d == delivered'
<1>1. /\ pc = "record" /\ HasRecord(buf) /\ buf' = Consume(buf, l)
      /\ pc' \in {"callback", "idle"}
      /\ UNCHANGED <<source, policy, capacity, input, zstd, got, version, needs_upgrade, metadata>>
  BY DEF DecodeRecord, constVars, readVars, metaVars
<1>2. metadata # 0 /\ got = << >>
  BY <1>1 DEF IInv, StageInv, During
<1>3. /\ source \in Sources /\ BufferOf(buf, Cells) /\ buf.cap >= SmallestSize
      /\ u \in Seq(Cells) /\ Len(u) = buf.wr - buf.rd /\ Handed \in Seq(Cells)
      /\ InPlace(Cat(Handed, Cat(u, got)), zstd, input, << >>, Cells, Toks, Content)
  BY <1>1, ReadingFacts
<1>4. Handed = FrontOf(n) /\ n \in 0..Len(Records)
  BY <1>2, HandedFront DEF IInv
<1>5. Len(u) > 0 /\ Len(u) >= l /\ Len(u) \in Nat /\ buf.mem[buf.rd] = u[1]
  <2>1. ReadCapacity(buf) > 0 /\ ReadCapacity(buf) >= l /\ ReadCapacity(buf) = Len(u)
    BY <1>1, <1>3 DEF HasRecord, ReadCapacity
  <2>2. 1 \in 1..(buf.wr - buf.rd) /\ buf.rd + 1 - 1 = buf.rd /\ Len(u) \in Nat
    BY <1>3, <2>1 DEF BufferOf
  <2>3. u[1] = buf.mem[buf.rd + 1 - 1]
    BY <1>3, <2>2, UnreadSeq
  <2> QED
    BY <2>1, <2>2, <2>3
<1> HIDE DEF u
<1>6. PICK v \in Seq(Cells) : Content = Cat(Handed, Cat(u, v))
  <2>1. Cat(u, got) = u
    BY <1>2, <1>3, CatEmpty
  <2>2. InPlace(Cat(Handed, u), zstd, input, << >>, Cells, Toks, Content)
    BY <1>3, <2>1
  <2>3. PICK v \in Seq(Cells) : Content = Cat(Cat(Handed, u), v)
    BY <2>2, CellFacts, ReaderFirst
  <2>4. Cat(Handed, Cat(u, v)) = Cat(Cat(Handed, u), v)
    BY <1>3, CatFacts
  <2> QED
    BY <2>3, <2>4
<1>7. /\ n < Len(Records) /\ u[1] = [rec |-> n + 1, off |-> 1]
      /\ Records[n + 1].len <= Len(u) => SubSeq(u, 1, Records[n + 1].len) = PiecesOf(n + 1)
  <2>1. u # << >>
    BY <1>5
  <2>2. Content = Cat(FrontOf(n), Cat(u, v))
    BY <1>4, <1>6
  <2> QED
    BY <1>3, <1>4, <2>1, <2>2, RecordPieces
<1>8. buf.mem[buf.rd].rec = n + 1
  BY <1>5, <1>7
<1>9. l = Records[n + 1].len /\ x = PiecesOf(n + 1) /\ l \in 0..Len(u)
  <2>1. l = Records[n + 1].len
    BY <1>8 DEF RecordLen
  <2>2. n + 1 \in 1..Len(Records)
    BY <1>4, <1>7, DecoderAssumption
  <2>3. Records[n + 1].len \in Nat
    BY <2>2, PartsFacts
  <2> QED
    BY <1>5, <1>7, <2>1, <2>3
<1>10. BufferOf(buf', Cells) /\ buf'.cap >= SmallestSize /\ Unread(buf') = y
  <2>1. l \in Nat /\ l <= ReadCapacity(buf)
    BY <1>1, <1>5, <1>9 DEF HasRecord
  <2> QED
    BY <1>1, <1>3, <2>1, ConsumeLemma DEF u
<1> HIDE DEF l
<1>11. LET r == [rec |-> n + 1, layout |-> Layout(Records[n + 1].rtype, metadata)]
       IN  d = Append(delivered, r) /\ r \in Deliveries
  <2>1. /\ version = source.version /\ needs_upgrade = NeedsUpgrade(policy, version)
        /\ metadata = MetadataUpgrade(version, policy) /\ version <= kDbnVersion /\ policy \in Policies
    BY <1>2 DEF IInv, VersionInv
  <2>2. version \in 1..kDbnVersion
    <3>1. version \in Nat \ {0}
      BY <1>3, <2>1, SourceFacts
    <3> QED
      BY <2>1, <3>1 DEF kDbnVersion
  <2> DEFINE rtype == Records[n + 1].rtype
  <2>3. /\ (IF needs_upgrade THEN DecodeRecordCompat(version, policy, rtype) ELSE Layout(rtype, version))
             = Layout(rtype, metadata)
        /\ Layout(rtype, metadata) \in Nat
    BY <2>1, <2>2, LayoutsAgree
  <2>4. d = Append(delivered,
              [rec |-> n + 1,
               layout |-> IF needs_upgrade THEN DecodeRecordCompat(version, policy, rtype)
                                           ELSE Layout(rtype, version)])
    BY <1>8 DEF DecodeRecord
  <2>5. n + 1 \in Nat
    BY <1>4
  <2> HIDE DEF rtype
  <2>6. [rec |-> n + 1, layout |-> Layout(rtype, metadata)] \in Deliveries
    BY <2>3, <2>5 DEF Deliveries
  <2> QED
    BY <2>3, <2>4, <2>6 DEF rtype
<1>12. delivered \in Seq(Deliveries)
       /\ \A i \in 1..n : delivered[i] = [rec |-> i, layout |-> Layout(Records[i].rtype, metadata)]
  BY DEF IInv, VersionInv, Deliveries
<1>13. /\ d \in Seq(Deliveries) /\ Len(d) = n + 1
       /\ \A i \in 1..Len(d) : d[i] = [rec |-> i, layout |-> Layout(Records[i].rtype, metadata)]
  <2> DEFINE r == [rec |-> n + 1, layout |-> Layout(Records[n + 1].rtype, metadata)]
  <2>1. d = Append(delivered, r) /\ r \in Deliveries
    BY <1>11
  <2>2. d \in Seq(Deliveries) /\ Len(d) = n + 1 /\ d[n + 1] = r /\ \A i \in 1..n : d[i] = delivered[i]
    <3> HIDE DEF r
    <3> QED
      BY <1>12, <2>1, AppendProperties
  <2>3. ASSUME NEW i \in 1..Len(d)
        PROVE  d[i] = [rec |-> i, layout |-> Layout(Records[i].rtype, metadata)]
    <3>1. i \in 1..n \/ i = n + 1
      BY <1>4, <2>2
    <3> QED
      BY <1>12, <2>2, <3>1
  <2> QED
    BY <2>2, <2>3
<1>14. Handed' = Cat(Handed, x)
  <2>1. Len(d) <= Len(Records)
    BY <1>4, <1>7, <1>13, DecoderAssumption
  <2>2. ASSUME NEW i \in 1..Len(d) PROVE d[i].rec = i
    <3>1. d[i] = [rec |-> i, layout |-> Layout(Records[i].rtype, metadata)]
      BY <1>13
    <3> QED
      BY <3>1
  <2>3. Header \o FlattenSeq([i \in 1..Len(d) |-> PiecesOf(d[i].rec)]) = FrontOf(Len(d))
    BY <1>13, <2>1, <2>2, RecordsFront
  <2>4. Handed' = FrontOf(n + 1)
    BY <1>1, <1>2, <1>13, <2>3 DEF Handed
  <2>5. FrontOf(n + 1) = Cat(FrontOf(n), PiecesOf(n + 1))
    BY <1>4, <1>7, FrontFacts
  <2> QED
    BY <1>4, <1>9, <2>4, <2>5
<1>15. PiecesNext
  <2>1. x \in Seq(Cells) /\ y \in Seq(Cells)
    BY <1>3, <1>9, TakeDrop
  <2>2. Cat(x, y) = u
    BY <1>3, <1>9, Rejoined DEF Cat
  <2> HIDE DEF x, y
  <2>3. Cat(Cat(Handed, x), y) = Cat(Handed, u)
    BY <1>3, <2>1, <2>2, CatFacts
  <2>4. Cat(y, got) = y /\ Cat(u, got) = u
    BY <1>2, <1>3, <2>1, CatEmpty
  <2> QED
    BY <1>1, <1>3, <1>10, <1>14, <2>3, <2>4 DEF PiecesNext
<1>16. BufferInv'
  BY <1>1, <1>2, <1>10 DEF BufferInv
<1>17. StageInv'
  BY <1>1, <1>2 DEF IInv, StageInv, Before, During
<1>18. VersionInv'
  <2>1. Len(d) <= Len(Records)
    BY <1>4, <1>7, <1>13, DecoderAssumption
  <2> HIDE DEF d
  <2>2. /\ source \in Sources /\ policy \in Policies /\ capacity \in BufferSizes /\ version = source.version
        /\ needs_upgrade = NeedsUpgrade(policy, version)
        /\ metadata = MetadataUpgrade(version, policy) /\ version <= kDbnVersion
    BY <1>2 DEF IInv, VersionInv
  <2> QED
    BY <1>1, <1>2, <1>13, <2>1, <2>2 DEF VersionInv, Deliveries, d
<1>19. PiecesInv'
  BY <1>1, <1>15, PiecesPrime
<1> QED
  BY <1>16, <1>17, <1>18, <1>19 DEF IInv

\* What is left of pieces read one by one.
LEMMA SingleRest ==
  ASSUME NEW T, NEW w \in Seq(T), SingleBytes(w), NEW n \in 0..Len(w)
  PROVE  SingleBytes(SubSeq(w, n + 1, Len(w)))
<1> DEFINE r == SubSeq(w, n + 1, Len(w))
<1>1. Len(r) = Len(w) - n /\ \A i \in 1..(Len(w) - n) : r[i] = w[n + i]
  BY TakeDrop
<1>2. Len(w) \in Nat /\ n \in Nat
  OBVIOUS
<1> HIDE DEF r
<1>3. ASSUME NEW i \in 1..Len(r) PROVE Len(r[i].out) = 1
  <2>1. n + i \in 1..Len(w) /\ r[i] = w[n + i]
    BY <1>1, <1>2
  <2> QED
    BY <2>1 DEF SingleBytes
<1> QED
  BY <1>3 DEF SingleBytes, r

\* DetectCompression.
LEMMA DetectStep ==
  ASSUME IInv, Detect
  PROVE  IInv'
<1> DEFINE e == << >>
<1>1. /\ pc = "detect" /\ input' = SubSeq(input, 2, Len(input)) /\ input = source.tokens /\ zstd = NoZstd
      /\ metadata = 0 /\ got = e /\ delivered = e /\ buf.rd = 0 /\ buf.wr = 0
      /\ UNCHANGED <<source, policy, capacity, got, version, needs_upgrade, metadata, delivered>>
  BY DEF Detect, IInv, BufferInv, StageInv, VersionInv, Before, constVars, metaVars
<1>2. /\ source \in Sources /\ BufferOf(buf, Cells) /\ buf.cap >= SmallestSize
      /\ InPlace(Cat(Handed, Cat(Unread(buf), got)), zstd, input, << >>, Cells, Toks, Content)
  BY <1>1, ReadingFacts
<1>3. zstd.held = e /\ zstd.unread = e
  BY <1>1 DEF NoZstd
<1>4. Handed = e /\ Unread(buf) = e /\ input \in Seq(Toks)
  <2>1. Unread(buf) = e
    BY <1>1, <1>2, NoneUnread
  <2>2. input \in Seq(Toks)
    BY <1>2 DEF InPlace
  <2> QED
    BY <1>1, <2>1, <2>2 DEF Handed
<1>5. Cat(e, Cat(e, e)) = e /\ Cat(e, e) = e
  BY DEF Cat
<1>6. InPlace(e, zstd, input, e, Cells, Toks, Content)
  BY <1>1, <1>2, <1>4, <1>5
<1>7. WriteCapacity(buf) >= 1
  BY <1>1, <1>2, SmallestSizeFacts DEF WriteCapacity, BufferOf
<1>8. CASE IsDbn /\ buf' = Fill(buf, input[1].out) /\ pc' = "idle" /\ UNCHANGED <<op, zstd>>
  <2> DEFINE data == FirstBytes(input, 1)
             m == <<Magic>>
  <2>1. input # << >> /\ input[1].kind = "plain" /\ input[1].out = m
    BY <1>8 DEF IsDbn
  <2>2. SingleBytes(input)
    <3>1. SourceOk(source)
      BY <1>2, SourceFacts
    <3> QED
      BY <1>1, <2>1, <3>1 DEF SourceOk, SingleBytes
  <2>3. 1 \in 0..Len(input)
    BY <1>4, <2>1, EmptySeq
  <2>4. data = m
    BY <2>1 DEF FirstBytes
  <2>5. InPlace(Cat(e, data), zstd, SubSeq(input, 1 + 1, Len(input)), e, Cells, Toks, Content)
    BY <1>3, <1>6, <2>2, <2>3, CellFacts, InPlacePlain
  <2>6. SingleBytes(SubSeq(input, 1 + 1, Len(input)))
    BY <1>4, <2>2, <2>3, SingleRest
  <2>7. m \in Seq(Cells) /\ Len(m) = 1
    BY CellFacts
  <2> HIDE DEF data, m
  <2>8. input' = SubSeq(input, 1 + 1, Len(input))
    BY <1>1
  <2>9. /\ BufferOf(buf', Cells) /\ buf'.cap >= SmallestSize /\ Unread(buf') = Cat(e, m)
        /\ buf'.wr = 1
    <3>1. Len(m) <= WriteCapacity(buf)
      BY <1>7, <2>7
    <3>2. buf' = Fill(buf, m)
      BY <1>8, <2>1
    <3>3. buf'.wr = 1
      BY <1>1, <2>7, <3>2 DEF Fill
    <3>4. Unread(buf) \o m = Cat(e, m)
      BY <1>4 DEF Cat
    <3> QED
      BY <1>2, <2>7, <3>1, <3>2, <3>3, <3>4, FillLemma
  <2>10. Cat(e, m) = m /\ Cat(m, e) = m
    BY <2>7, CatEmpty
  <2>11. BufferInv'
    BY <1>8, <2>9, <2>10 DEF BufferInv, m
  <2>12. StageInv'
    <3>1. SingleBytes(input')
      BY <2>6, <2>8
    <3> QED
      BY <1>1, <1>8, <3>1 DEF IInv, StageInv, Before, During
  <2>13. VersionInv'
    BY <1>1, <1>8, VersionSame DEF IInv
  <2>14. Handed' = e
    BY <1>1, <1>8 DEF Handed
  <2>15. Cat(Handed', Cat(Unread(buf'), got')) = Cat(e, data)
    BY <1>1, <2>4, <2>9, <2>10, <2>14
  <2>16. PiecesNext
    BY <1>8, <2>5, <2>8, <2>15 DEF PiecesNext
  <2>17. PiecesInv'
    BY <1>1, <2>16, PiecesPrime
  <2> QED
    BY <2>11, <2>12, <2>13, <2>17 DEF IInv
<1>9. CASE IsZstd /\ zstd' = NewZstd(<<input[1]>>) /\ buf' = Consume(Fill(buf, <<Uninit>>), 1) /\ pc' = "magic"
  <2> DEFINE m == <<Uninit>>
  <2>1. InPlace(e, zstd', input', e, Cells, Toks, Content)
    BY <1>1, <1>3, <1>6, <1>9, CellFacts, InPlaceDetected DEF IsZstd
  <2>2. m \in Seq(Cells) /\ Len(m) = 1
    BY CellFacts
  <2>3. /\ BufferOf(buf', Cells) /\ buf'.cap >= SmallestSize /\ Unread(buf') = e
        /\ buf'.rd = buf'.wr /\ buf'.wr = 1
    <3>1. buf' = Consume(Fill(buf, m), Len(m))
      BY <1>9, <2>2
    <3> HIDE DEF m
    <3>2. Len(m) <= WriteCapacity(buf) /\ buf.rd = buf.wr
      BY <1>1, <1>7, <2>2
    <3>3. /\ BufferOf(buf', Cells) /\ buf'.cap = buf.cap /\ buf'.rd = buf'.wr
          /\ buf'.wr = buf.wr + Len(m) /\ Unread(buf') = << >>
      BY <1>2, <2>2, <3>1, <3>2, FillConsume
    <3> QED
      BY <1>1, <1>2, <2>2, <3>3
  <2>4. zstd' # NoZstd
    <3>1. zstd'.suggestion = 1 /\ NoZstd.suggestion = -1
      BY <1>9 DEF NewZstd, NoZstd
    <3> QED
      BY <3>1
  <2>5. BufferInv'
    BY <1>9, <2>3 DEF BufferInv
  <2>6. StageInv'
    BY <1>1, <1>9, <2>4 DEF IInv, StageInv, Before, During
  <2>7. VersionInv'
    BY <1>1, <1>9, VersionSame DEF IInv
  <2>8. Handed' = e
    BY <1>1, <1>9 DEF Handed
  <2>9. Cat(Handed', Cat(Unread(buf'), got')) = e
    BY <1>1, <1>5, <2>3, <2>8
  <2>10. PiecesInv'
    BY <1>1, <2>1, <2>9, PiecesPrime DEF PiecesNext
  <2> QED
    BY <2>5, <2>6, <2>7, <2>10 DEF IInv
<1>10. CASE Throw /\ UNCHANGED <<buf, zstd>>
  BY <1>1, <1>2, <1>10, ThrowStep
<1> QED
  BY <1>8, <1>9, <1>10 DEF Detect

\* A ReadExact of the header is complete.
LEMMA HeaderStep ==
  ASSUME IInv, pc \in Exact, UNCHANGED <<source, policy, capacity>>, NEW data, Completes(data), HeaderRead(data)
  PROVE  IInv'
<1>1. WriteCapacity(buf) < MetadataLen \/ WriteCapacity(buf) >= MetadataLen
  BY DecoderAssumption DEF IInv, BufferInv, BufferOf, WriteCapacity
<1> QED
  BY <1>1, MagicStep, UnsizedStep, PreludeStep, OverrunStep, MetadataStep DEF Exact

\* A read of an uncompressed input is of its next pieces.
LEMMA PlainRead ==
  ASSUME IInv, zstd = NoZstd, pc \notin {"detect", "failed"}, NEW n \in 0..Len(input)
  PROVE  LET rest == SubSeq(input, n + 1, Len(input))
         IN  /\ Plain(n) \in Seq(Cells) /\ Len(Plain(n)) = n /\ got = << >> /\ SingleBytes(rest)
             /\ InPlace(Cat(Handed, Cat(Unread(buf), Plain(n))), zstd, rest, << >>, Cells, Toks, Content)
<1> DEFINE rest == SubSeq(input, n + 1, Len(input))
           data == FirstBytes(input, n)
           x == Cat(Handed, Cat(Unread(buf), got))
<1>1. /\ Unread(buf) \in Seq(Cells) /\ Handed \in Seq(Cells)
      /\ InPlace(x, zstd, input, << >>, Cells, Toks, Content)
  BY ReadingFacts
<1>2. got = << >> /\ SingleBytes(input)
  BY DEF IInv, StageInv
<1>3. zstd.held = << >> /\ zstd.unread = << >>
  BY DEF NoZstd
<1>4. input \in Seq(Toks)
  BY <1>1 DEF InPlace
<1>5. Plain(n) = data
  BY DEF Plain, FirstBytes
<1>6. x = Cat(Handed, Unread(buf))
  BY <1>1, <1>2, CatEmpty
<1>7. SingleBytes(rest)
  BY <1>2, <1>4, SingleRest
<1> HIDE DEF x, rest, data
<1>8. /\ InPlace(Cat(x, data), zstd, rest, << >>, Cells, Toks, Content)
      /\ data \in Seq(Cells) /\ Len(data) = n
  <2>1. InPlace(x, zstd, input, << >>, Cells, Toks, Content) /\ SingleBytes(input)
    BY <1>1, <1>2
  <2>2. Toks \in SUBSET TokensOf(Cells)
    BY CellFacts
  <2> QED
    BY <1>3, <2>1, <2>2, InPlacePlain DEF rest, data
<1>9. Cat(Handed, Cat(Unread(buf), data)) = Cat(Cat(Handed, Unread(buf)), data)
  BY <1>1, <1>8, CatFacts
<1>10. InPlace(Cat(Handed, Cat(Unread(buf), Plain(n))), zstd, rest, << >>, Cells, Toks, Content)
  BY <1>5, <1>6, <1>8, <1>9
<1>11. Plain(n) \in Seq(Cells) /\ Len(Plain(n)) = n
  BY <1>5, <1>8
<1> QED
  BY <1>2, <1>7, <1>10, <1>11 DEF rest

\* ReadExact of an uncompressed input.
LEMMA ReadExactPlainStep ==
  ASSUME IInv, ReadExactPlain
  PROVE  IInv'
<1> DEFINE n == Wanted
<1>1. zstd = NoZstd /\ pc \in Exact /\ UNCHANGED <<source, policy, capacity, zstd>> /\ pc \notin {"detect", "failed"}
  BY DEF ReadExactPlain, Exact, constVars
<1>2. got = << >> /\ input \in Seq(Toks) /\ BufferOf(buf, Cells) /\ buf.cap >= SmallestSize
  <2>1. InPlace(Cat(Handed, Cat(Unread(buf), got)), zstd, input, << >>, Cells, Toks, Content)
    BY <1>1, ReadingFacts
  <2> QED
    BY <1>1, <2>1 DEF IInv, StageInv, BufferInv, InPlace
<1>3. n = (IF pc = "metadata" THEN MetadataLen ELSE 1) /\ n \in Nat /\ Len(input) \in Nat
  <2>1. Len(got) = 0 /\ MetadataLen \in Nat
    BY <1>2, DecoderAssumption
  <2>2. Len(input) \in Nat
    BY <1>2
  <2> QED
    BY <2>1, <2>2 DEF Wanted
<1> HIDE DEF n
<1>4. CASE Len(input) >= n /\ HeaderRead(Plain(n)) /\ input' = SubSeq(input, n + 1, Len(input))
  <2>1. n \in 0..Len(input)
    BY <1>3, <1>4
  <2>2. Completes(Plain(n))
    BY <1>1, <1>3, <1>4, <2>1, PlainRead DEF Completes
  <2> QED
    BY <1>1, <1>4, <2>2, HeaderStep
<1>5. CASE Throw /\ UNCHANGED <<buf, got, metaVars, delivered>>
  BY <1>1, <1>2, <1>5, ThrowStep DEF metaVars
<1> QED
  BY <1>4, <1>5 DEF ReadExactPlain, n

\* FillBuffer of an uncompressed input.
LEMMA ReadSomePlainStep ==
  ASSUME IInv, NEW n \in 0..Len(input), ReadSomePlain(n)
  PROVE  IInv'
<1>1. /\ zstd = NoZstd /\ pc = "record" /\ n <= Len(input) /\ n <= WriteCapacity(Shifted)
      /\ Filled(Plain(n)) /\ input' = SubSeq(input, n + 1, Len(input))
      /\ UNCHANGED <<source, policy, capacity, zstd>>
  BY DEF ReadSomePlain, NeedsData, constVars
<1>2. input \in Seq(Toks)
  <2>1. InPlace(Cat(Handed, Cat(Unread(buf), got)), zstd, input, << >>, Cells, Toks, Content)
    BY <1>1, ReadingFacts
  <2> QED
    BY <2>1 DEF InPlace
<1>3. n \in 0..Len(input)
  BY <1>1, <1>2, DecoderAssumption
<1>4. /\ Plain(n) \in Seq(Cells) /\ Len(Plain(n)) = n /\ SingleBytes(input')
      /\ InPlace(Cat(Handed, Cat(Unread(buf), Plain(n))), zstd', input', << >>, Cells, Toks, Content)
  BY <1>1, <1>3, PlainRead
<1>5. Len(Plain(n)) <= WriteCapacity(Shifted)
  BY <1>1, <1>4
<1> QED
  BY <1>1, <1>4, <1>5, FilledStep

\* A partial read of the header leaves its data behind what the ReadExact has.
LEMMA PartStep ==
  ASSUME IInv, pc \in Exact, zstd # NoZstd, zstd' # NoZstd, NEW data \in Seq(Cells), got' = Cat(got, data),
         Len(data) < Wanted, UNCHANGED <<source, policy, capacity, buf, pc, version, needs_upgrade, metadata, delivered>>,
         InPlace(Cat(Handed, Cat(Unread(buf), got')), zstd', input', << >>, Cells, Toks, Content)
  PROVE  IInv'
<1>1. got \in Seq(Cells) /\ (pc # "metadata" => got = << >>) /\ (pc = "metadata" => Len(got) < MetadataLen)
  BY DEF IInv, StageInv, Exact
<1>2. got' \in Seq(Cells) /\ Len(got') = Len(got) + Len(data) /\ Len(got) \in Nat /\ Len(data) \in Nat
  BY <1>1, ConcatParts DEF Cat
<1>3. pc # "metadata" => got' = << >>
  <2> SUFFICES ASSUME pc # "metadata" PROVE got' = << >>
    OBVIOUS
  <2>1. Len(got) = 0 /\ Wanted = 1
    BY <1>1 DEF Wanted
  <2>2. Len(got') = 0
    BY <1>2, <2>1
  <2> QED
    BY <1>2, <2>2, EmptySeq
<1>4. pc = "metadata" => Len(got') < MetadataLen
  BY <1>1, <1>2, DecoderAssumption DEF Wanted
<1>5. BufferInv'
  BY DEF IInv, BufferInv
<1>6. StageInv'
  BY <1>2, <1>3, <1>4 DEF IInv, StageInv, Exact, Before, During
<1>7. VersionInv'
  BY DEF IInv, VersionInv
<1>8. Handed' = Handed
  BY DEF Handed
<1>9. PiecesInv'
  BY <1>8, PiecesPrime DEF PiecesNext
<1> QED
  BY <1>5, <1>6, <1>7, <1>9 DEF IInv

\* Nothing but the decompressor and the input has changed.
LEMMA AgainStep ==
  ASSUME IInv, pc \in Exact \cup {"record"}, zstd # NoZstd, zstd' # NoZstd,
         UNCHANGED <<source, policy, capacity, buf, pc, got, version, needs_upgrade, metadata, delivered>>,
         InPlace(Cat(Handed, Cat(Unread(buf), got)), zstd', input', << >>, Cells, Toks, Content)
  PROVE  IInv'
<1>1. BufferInv'
  BY DEF IInv, BufferInv
<1>2. StageInv'
  BY DEF IInv, StageInv, Exact, Before, During
<1>3. VersionInv'
  BY DEF IInv, VersionInv
<1>4. Handed' = Handed
  BY DEF Handed
<1>5. PiecesInv'
  BY <1>4, PiecesPrime DEF PiecesNext
<1> QED
  BY <1>1, <1>2, <1>3, <1>5 DEF IInv

\* The token of a read, and the rest of the input.
LEMMA NextTokensFacts ==
  ASSUME input \in Seq(Toks)
  PROVE  /\ NextTokens \in Seq(Toks) /\ SubSeq(input, 2, Len(input)) \in Seq(Toks)
         /\ input = Cat(NextTokens, SubSeq(input, 2, Len(input)))
         /\ NextTokens = << >> => input = << >>
<1> DEFINE new == NextTokens
           rest == SubSeq(input, 2, Len(input))
<1>1. CASE input = << >>
  <2>1. new = << >> /\ rest = << >>
    BY <1>1 DEF NextTokens, Shorter
  <2> QED
    BY <1>1, <2>1 DEF Cat
<1>2. CASE input # << >>
  <2>0. \A k \in Nat : k # 0 => 1 \in 0..k /\ Shorter(1, k) = 1
    BY DEF Shorter
  <2>1. 1 \in 0..Len(input) /\ Shorter(1, Len(input)) = 1
    BY <1>2, <2>0, EmptySeq
  <2>2. SubSeq(input, 1, 1) \in Seq(Toks) /\ SubSeq(input, 1 + 1, Len(input)) \in Seq(Toks)
        /\ SubSeq(input, 1, 1) \o SubSeq(input, 1 + 1, Len(input)) = input
        /\ Len(SubSeq(input, 1, 1)) = 1
    BY <2>1, TakeDrop, Rejoined
  <2>3. new = SubSeq(input, 1, 1) /\ rest = SubSeq(input, 1 + 1, Len(input))
    BY <2>1 DEF NextTokens
  <2> HIDE DEF new, rest
  <2>4. new # << >>
    BY <2>2, <2>3
  <2>5. new \in Seq(Toks) /\ rest \in Seq(Toks) /\ input = Cat(new, rest)
    BY <2>2, <2>3 DEF Cat
  <2> QED
    BY <2>4, <2>5 DEF new, rest
<1> QED
  BY <1>1, <1>2

\* The record at the front of the buffer is the next of the input.
LEMMA FrontRecord ==
  ASSUME IInv, pc # "failed", metadata # 0, Unread(buf) # << >>
  PROVE  LET n == Len(delivered)
         IN  /\ n + 1 \in 1..Len(Records) /\ buf.mem[buf.rd].rec = n + 1
             /\ HasRecord(buf) <=> Records[n + 1].len <= Len(Unread(buf))
             /\ Unread(buf)[1].rec = n + 1
<1> DEFINE n == Len(delivered)
           u == Unread(buf)
<1>1. got = << >>
  BY DEF IInv, StageInv, Before
<1>2. /\ source \in Sources /\ BufferOf(buf, Cells)
      /\ u \in Seq(Cells) /\ Len(u) = buf.wr - buf.rd /\ Handed \in Seq(Cells)
      /\ InPlace(Cat(Handed, Cat(u, got)), zstd, input, << >>, Cells, Toks, Content)
  BY ReadingFacts
<1>3. Handed = FrontOf(n) /\ n \in 0..Len(Records)
  BY HandedFront DEF IInv
<1>4. Len(u) \in Nat /\ Len(u) # 0
  BY <1>2, EmptySeq
<1>5. u[1] = buf.mem[buf.rd]
  <2>1. 1 \in 1..(buf.wr - buf.rd) /\ buf.rd + 1 - 1 = buf.rd
    BY <1>2, <1>4 DEF BufferOf
  <2>2. u[1] = buf.mem[buf.rd + 1 - 1]
    BY <1>2, <2>1, UnreadSeq
  <2> QED
    BY <2>1, <2>2
<1> HIDE DEF u
<1>6. PICK v \in Seq(Cells) : Content = Cat(Handed, Cat(u, v))
  <2>1. Cat(u, got) = u
    BY <1>1, <1>2, CatEmpty
  <2>2. InPlace(Cat(Handed, u), zstd, input, << >>, Cells, Toks, Content)
    BY <1>2, <2>1
  <2>3. PICK v \in Seq(Cells) : Content = Cat(Cat(Handed, u), v)
    BY <2>2, CellFacts, ReaderFirst
  <2>4. Cat(Handed, Cat(u, v)) = Cat(Cat(Handed, u), v)
    BY <1>2, CatFacts
  <2> QED
    BY <2>3, <2>4
<1>7. n + 1 \in 1..Len(Records) /\ u[1] = [rec |-> n + 1, off |-> 1]
  <2>1. Content = Cat(FrontOf(n), Cat(u, v)) /\ u # << >>
    BY <1>3, <1>6 DEF u
  <2> QED
    BY <1>2, <1>3, <2>1, RecordPieces
<1>8. buf.mem[buf.rd].rec = n + 1 /\ u[1].rec = n + 1
  BY <1>5, <1>7
<1>9. Records[n + 1].len \in Nat
  BY <1>7, PartsFacts
<1>10. HasRecord(buf) <=> Records[n + 1].len <= Len(u)
  <2>1. ReadCapacity(buf) = Len(u)
    BY <1>2 DEF ReadCapacity
  <2>2. RecordLen(buf) = Records[n + 1].len
    BY <1>8 DEF RecordLen
  <2> QED
    BY <1>4, <1>9, <2>1, <2>2 DEF HasRecord
<1> QED
  BY <1>7, <1>8, <1>10 DEF u

\* A read has room: the buffer holds less than a record.
LEMMA RoomFacts ==
  ASSUME IInv, pc \in Exact \/ NeedsData
  PROVE  Room \in Nat /\ Room # 0
<1>1. pc # "failed"
  BY DEF Exact, NeedsData
<1>2. /\ BufferOf(buf, Cells) /\ buf.cap >= SmallestSize /\ Unread(buf) \in Seq(Cells)
      /\ Len(Unread(buf)) = buf.wr - buf.rd /\ got \in Seq(Cells)
  BY <1>1, ReadingFacts
<1>3. /\ MaxRecordLen \in Nat \ {0} /\ SmallestSize \in Nat /\ MaxRecordLen <= SmallestSize
      /\ MetadataLen \in Nat
  BY DecoderAssumption, SmallestSizeFacts
<1>4. CASE pc \in Exact
  <2>1. pc = "metadata" => Len(got) < MetadataLen
    BY DEF IInv, StageInv
  <2> QED
    BY <1>2, <1>3, <1>4, <2>1 DEF Room, Wanted
<1>5. CASE NeedsData
  <2>0. pc = "record" /\ ~HasRecord(buf) /\ pc \notin Exact
    BY <1>5 DEF NeedsData, Exact
  <2>1. metadata # 0
    BY <2>0 DEF IInv, StageInv, During
  <2>2. /\ BufferOf(Shifted, Cells)
        /\ MaxRecordLen <= buf.cap - ReadCapacity(buf) => WriteCapacity(Shifted) >= MaxRecordLen
        /\ MaxRecordLen > buf.cap - ReadCapacity(buf) => WriteCapacity(Shifted) = buf.cap - ReadCapacity(buf)
    BY <1>2, <1>3, ShiftForSpaceLemma DEF Shifted
  <2>3. WriteCapacity(Shifted) \in Nat
    BY <2>2 DEF WriteCapacity, BufferOf
  <2>4. ReadCapacity(buf) = Len(Unread(buf)) /\ Len(Unread(buf)) \in Nat
    BY <1>2 DEF ReadCapacity
  <2>5. ReadCapacity(buf) < SmallestSize
    <3>1. CASE Unread(buf) = << >>
      BY <1>3, <2>4, <3>1
    <3>2. CASE Unread(buf) # << >>
      <4> DEFINE n == Len(delivered)
      <4>1. n + 1 \in 1..Len(Records) /\ ~(Records[n + 1].len <= Len(Unread(buf)))
        BY <1>1, <2>0, <2>1, <3>2, FrontRecord
      <4>2. Records[n + 1].len \in Nat /\ Records[n + 1].len <= MaxRecordLen
        BY <4>1, PartsFacts
      <4> HIDE DEF n
      <4> QED
        BY <1>3, <2>4, <4>1, <4>2
    <3> QED
      BY <3>1, <3>2
  <2>6. Room = WriteCapacity(Shifted)
    BY <2>0 DEF Room
  <2> QED
    BY <1>2, <1>3, <2>2, <2>3, <2>4, <2>5, <2>6 DEF BufferOf
<1> QED
  BY <1>4, <1>5

\* A round of ZstdDecodeStream::ReadSome and what its caller does.
LEMMA ReadZstdStep ==
  ASSUME IInv, ReadZstd
  PROVE  IInv'
<1> DEFINE new == NextTokens
           rest == SubSeq(input, 2, Len(input))
           x == Cat(Handed, Cat(Unread(buf), got))
<1>1. /\ zstd # NoZstd /\ pc \in Exact \cup {"record"} /\ pc # "failed" /\ input' = rest
      /\ UNCHANGED <<source, policy, capacity>>
  BY DEF ReadZstd, NeedsData, Exact, constVars
<1>2. PICK r : /\ r = ReadSomeStep(zstd, new, Room) /\ zstd' = r.z
               /\ \/ r.error /\ Throw /\ UNCHANGED <<buf, got, metaVars, delivered, ended>>
                  \/ r.again /\ UNCHANGED <<buf, pc, op, got, metaVars, delivered, ended>>
                  \/ pc = "record" /\ Filled(r.out)
                  \/ /\ pc \in Exact
                     /\ \/ Len(r.out) = Wanted /\ HeaderRead(got \o r.out)
                        \/ /\ Len(r.out) < Wanted /\ got' = got \o r.out
                           /\ UNCHANGED <<buf, pc, op, metaVars, delivered, ended>>
                        \/ Throw /\ UNCHANGED <<buf, got, metaVars, delivered, ended>>
  BY DEF ReadZstd
<1>3. /\ BufferOf(buf, Cells) /\ buf.cap >= SmallestSize /\ Unread(buf) \in Seq(Cells)
      /\ got \in Seq(Cells) /\ Handed \in Seq(Cells)
      /\ InPlace(x, zstd, input, << >>, Cells, Toks, Content)
  BY <1>1, ReadingFacts
<1>z. pc \in Exact \/ NeedsData
  BY DEF ReadZstd
<1>4. input \in Seq(Toks) /\ Len(input) \in Nat
  BY <1>3 DEF InPlace
<1>5. new \in Seq(Toks) /\ rest \in Seq(Toks) /\ input = Cat(new, rest)
  BY <1>4, NextTokensFacts
<1>6. Room \in Nat
  BY <1>1, <1>z, RoomFacts
<1> HIDE DEF new, rest, x
<1>7. /\ InPlace(Cat(x, r.out), zstd', input', << >>, Cells, Toks, Content)
      /\ r.out \in Seq(Cells) /\ Len(r.out) <= Room /\ r.z.suggestion \in {0, 1}
      /\ r.again => r.out = << >>
  <2>1. InPlace(x, zstd, Cat(new, rest), << >>, Cells, Toks, Content)
    BY <1>3, <1>5
  <2> QED
    BY <1>1, <1>2, <1>5, <1>6, <2>1, CellFacts, InPlaceRound
<1>8. zstd' # NoZstd
  <2>1. NoZstd.suggestion = -1
    BY DEF NoZstd
  <2> QED
    BY <1>2, <1>7, <2>1
<1> DEFINE d == Cat(got, r.out)
<1>9. /\ d \in Seq(Cells) /\ Len(d) = Len(got) + Len(r.out)
      /\ Cat(x, r.out) = Cat(Handed, Cat(Unread(buf), d))
  <2>1. d \in Seq(Cells) /\ Len(d) = Len(got) + Len(r.out)
    BY <1>3, <1>7, ConcatParts DEF Cat
  <2>2. Cat(Cat(Handed, Cat(Unread(buf), got)), r.out) = Cat(Handed, Cat(Unread(buf), Cat(got, r.out)))
    BY <1>3, <1>7, CatFour
  <2> QED
    BY <2>1, <2>2 DEF x
<1>10. CASE Throw /\ UNCHANGED <<buf, got, metaVars, delivered, ended>>
  BY <1>1, <1>3, <1>8, <1>10, ThrowStep DEF metaVars
<1>11. CASE r.again /\ UNCHANGED <<buf, pc, op, got, metaVars, delivered, ended>>
  <2>1. d = got
    BY <1>3, <1>7, <1>11, CatEmpty
  <2> HIDE DEF d
  <2>2. InPlace(Cat(Handed, Cat(Unread(buf), got)), zstd', input', << >>, Cells, Toks, Content)
    BY <1>7, <1>9, <2>1
  <2> QED
    BY <1>1, <1>8, <1>11, <2>2, AgainStep DEF metaVars
<1>12. CASE pc = "record" /\ Filled(r.out)
  <2>1. got = << >>
    BY <1>12 DEF IInv, StageInv
  <2>2. d = r.out
    BY <1>7, <2>1, CatEmpty
  <2>3. Len(r.out) <= WriteCapacity(Shifted)
    BY <1>7, <1>12 DEF Room, Exact
  <2> HIDE DEF d
  <2>4. InPlace(Cat(Handed, Cat(Unread(buf), r.out)), zstd', input', << >>, Cells, Toks, Content)
    BY <1>7, <1>9, <2>2
  <2> QED
    BY <1>1, <1>7, <1>8, <1>12, <2>3, <2>4, FilledStep
<1>13. CASE pc \in Exact /\ Len(r.out) = Wanted /\ HeaderRead(got \o r.out)
  <2>1. HeaderRead(d)
    BY <1>13 DEF Cat
  <2>2. Len(d) = (IF pc = "metadata" THEN MetadataLen ELSE 1)
    <3>1. pc # "metadata" => Len(got) = 0
      BY <1>1, <1>13 DEF IInv, StageInv, Exact
    <3>2. MetadataLen \in Nat /\ Len(got) \in Nat
      BY <1>3, DecoderAssumption
    <3> QED
      BY <1>9, <1>13, <3>1, <3>2 DEF Wanted
  <2> HIDE DEF d
  <2>3. InPlace(Cat(Handed, Cat(Unread(buf), d)), zstd', input', << >>, Cells, Toks, Content)
    BY <1>7, <1>9
  <2>4. Completes(d)
    BY <1>8, <1>9, <2>2, <2>3 DEF Completes
  <2> QED
    BY <1>1, <1>13, <2>1, <2>4, HeaderStep
<1>14. CASE /\ pc \in Exact /\ Len(r.out) < Wanted /\ got' = got \o r.out
            /\ UNCHANGED <<buf, pc, op, metaVars, delivered, ended>>
  <2>1. got' = d
    BY <1>14 DEF Cat
  <2>2. InPlace(Cat(Handed, Cat(Unread(buf), got')), zstd', input', << >>, Cells, Toks, Content)
    <3> HIDE DEF d
    <3> QED
      BY <1>7, <1>9, <2>1
  <2> QED
    BY <1>1, <1>7, <1>8, <1>14, <2>1, <2>2, PartStep DEF metaVars
<1> QED
  BY <1>2, <1>10, <1>11, <1>12, <1>13, <1>14

\* A call begins, or Replay's callback returns: nothing moves.
LEMMA CallStep ==
  ASSUME IInv, UNCHANGED <<source, policy, capacity, input, zstd, buf, got, version, needs_upgrade, metadata, delivered>>,
         \/ pc = "idle" /\ metadata = 0 /\ pc' = "prelude"
         \/ pc = "idle" /\ metadata # 0 /\ pc' = "record"
         \/ pc = "callback" /\ pc' \in {"record", "done"}
         \/ pc' = pc
  PROVE  IInv'
<1>1. BufferInv'
  BY DEF IInv, BufferInv
<1>2. StageInv'
  BY DEF IInv, StageInv, Before, During
<1>3. VersionInv'
  BY DEF IInv, VersionInv
<1>4. Handed' = Handed
  BY DEF Handed, IInv, StageInv, During
<1>5. pc' # "failed" => PiecesNext
  BY <1>4 DEF IInv, PiecesInv, PiecesNext
<1>6. PiecesInv'
  BY <1>5, PiecesPrime
<1> QED
  BY <1>1, <1>2, <1>3, <1>6 DEF IInv

\* Before the first read the input is where it was.
LEMMA InitStep ==
  ASSUME Init
  PROVE  IInv
<1> DEFINE e == << >>
           b == NewBuffer(capacity)
<1>1. /\ source \in Sources /\ policy \in Policies /\ capacity \in BufferSizes
      /\ input = source.tokens /\ zstd = NoZstd /\ buf = b /\ pc = "detect" /\ got = e /\ metadata = 0 /\ delivered = e
  BY DEF Init
<1>2. capacity \in Nat /\ capacity >= SmallestSize /\ Len(Records) \in Nat
  BY <1>1, DecoderAssumption, SmallestSizeFacts
<1>3. BufferOf(b, Cells) /\ b.cap >= SmallestSize /\ b.rd = 0 /\ b.wr = 0
  BY <1>2, CellFacts DEF BufferOf, NewBuffer, Cell
<1> HIDE DEF b
<1>4. BufferInv
  BY <1>1, <1>3 DEF BufferInv
<1>5. StageInv
  BY <1>1 DEF StageInv, Before, During
<1>6. VersionInv
  BY <1>1, <1>2 DEF VersionInv
<1>7. source.tokens \in Seq(Toks) /\ Content \in Seq(Cells) /\ Out(<< >>) = << >>
  BY <1>1, SourceFacts, CellFacts, TokenParts DEF Content
<1>8. Unread(buf) = e /\ Handed = e
  <2>1. Unread(buf) = e
    BY <1>1, <1>3, NoneUnread
  <2> QED
    BY <1>1, <2>1 DEF Handed
<1>9. Cat(e, Cat(e, e)) = e
  BY DEF Cat
<1>10. Flow(e, e, e, Content, e) = Content
  BY <1>7 DEF Flow, Cat
<1>11. zstd.held = e /\ zstd.unread = e
  BY <1>1 DEF NoZstd
<1>12. InPlace(e, zstd, input, e, Cells, Toks, Content)
  <2>1. e \in Seq(Cells) /\ e \in Seq(Toks)
    OBVIOUS
  <2>2. Flow(e, zstd.held, Out(zstd.unread), Out(input), Out(e)) = Content
    BY <1>1, <1>7, <1>10, <1>11 DEF Content
  <2> QED
    BY <1>1, <1>7, <1>11, <2>1, <2>2 DEF InPlace, StreamOf
<1>13. PiecesInv
  BY <1>1, <1>8, <1>9, <1>12 DEF PiecesInv
<1> QED
  BY <1>4, <1>5, <1>6, <1>13 DEF IInv

\* The decoder keeps its buffer, its stage, its versions and every piece of the input in
\* order, whatever it reads and whichever calls are made.
THEOREM IInvHolds == Spec => []IInv
<1>1. Init => IInv
  BY InitStep
<1>2. IInv /\ [Next]_vars => IInv'
  <2> SUFFICES ASSUME IInv, [Next]_vars PROVE IInv'
    OBVIOUS
  <2>1. CASE Detect
    BY <2>1, DetectStep
  <2>2. CASE DecodeRecord
    BY <2>2, DecodeRecordStep
  <2>3. CASE Callback
    BY <2>3, CallStep DEF Callback, constVars, readVars, metaVars
  <2>4. CASE ReadExactPlain
    BY <2>4, ReadExactPlainStep
  <2>5. ASSUME NEW n \in 0..Len(input), ReadSomePlain(n) PROVE IInv'
    BY <2>5, ReadSomePlainStep
  <2>6. CASE ReadZstd
    BY <2>6, ReadZstdStep
  <2>7. CASE GetMetadata
    BY <2>7, CallStep DEF GetMetadata, constVars, readVars, metaVars
  <2>8. CASE NextRecord
    BY <2>8, CallStep DEF NextRecord, constVars, readVars, metaVars
  <2>9. CASE Replay
    BY <2>9, CallStep DEF Replay, constVars, readVars, metaVars
  <2>10. CASE UNCHANGED vars
    BY <2>10, CallStep DEF vars, constVars, readVars, metaVars
  <2> QED
    BY <2>1, <2>2, <2>3, <2>4, <2>5, <2>6, <2>7, <2>8, <2>9, <2>10 DEF Next, Step, Call, Finished
<1> QED
  BY <1>1, <1>2, PTL DEF Spec

\* DbnDecoder loses, repeats and reorders no piece of an input: what it has handed over,
\* what buffer_, a ReadExact in progress and the decompressor hold and what is unread are
\* together the input, for every input and every split of the reads.
THEOREM NothingLostHolds == Spec => []NothingLost
<1>1. IInv => NothingLost
  <2> SUFFICES ASSUME IInv, pc # "failed"
               PROVE  Handed \o Unread(buf) \o got \o zstd.held \o Out(zstd.unread) \o Out(input) = Content
    BY DEF NothingLost
  <2> DEFINE u == Unread(buf)
             h == zstd.held
             z == Out(zstd.unread)
             i == Out(input)
  <2>1. /\ u \in Seq(Cells) /\ got \in Seq(Cells) /\ Handed \in Seq(Cells)
        /\ InPlace(Cat(Handed, Cat(u, got)), zstd, input, << >>, Cells, Toks, Content)
    BY ReadingFacts
  <2>2. h \in Seq(Cells) /\ z \in Seq(Cells) /\ i \in Seq(Cells) /\ Out(<< >>) = << >>
    BY <2>1, CellFacts, TokenParts DEF InPlace, StreamOf
  <2>3. Flow(Cat(Handed, Cat(u, got)), h, z, i, << >>) = Content
    BY <2>1, <2>2 DEF InPlace
  <2> HIDE DEF u, h, z, i
  <2>4. Cat(Handed, Cat(u, got)) = Cat(Cat(Handed, u), got)
    BY <2>1, CatFacts
  <2> DEFINE f == Cat(Cat(Cat(Cat(Cat(Handed, u), got), h), z), i)
  <2>5. f \in Seq(Cells)
    BY <2>1, <2>2, CatFacts
  <2>6. Cat(f, << >>) = Content
    BY <2>3, <2>4 DEF Flow
  <2>7. f = Content
    <3> HIDE DEF f
    <3> QED
      BY <2>5, <2>6, CatEmpty
  <2> QED
    BY <2>7 DEF Cat, u, h, z, i
<1> QED
  BY <1>1, IInvHolds, PTL

\* Every record DbnDecoder hands over has the layout its type has in the version the metadata
\* reports, for every version and every upgrade policy.
THEOREM LayoutMatchesMetadataHolds == Spec => []LayoutMatchesMetadata
<1>1. IInv => LayoutMatchesMetadata
  <2> SUFFICES ASSUME IInv, NEW i \in 1..Len(delivered)
               PROVE  delivered[i].layout = Layout(Records[delivered[i].rec].rtype, metadata)
    BY DEF LayoutMatchesMetadata
  <2>1. delivered[i] = [rec |-> i, layout |-> Layout(Records[i].rtype, metadata)]
    BY DEF IInv, VersionInv
  <2> QED
    BY <2>1
<1> QED
  BY <1>1, IInvHolds, PTL

-----------------------------------------------------------------------------
(* The place in the input, and the end of it.                              *)

\* The decompressor is at a place of a compressed input.
PlaceInv ==
  zstd # NoZstd => Compressed /\ (pc # "failed" => Reaches(source.tokens, zstd, input, << >>))

\* When DecodeRecord has returned nullptr nothing is left to read and no record is in the
\* buffer, unless a frame that decompresses to nothing has stopped the read.
Drained == input = << >> /\ zstd.unread = << >> /\ ~HasRecord(buf)
EndInv == ended => metadata # 0 /\ (EmptyFrame(source.tokens) \/ Drained)

SInv == PlaceInv /\ EndInv

\* What a ReadExact of the header has, and what it wants, are of the header.
LEMMA HeaderSoFar ==
  ASSUME IInv, pc \in Exact
  PROVE  LET x == Cat(Handed, Cat(Unread(buf), got))
         IN  x \in Seq(Cells) /\ Len(x) \in Nat /\ Wanted \in Nat /\ Len(x) + Wanted <= HeaderLen
<1> DEFINE u == Unread(buf)
           x == Cat(Handed, Cat(u, got))
<1>1. /\ BufferOf(buf, Cells) /\ u \in Seq(Cells) /\ got \in Seq(Cells) /\ Handed \in Seq(Cells)
  BY ReadingFacts DEF Exact
<1>2. /\ metadata = 0 /\ (pc # "metadata" => got = << >>) /\ (pc = "metadata" => Len(got) < MetadataLen)
  BY DEF IInv, StageInv, Exact, Before
<1>3. x \in Seq(Cells) /\ Len(x) = Len(Handed) + (Len(u) + Len(got))
  <2> HIDE DEF u
  <2>1. \A a, b \in Seq(Cells) : Cat(a, b) \in Seq(Cells) /\ Len(Cat(a, b)) = Len(a) + Len(b)
    BY ConcatParts DEF Cat
  <2>2. Cat(u, got) \in Seq(Cells) /\ Len(Cat(u, got)) = Len(u) + Len(got)
    BY <1>1, <2>1, Zenon
  <2> QED
    BY <1>1, <2>1, <2>2, Zenon
<1>4. MetadataLen \in Nat \ {0} /\ HeaderLen = 2 + MetadataLen /\ Len(got) \in Nat
  BY <1>1, DecoderAssumption DEF HeaderLen
<1> HIDE DEF x
<1>5. CASE pc = "magic"
  <2>1. u = << >> /\ Handed = << >> /\ got = << >> /\ Wanted = 1
    BY <1>1, <1>2, <1>5, NoneUnread DEF IInv, BufferInv, Handed, Wanted
  <2>2. Len(x) = 0
    BY <1>3, <2>1
  <2> QED
    BY <1>3, <1>4, <2>1, <2>2 DEF x
<1>6. CASE pc = "prelude"
  <2>1. u = <<Magic>> /\ Handed = << >> /\ got = << >> /\ Wanted = 1
    BY <1>2, <1>6 DEF IInv, BufferInv, Handed, Wanted
  <2>2. Len(x) = 1
    BY <1>3, <2>1
  <2> QED
    BY <1>3, <1>4, <2>1, <2>2 DEF x
<1>7. CASE pc = "metadata"
  <2>1. u = << >> /\ Handed = SubSeq(Header, 1, 2) /\ Wanted = MetadataLen - Len(got)
    BY <1>1, <1>2, <1>7, NoneUnread DEF IInv, BufferInv, Handed, Wanted
  <2>2. Len(SubSeq(Header, 1, 2)) = 2
    <3>1. Header \in Seq(Cells) /\ Len(Header) = HeaderLen
      BY PartsFacts
    <3>2. 2 \in 0..Len(Header)
      BY <1>4, <3>1
    <3> QED
      BY <3>1, <3>2, TakeDrop
  <2>3. Len(x) = 2 + Len(got)
    BY <1>3, <1>4, <2>1, <2>2
  <2> QED
    BY <1>2, <1>3, <1>4, <1>7, <2>1, <2>3 DEF x
<1> QED
  BY <1>5, <1>6, <1>7 DEF Exact

\* What a round of the decompressor's loop shows.
RestOfInput == SubSeq(input, 2, Len(input))
Round(r) ==
  /\ r.out \in Seq(Cells) /\ r.z # NoZstd /\ (r.error => ~Uncorrupted)
  /\ InPlace(Cat(Cat(Handed, Cat(Unread(buf), got)), r.out), r.z, RestOfInput, << >>, Cells, Toks, Content)
  /\ ~r.error => ReachesBy(r, source.tokens, zstd, NextTokens, RestOfInput, << >>)
  /\ input = << >> /\ zstd.unread = << >> =>
       r.out = << >> /\ r.z.unread = << >> /\ ~r.error /\ ~r.again

\* It shows it wherever the decoder reads.
LEMMA ZstdRound ==
  ASSUME IInv, PlaceInv, zstd # NoZstd, pc \in Exact \/ NeedsData, NEW r,
         r = ReadSomeStep(zstd, NextTokens, Room)
  PROVE  Round(r)
<1> DEFINE new == NextTokens
           rest == RestOfInput
           x == Cat(Handed, Cat(Unread(buf), got))
           e == << >>
<1>1. pc # "failed"
  BY DEF Exact, NeedsData
<1>2. InPlace(x, zstd, input, << >>, Cells, Toks, Content) /\ source \in Sources
  BY <1>1, ReadingFacts
<1>3. input \in Seq(Toks) /\ StreamOf(zstd, Cells, Toks)
  BY <1>2 DEF InPlace
<1>4. new \in Seq(Toks) /\ rest \in Seq(Toks) /\ input = Cat(new, rest)
  BY <1>3, NextTokensFacts DEF RestOfInput
<1>5. Room \in Nat /\ Room # 0
  BY RoomFacts
<1>6. Toks \in SUBSET TokensOf(Cells) /\ Hostage \in Toks /\ e \in Seq(Toks) /\ source.tokens \in Seq(Toks)
  BY <1>2, CellFacts, SourceFacts
<1>7. Reaches(source.tokens, zstd, input, << >>)
  BY <1>1 DEF PlaceInv
<1> HIDE DEF new, rest, x
<1>8. /\ InPlace(Cat(x, r.out), r.z, rest, << >>, Cells, Toks, Content)
      /\ r.out \in Seq(Cells) /\ r.z.suggestion \in {0, 1}
      /\ (\A t \in Toks : t.kind # "corrupt") => ~r.error
  <2>1. InPlace(x, zstd, Cat(new, rest), << >>, Cells, Toks, Content)
    BY <1>2, <1>4
  <2>2. r = ReadSomeStep(zstd, new, Room)
    BY DEF new
  <2> QED
    BY <1>4, <1>5, <1>6, <2>1, <2>2, InPlaceRound
<1>9. r.error => ~Uncorrupted
  BY <1>8 DEF Toks
<1>10. r.z # NoZstd
  <2>1. NoZstd.suggestion = -1
    BY DEF NoZstd
  <2> QED
    BY <1>8, <2>1
<1>11. ASSUME ~r.error PROVE ReachesBy(r, source.tokens, zstd, new, rest, << >>)
  <2>1. Reaches(source.tokens, zstd, Cat(new, rest), << >>)
    BY <1>4, <1>7
  <2>2. r = ReadSomeStep(zstd, new, Room)
    BY DEF new
  <2> QED
    BY <1>3, <1>4, <1>5, <1>6, <1>11, <2>1, <2>2, ReachesRound
<1>12. ASSUME input = << >>, zstd.unread = << >>
       PROVE  r.out = << >> /\ r.z.unread = << >> /\ ~r.error /\ ~r.again
  <2>1. NextTokens = << >>
    BY <1>12 DEF NextTokens, Shorter
  <2>2. zstd.unread \o NextTokens = << >>
    BY <1>12, <2>1
  <2>3. /\ ReadSomeStep(zstd, NextTokens, Room).out = << >>
        /\ ReadSomeStep(zstd, NextTokens, Room).z.unread = << >>
        /\ ~ReadSomeStep(zstd, NextTokens, Room).error
        /\ ~ReadSomeStep(zstd, NextTokens, Room).again
    BY <2>2 DEF ReadSomeStep
  <2> QED
    BY <2>3
<1> QED
  BY <1>8, <1>9, <1>10, <1>11, <1>12 DEF Round, x, new, rest

\* Whether a record is in a buffer depends on its unread cells.
LEMMA RecordUnread ==
  ASSUME NEW b, BufferOf(b, Cells)
  PROVE  HasRecord(b) <=> /\ Len(Unread(b)) > 0
                          /\ Len(Unread(b)) >= Records[Unread(b)[1].rec].len
<1>1. /\ Len(Unread(b)) = b.wr - b.rd /\ b.wr - b.rd \in Nat
      /\ \A i \in 1..(b.wr - b.rd) : Unread(b)[i] = b.mem[b.rd + i - 1]
  BY UnreadCells, UnreadSeq
<1>2. b.wr - b.rd > 0 => Unread(b)[1] = b.mem[b.rd]
  <2> SUFFICES ASSUME b.wr - b.rd > 0 PROVE Unread(b)[1] = b.mem[b.rd]
    OBVIOUS
  <2>1. 1 \in 1..(b.wr - b.rd) /\ b.rd + 1 - 1 = b.rd
    BY <1>1 DEF BufferOf
  <2> QED
    BY <1>1, <2>1
<1> QED
  BY <1>1, <1>2 DEF HasRecord, ReadCapacity, RecordLen

\* A read that returns nothing ends the records, and leaves the buffer's as they are.
LEMMA FilledEnds ==
  ASSUME IInv, pc = "record", ~HasRecord(buf), Filled(<< >>)
  PROVE  ~HasRecord(buf') /\ Unread(buf') = Unread(buf) /\ ended' = TRUE /\ metadata' = metadata /\ metadata # 0
<1> DEFINE c == Shifted
           e == << >>
<1>1. /\ BufferOf(buf, Cells) /\ Unread(buf) \in Seq(Cells) /\ metadata # 0
  BY ReadingFacts DEF IInv, StageInv, During
<1>2. MaxRecordLen \in Nat
  BY DecoderAssumption
<1>3. BufferOf(c, Cells) /\ Unread(c) = Unread(buf)
  BY <1>1, <1>2, ShiftForSpaceLemma DEF Shifted
<1>4. e \in Seq(Cells) /\ Len(e) <= WriteCapacity(c)
  BY <1>3 DEF WriteCapacity, BufferOf
<1>5. BufferOf(Fill(c, e), Cells) /\ Unread(Fill(c, e)) = Unread(c) \o e
  BY <1>3, <1>4, FillLemma
<1>6. buf' = Fill(c, e) /\ ended' = TRUE /\ metadata' = metadata
  BY DEF Filled, metaVars
<1> HIDE DEF c
<1>7. BufferOf(buf', Cells) /\ Unread(buf') = Unread(buf)
  BY <1>1, <1>3, <1>5, <1>6
<1> QED
  BY <1>1, <1>6, <1>7, RecordUnread

\* What is left of an input of which a read returned all.
LEMMA NothingBehind ==
  ASSUME input \in Seq(Toks), NextTokens = << >>
  PROVE  input = << >> /\ RestOfInput = << >>
<1>1. input = << >>
  BY NextTokensFacts
<1> QED
  BY <1>1 DEF RestOfInput

\* DetectCompression is at the beginning of the input.
LEMMA DetectPlace ==
  ASSUME IInv, SInv, Detect
  PROVE  SInv'
<1> DEFINE e == << >>
           a == <<input[1]>>
<1>1. /\ pc = "detect" /\ source' = source /\ metadata' = metadata /\ ended' = ended
      /\ input' = SubSeq(input, 2, Len(input))
      /\ (IsZstd /\ zstd' = NewZstd(a)) \/ zstd' = zstd
  BY DEF Detect, constVars, metaVars
<1>2. metadata = 0 /\ zstd = NoZstd /\ input = source.tokens /\ source \in Sources
  BY <1>1 DEF IInv, StageInv, VersionInv, Before
<1>3. ~ended /\ EndInv'
  BY <1>1, <1>2 DEF SInv, EndInv
<1>4. CASE IsZstd /\ zstd' = NewZstd(a)
  <2>1. source.tokens \in Seq(Toks) /\ source.tokens # << >> /\ source.tokens[1].kind = "magic"
    BY <1>2, <1>4, SourceFacts DEF IsZstd
  <2>2. Compressed /\ Compressed'
    BY <1>1, <2>1 DEF Compressed
  <2>3. Cat(Cat(a, input'), e) = source.tokens
    <3>1. a \in Seq(Toks) /\ input' \in Seq(Toks) /\ a \o input' = input
      BY <1>1, <1>2, <2>1
    <3> HIDE DEF a
    <3> QED
      BY <1>2, <3>1, CatEmpty, CatFacts DEF Cat
  <2>4. zstd'.held = << >> /\ zstd'.unread = a
    BY <1>4 DEF NewZstd
  <2> HIDE DEF a
  <2>5. Reaches(source.tokens, zstd', input', << >>)
    BY <2>1, <2>3, <2>4, ReachesFirst
  <2>6. PlaceInv'
    BY <1>1, <2>2, <2>5 DEF PlaceInv
  <2> QED
    BY <1>3, <2>6 DEF SInv
<1>5. CASE zstd' = zstd
  <2>1. zstd' = NoZstd
    BY <1>2, <1>5
  <2>2. PlaceInv'
    BY <2>1 DEF PlaceInv, NoZstd
  <2> QED
    BY <1>3, <2>2 DEF SInv
<1> QED
  BY <1>1, <1>4, <1>5

\* A read of the header is ahead of the end.
LEMMA ExactOpen ==
  ASSUME IInv, EndInv, pc \in Before
  PROVE  ~ended /\ metadata = 0
  BY DEF IInv, StageInv, EndInv

\* A ReadExact of the header does not end the records.
LEMMA HeaderOpen ==
  ASSUME NEW data, HeaderRead(data)
  PROVE  ended' = ended
  BY DEF HeaderRead

\* Steps without the decompressor.
LEMMA PlainPlace ==
  ASSUME IInv, SInv, ReadExactPlain \/ \E n \in 0..Len(input) : ReadSomePlain(n)
  PROVE  SInv'
<1>1. zstd = NoZstd /\ zstd' = zstd /\ source' = source
  BY DEF ReadExactPlain, ReadSomePlain, constVars
<1>2. PlaceInv'
  BY <1>1 DEF PlaceInv, NoZstd
<1>3. CASE ReadExactPlain
  <2>1. pc \in Before /\ ended' = ended
    BY <1>3, HeaderOpen DEF ReadExactPlain, Exact, Before
  <2>2. EndInv'
    BY <2>1, ExactOpen DEF SInv, EndInv
  <2> QED
    BY <1>2, <2>2 DEF SInv
<1>4. CASE \E n \in 0..Len(input) : ReadSomePlain(n)
  <2>1. PICK n \in 0..Len(input) : ReadSomePlain(n)
    BY <1>4
  <2>2. /\ pc = "record" /\ ~HasRecord(buf) /\ n <= Len(input) /\ (n = 0 => input = << >>)
        /\ Filled(Plain(n)) /\ input' = SubSeq(input, n + 1, Len(input))
    BY <2>1 DEF ReadSomePlain, NeedsData
  <2>3. input \in Seq(Toks)
    <3>1. InPlace(Cat(Handed, Cat(Unread(buf), got)), zstd, input, << >>, Cells, Toks, Content)
      BY <2>2, ReadingFacts
    <3> QED
      BY <3>1 DEF InPlace
  <2>4. n \in Nat /\ Len(Plain(n)) = n
    BY DecoderAssumption DEF Plain
  <2>5. CASE n = 0
    <3>1. Filled(<< >>) /\ input = << >> /\ input' = << >>
      BY <2>2, <2>5 DEF Plain
    <3>2. ~HasRecord(buf') /\ metadata' # 0
      BY <2>2, <3>1, FilledEnds
    <3>3. Drained'
      BY <1>1, <3>1, <3>2 DEF Drained, NoZstd
    <3>4. EndInv'
      BY <3>2, <3>3 DEF EndInv
    <3> QED
      BY <1>2, <3>4 DEF SInv
  <2>6. CASE n # 0
    <3>1. Plain(n) # << >>
      BY <2>4, <2>6
    <3>2. ended' = ended /\ metadata' = metadata
      BY <2>2, <3>1 DEF Filled, metaVars
    <3>3. input # << >>
      BY <2>2, <2>3, <2>4, <2>6
    <3>4. ended => EmptyFrame(source.tokens) /\ metadata # 0
      BY <3>3 DEF SInv, EndInv, Drained
    <3>5. EndInv'
      BY <1>1, <3>2, <3>4 DEF EndInv
    <3> QED
      BY <1>2, <3>5 DEF SInv
  <2> QED
    BY <2>5, <2>6
<1> QED
  BY <1>3, <1>4

\* The outcomes of a round.
Outcome(r) ==
  \/ r.error /\ Throw /\ UNCHANGED <<buf, got, metaVars, delivered, ended>>
  \/ /\ ~r.error /\ r.again
     /\ UNCHANGED <<buf, pc, op, got, metaVars, delivered, ended>>
  \/ ~r.error /\ ~r.again /\ NeedsData /\ Filled(r.out)
  \/ ~r.error /\ pc \in Exact /\ HeaderRead(Cat(got, r.out)) /\ Len(r.out) = Wanted
  \/ ~r.error /\ pc \in Exact /\ UNCHANGED <<buf, pc, op, metaVars, delivered, ended>>
  \/ /\ ~r.error /\ pc \in Exact /\ Len(r.out) < Wanted /\ r.z.suggestion = 0 /\ Throw
     /\ UNCHANGED <<buf, got, metaVars, delivered, ended>>

\* A round has one of them.
LEMMA ZstdOutcome ==
  ASSUME IInv, PlaceInv, ReadZstd
  PROVE  /\ UNCHANGED <<source, policy, capacity>> /\ zstd # NoZstd /\ (pc \in Exact \/ NeedsData)
         /\ input' = RestOfInput /\ \E r : Round(r) /\ zstd' = r.z /\ Outcome(r)
<1>1. /\ UNCHANGED <<source, policy, capacity>> /\ zstd # NoZstd /\ (pc \in Exact \/ NeedsData)
      /\ input' = RestOfInput
  BY DEF ReadZstd, constVars, RestOfInput
<1>2. pc = "record" => NeedsData
  BY <1>1 DEF Exact
<1>3. PICK r : r = ReadSomeStep(zstd, NextTokens, Room) /\ zstd' = r.z /\ Outcome(r)
  BY <1>2 DEF ReadZstd, Outcome, Cat
<1>4. Round(r)
  BY <1>1, <1>3, ZstdRound
<1> QED
  BY <1>1, <1>3, <1>4

\* A round leaves the decompressor at a place, and ends the records at the end.
LEMMA ZstdPlace ==
  ASSUME IInv, SInv, ReadZstd
  PROVE  SInv'
<1>0. PlaceInv /\ EndInv
  BY DEF SInv
<1>1. /\ source' = source /\ zstd # NoZstd /\ (pc \in Exact \/ NeedsData) /\ input' = RestOfInput
  BY <1>0, ZstdOutcome
<1>2. PICK r : Round(r) /\ zstd' = r.z /\ Outcome(r)
  BY <1>0, ZstdOutcome
<1>3. Compressed /\ Compressed'
  BY <1>0, <1>1 DEF PlaceInv, Compressed
<1>4. r.error => pc' = "failed"
  BY <1>2 DEF Outcome, Throw
<1>5. ~r.error => ReachesBy(r, source.tokens, zstd, NextTokens, RestOfInput, << >>)
  BY <1>2 DEF Round
<1>6. ~r.error => Reaches(source.tokens, zstd', input', << >>)
  BY <1>1, <1>2, <1>5 DEF ReachesBy
<1>7. PlaceInv'
  BY <1>1, <1>3, <1>4, <1>6 DEF PlaceInv
<1>8. input \in Seq(Toks)
  <2>1. InPlace(Cat(Handed, Cat(Unread(buf), got)), zstd, input, << >>, Cells, Toks, Content)
    BY <1>1, ReadingFacts DEF Exact, NeedsData
  <2> QED
    BY <2>1 DEF InPlace
<1>9. EndInv'
  <2>1. CASE pc \in Exact
    <3>1. ended' = ended
      BY <1>2, <2>1, HeaderOpen DEF Outcome, NeedsData, Exact
    <3>2. ~ended
      BY <1>0, <2>1, ExactOpen DEF Exact, Before
    <3> QED
      BY <3>1, <3>2 DEF EndInv
  <2>2. CASE NeedsData /\ Filled(r.out) /\ ~r.error /\ ~r.again /\ r.out = << >>
    <3>1. pc = "record" /\ ~HasRecord(buf) /\ Filled(<< >>)
      BY <2>2 DEF NeedsData
    <3>2. ~HasRecord(buf') /\ metadata' # 0
      BY <3>1, FilledEnds
    <3>3. /\ NextTokens = << >> /\ (~EmptyFrame(source.tokens) => r.z.unread = << >>)
      BY <1>5, <2>2 DEF ReachesBy
    <3>4. input' = << >>
      BY <1>1, <1>8, <3>3, NothingBehind
    <3>5. EmptyFrame(source.tokens) \/ Drained'
      BY <1>2, <3>2, <3>3, <3>4 DEF Drained
    <3> QED
      BY <1>1, <3>2, <3>5 DEF EndInv
  <2>3. CASE NeedsData /\ (r.out = << >> => r.error \/ r.again)
    <3>1. ended' = ended /\ metadata' = metadata
      BY <1>2, <2>3 DEF Outcome, NeedsData, Exact, Filled, metaVars
    <3>2. ended => EmptyFrame(source.tokens) /\ metadata # 0
      BY <1>0, <1>2, <2>3 DEF EndInv, Drained, Round
    <3> QED
      BY <1>1, <3>1, <3>2 DEF EndInv
  <2>4. NeedsData /\ r.out = << >> /\ ~r.error /\ ~r.again => Filled(r.out)
    BY <1>2 DEF Outcome, NeedsData, Exact
  <2> QED
    BY <1>1, <2>1, <2>2, <2>3, <2>4
<1> QED
  BY <1>7, <1>9 DEF SInv

\* The other steps read nothing.
LEMMA StillPlace ==
  ASSUME IInv, SInv, DecodeRecord \/ Callback \/ Call \/ UNCHANGED vars
  PROVE  SInv'
<1>1. UNCHANGED <<source, zstd, input, metadata, ended>> /\ (pc' # "failed" \/ pc' = pc)
  BY DEF DecodeRecord, Callback, Call, GetMetadata, NextRecord, Replay, vars, constVars, readVars, metaVars
<1>2. PlaceInv'
  <2>1. Compressed' <=> Compressed
    BY <1>1 DEF Compressed
  <2>2. pc' # "failed" => pc # "failed"
    BY DEF DecodeRecord, Callback, Call, GetMetadata, NextRecord, Replay, vars
  <2> QED
    BY <1>1, <2>1, <2>2 DEF SInv, PlaceInv
<1>3. CASE DecodeRecord
  <2>1. HasRecord(buf)
    BY <1>3 DEF DecodeRecord
  <2>2. EndInv'
    BY <1>1, <2>1 DEF SInv, EndInv, Drained
  <2> QED
    BY <1>2, <2>2 DEF SInv
<1>4. CASE Callback \/ Call \/ UNCHANGED vars
  <2>1. buf' = buf
    BY <1>4 DEF Callback, Call, GetMetadata, NextRecord, Replay, vars
  <2>2. Drained => Drained'
    BY <1>1, <2>1 DEF Drained
  <2>3. EndInv'
    BY <1>1, <2>2 DEF SInv, EndInv
  <2> QED
    BY <1>2, <2>3 DEF SInv
<1> QED
  BY <1>3, <1>4

\* The decompressor is at a place of the input in every state, and nullptr means the end of
\* an input that holds no frame without content.
THEOREM SInvHolds == Spec => []SInv
<1>1. Init => SInv
  BY DEF Init, SInv, PlaceInv, EndInv
<1>2. IInv /\ SInv /\ [Next]_vars => SInv'
  BY DetectPlace, PlainPlace, ZstdPlace, StillPlace DEF Next, Step, Finished
<1> QED
  BY IInvHolds, <1>1, <1>2, PTL DEF Spec

-----------------------------------------------------------------------------
(* The room for the metadata.                                              *)

\* The buffer keeps its capacity up to the prelude; the magic of the compression, the magic
\* and the prelude are in front of the metadata.
AheadOfPrelude == pc = "prelude" \/ (pc = "idle" /\ metadata = 0)
FitInv ==
  /\ pc \in {"detect", "magic"} \/ AheadOfPrelude => buf.cap = capacity
  /\ AheadOfPrelude => buf.wr = IF zstd = NoZstd THEN 1 ELSE 2
  /\ MetadataFits

\* A ReadExact of the header is complete.
LEMMA HeaderFits ==
  ASSUME IInv, PlaceInv, FitInv, pc \in Exact, UNCHANGED <<source, capacity>>, NEW data, HeaderRead(data),
         pc # "metadata" => Len(data) = 1, zstd' = NoZstd <=> zstd = NoZstd
  PROVE  FitInv'
<1>1. BufferOf(buf, Cells) /\ MetadataLen \in Nat /\ capacity \in Nat
  BY DecoderAssumption DEF IInv, BufferInv, VersionInv
<1>2. NearCapacity' <=> NearCapacity
  BY DEF NearCapacity, Compressed
<1>3. CASE pc' = "failed"
  BY <1>3 DEF FitInv, AheadOfPrelude, MetadataFits
<1>4. CASE pc = "magic" /\ pc' = "idle"
  <2>1. buf' = Fill(buf, data) /\ buf.wr = 1 /\ buf.cap = capacity /\ zstd # NoZstd
    BY <1>4 DEF HeaderRead, IInv, BufferInv, StageInv, FitInv
  <2>2. Len(data) = 1
    BY <1>4
  <2>3. buf'.cap = capacity /\ buf'.wr = 2
    BY <2>1, <2>2 DEF Fill
  <2> QED
    BY <1>4, <2>1, <2>3 DEF FitInv, MetadataFits
<1>5. CASE pc = "prelude" /\ pc' = "metadata"
  <2> DEFINE c == Consume(Fill(buf, data), 2)
             w == IF zstd = NoZstd THEN 2 ELSE 3
  <2>1. buf' = Reserve(c, MetadataLen)
    BY <1>5 DEF HeaderRead, Throw, ReserveForMetadata
  <2>2. buf.cap = capacity /\ buf.wr = w - 1 /\ buf.rd = buf.wr - 1
    <3>1. Unread(buf) = <<Magic>> /\ buf.cap = capacity /\ buf.wr = w - 1
      BY <1>5 DEF IInv, BufferInv, FitInv, AheadOfPrelude
    <3>2. Len(Unread(buf)) = buf.wr - buf.rd
      BY <1>1, UnreadSeq
    <3> QED
      BY <1>1, <3>1, <3>2 DEF BufferOf
  <2>3. c.cap = capacity /\ c.wr = w /\ c.rd = w
    <3>1. Len(data) = 1
      BY <1>5
    <3> QED
      BY <2>2, <3>1 DEF Fill, Consume
  <2> HIDE DEF c
  <2>4. CASE MetadataLen <= capacity
    <3>1. buf' = c
      BY <2>1, <2>3, <2>4 DEF Reserve
    <3>2. WriteCapacity(buf') = capacity - w
      BY <2>3, <3>1 DEF WriteCapacity
    <3>3. zstd # NoZstd => Compressed
      BY DEF PlaceInv
    <3>4. WriteCapacity(buf') >= MetadataLen \/ NearCapacity
      BY <1>1, <2>4, <3>2, <3>3 DEF NearCapacity
    <3> QED
      BY <1>2, <1>5, <3>4 DEF FitInv, AheadOfPrelude, MetadataFits
  <2>5. CASE ~(MetadataLen <= capacity)
    <3>1. buf'.cap = MetadataLen /\ buf'.wr = 0
      BY <2>1, <2>3, <2>5 DEF Reserve, ReadCapacity
    <3>2. WriteCapacity(buf') >= MetadataLen
      BY <1>1, <3>1 DEF WriteCapacity
    <3> QED
      BY <1>5, <3>2 DEF FitInv, AheadOfPrelude, MetadataFits
  <2> QED
    BY <2>4, <2>5
<1>6. CASE pc = "metadata" /\ pc' # "failed"
  <2>1. pc' \in {"idle", "record"} /\ metadata' = MetadataUpgrade(version, policy) /\ version = source.version
    BY <1>6 DEF HeaderRead, Throw, IInv, VersionInv
  <2>2. version \in Nat \ {0}
    BY <2>1, SourceFacts DEF IInv, VersionInv
  <2>3. metadata' # 0
    BY <2>1, <2>2 DEF MetadataUpgrade, kDbnVersion
  <2> QED
    BY <2>1, <2>3 DEF FitInv, AheadOfPrelude, MetadataFits
<1> QED
  BY <1>3, <1>4, <1>5, <1>6 DEF HeaderRead, Throw, Exact

\* The reads of an uncompressed input.
LEMMA PlainFits ==
  ASSUME IInv, PlaceInv, FitInv, ReadExactPlain
  PROVE  FitInv'
<1>1. zstd' = zstd /\ UNCHANGED <<source, capacity>> /\ pc \in Exact
  BY DEF ReadExactPlain, constVars
<1>2. CASE HeaderRead(Plain(Wanted))
  <2>1. pc # "metadata" => Len(Plain(Wanted)) = 1
    BY DEF Wanted, Plain
  <2> QED
    BY <1>1, <1>2, <2>1, HeaderFits
<1>3. CASE Throw
  BY <1>3 DEF Throw, FitInv, AheadOfPrelude, MetadataFits
<1> QED
  BY <1>2, <1>3 DEF ReadExactPlain

\* The reads of a compressed one.
LEMMA ZstdFits ==
  ASSUME IInv, PlaceInv, FitInv, ReadZstd
  PROVE  FitInv'
<1>1. /\ UNCHANGED <<source, capacity>> /\ zstd # NoZstd /\ (pc \in Exact \/ NeedsData)
  BY ZstdOutcome
<1>2. PICK r : Round(r) /\ zstd' = r.z /\ Outcome(r)
  BY ZstdOutcome
<1>3. zstd' # NoZstd
  BY <1>2 DEF Round
<1>4. CASE Throw
  BY <1>4 DEF Throw, FitInv, AheadOfPrelude, MetadataFits
<1>5. CASE UNCHANGED <<buf, pc, metaVars>>
  <2>1. NearCapacity' <=> NearCapacity
    BY <1>1 DEF NearCapacity, Compressed
  <2> QED
    BY <1>1, <1>3, <1>5, <2>1 DEF FitInv, AheadOfPrelude, MetadataFits, metaVars, WriteCapacity
<1>6. CASE NeedsData /\ Filled(r.out)
  <2>1. pc = "record" /\ metadata' = metadata /\ pc' \in {"record", "idle", "done"}
    BY <1>6 DEF NeedsData, Filled, metaVars
  <2>2. metadata # 0
    BY <2>1 DEF IInv, StageInv, During
  <2> QED
    BY <2>1, <2>2 DEF FitInv, AheadOfPrelude, MetadataFits
<1>7. CASE pc \in Exact /\ HeaderRead(Cat(got, r.out)) /\ Len(r.out) = Wanted
  <2>1. ASSUME pc # "metadata" PROVE Len(Cat(got, r.out)) = 1
    <3>1. got = << >> /\ Wanted = 1 /\ r.out \in Seq(Cells)
      BY <1>2, <1>7, <2>1 DEF IInv, StageInv, Wanted, Exact, Round
    <3>2. Cat(got, r.out) = r.out
      BY <3>1, CatEmpty
    <3> QED
      BY <1>7, <3>1, <3>2
  <2> QED
    BY <1>1, <1>3, <1>7, <2>1, HeaderFits
<1> QED
  BY <1>2, <1>4, <1>5, <1>6, <1>7 DEF Outcome

\* The steps that read none of the header.
LEMMA OtherFits ==
  ASSUME IInv, FitInv,
         Detect \/ DecodeRecord \/ Callback \/ Call \/ UNCHANGED vars \/ \E n \in 0..Len(input) : ReadSomePlain(n)
  PROVE  FitInv'
<1>1. CASE Detect
  <2>1. pc = "detect" /\ buf.cap = capacity /\ buf.wr = 0 /\ zstd = NoZstd
    BY <1>1 DEF Detect, IInv, BufferInv, StageInv, FitInv
  <2>2. \/ buf' = Fill(buf, <<Magic>>) /\ pc' = "idle" /\ zstd' = NoZstd
        \/ buf' = Consume(Fill(buf, <<Uninit>>), 1) /\ pc' = "magic"
        \/ pc' = "failed"
    BY <1>1, <2>1 DEF Detect, IsDbn, Throw
  <2>3. pc' # "failed" => buf'.cap = capacity' /\ buf'.wr = 1
    BY <1>1, <2>1, <2>2 DEF Detect, constVars, Fill, Consume
  <2> QED
    BY <2>2, <2>3 DEF FitInv, AheadOfPrelude, MetadataFits
<1>2. CASE Callback \/ Call \/ UNCHANGED vars
  <2>1. UNCHANGED <<buf, zstd, metadata, source, capacity>>
    BY <1>2 DEF Callback, Call, GetMetadata, NextRecord, Replay, vars, constVars, readVars, metaVars
  <2>2. NearCapacity' <=> NearCapacity
    BY <2>1 DEF NearCapacity, Compressed
  <2>3. UNCHANGED pc \/ (pc \in {"idle", "callback"} /\ pc' \notin {"detect", "magic", "metadata"})
    BY <1>2 DEF Callback, Call, GetMetadata, NextRecord, Replay, vars
  <2>4. AheadOfPrelude' => AheadOfPrelude
    <3>1. CASE UNCHANGED pc
      BY <2>1, <3>1 DEF AheadOfPrelude
    <3>2. CASE Callback
      BY <3>2 DEF Callback, AheadOfPrelude
    <3>3. CASE Call
      BY <2>1, <3>3 DEF Call, GetMetadata, NextRecord, Replay, AheadOfPrelude
    <3> QED
      BY <1>2, <3>1, <3>2, <3>3 DEF vars
  <2> QED
    BY <2>1, <2>2, <2>3, <2>4 DEF FitInv, MetadataFits, WriteCapacity
<1>3. CASE DecodeRecord \/ \E n \in 0..Len(input) : ReadSomePlain(n)
  <2>1. pc = "record" /\ metadata' = metadata /\ pc' \in {"record", "callback", "idle", "done"}
    BY <1>3 DEF DecodeRecord, ReadSomePlain, NeedsData, Filled, metaVars
  <2>2. metadata # 0
    BY <2>1 DEF IInv, StageInv, During
  <2> QED
    BY <2>1, <2>2 DEF FitInv, AheadOfPrelude, MetadataFits
<1> QED
  BY <1>1, <1>2, <1>3

\* The room for the metadata is known in every state.
THEOREM FitInvHolds == Spec => []FitInv
<1>1. Init => FitInv
  BY DEF Init, FitInv, AheadOfPrelude, MetadataFits, NewBuffer
<1>2. IInv /\ SInv /\ FitInv /\ [Next]_vars => FitInv'
  BY PlainFits, ZstdFits, OtherFits DEF Next, Step, Finished, SInv
<1> QED
  BY IInvHolds, SInvHolds, <1>1, <1>2, PTL DEF Spec

\* DecodeMetadata's ReadExact writes inside the buffer, which Reserve grows for metadata of
\* any size; the one exception is metadata within a few bytes of the buffer's capacity.
THEOREM MetadataFitsHolds == Spec => []MetadataFits
<1>1. FitInv => MetadataFits
  BY DEF FitInv
<1> QED
  BY <1>1, FitInvHolds, PTL

-----------------------------------------------------------------------------
(* An exception means an input that is not readable.                       *)

\* What an exception must show.
Broken == ~Readable /\ ~(ended /\ ~EmptyFrame(source.tokens)) /\ UNCHANGED <<source, policy, capacity, delivered>>

\* The first piece, and the length, of what begins the input.
LEMMA ContentBegins ==
  ASSUME NEW x, NEW z, NEW w, InPlace(x, z, w, << >>, Cells, Toks, Content)
  PROVE  x # << >> => Content[1] = x[1]
<1> SUFFICES ASSUME x # << >> PROVE Content[1] = x[1]
  OBVIOUS
<1>1. x \in Seq(Cells)
  BY DEF InPlace
<1>2. PICK v \in Seq(Cells) : Content = Cat(x, v)
  BY CellFacts, ReaderFirst
<1>3. 1 \in 1..Len(x)
  BY <1>1, EmptySeq
<1> QED
  BY <1>1, <1>2, <1>3, ConcatParts DEF Cat

\* DetectCompression throws.
LEMMA DetectBreaks ==
  ASSUME IInv, SInv, Detect, pc' = "failed"
  PROVE  Broken
<1>1. pc = "detect" /\ ~IsDbn /\ ~IsZstd /\ UNCHANGED <<source, policy, capacity, delivered>>
  BY DEF Detect, constVars
<1>2. input = source.tokens /\ source \in Sources
  BY <1>1 DEF IInv, StageInv, VersionInv
<1>3. ~ended
  BY <1>1, ExactOpen DEF SInv, Before
<1>4. /\ input \in Seq(Toks) /\ SourceOk(source) /\ HeaderLen \in Nat /\ HeaderLen >= 1
      /\ Toks \in SUBSET TokensOf(Cells)
  BY <1>2, SourceFacts, CellFacts, DecoderAssumption DEF HeaderLen
<1>5. ASSUME Readable PROVE FALSE
  <2>1. Len(Content) >= HeaderLen /\ Content[1] = Magic /\ Uncorrupted
    BY <1>5 DEF Readable
  <2>2. CASE input = << >>
    <3>1. Content = << >>
      BY <1>2, <2>2, CellFacts, TokenParts DEF Content
    <3> QED
      BY <1>4, <2>1, <3>1
  <2>3. CASE input # << >>
    <3> DEFINE t == input[1]
    <3>1. Len(input) \in Nat /\ 1 \in 1..Len(input) /\ t \in TokensOf(Cells)
      BY <1>4, <2>3, EmptySeq, ElementOfSeq
    <3>2. t.kind \in Kinds /\ t.out \in Seq(Cells)
      BY <3>1 DEF TokensOf
    <3>3. t.kind # "corrupt"
      BY <1>2, <2>1, <3>1 DEF Uncorrupted
    <3>4. t.kind # "data"
      BY <1>2, <1>4, <2>3 DEF SourceOk
    <3>5. t.kind # "magic"
      BY <1>1, <2>3 DEF IsZstd
    <3>6. t.kind = "plain"
      BY <3>2, <3>3, <3>4, <3>5 DEF Kinds
    <3>7. SingleBytes(input)
      BY <1>2, <1>4, <2>3, <3>6 DEF SourceOk, SingleBytes
    <3>8. Out(SubSeq(input, 1, Len(input))) = [i \in 1..Len(input) |-> input[i].out[1]]
      <4>1. input \in Seq(TokensOf(Cells)) /\ Len(input) \in 0..Len(input)
        BY <1>4, <3>1
      <4> QED
        BY <3>7, <4>1, OutPlain
    <3>9. SubSeq(input, 1, Len(input)) = input
      BY <1>4
    <3>10. Content[1] = t.out[1]
      <4>1. Content = [i \in 1..Len(input) |-> input[i].out[1]]
        BY <1>2, <3>8, <3>9 DEF Content
      <4>2. 1 \in 1..Len(input) /\ t = input[1]
        BY <3>1
      <4> HIDE DEF t
      <4> QED
        BY <4>1, <4>2
    <3>11. Len(t.out) = 1
      BY <3>1, <3>7 DEF SingleBytes
    <3> HIDE DEF t
    <3>12. t.out = <<Magic>>
      BY <2>1, <3>2, <3>10, <3>11, CellFacts
    <3> QED
      BY <1>1, <2>3, <3>6, <3>12 DEF IsDbn, t
  <2> QED
    BY <2>2, <2>3
<1> QED
  BY <1>1, <1>3, <1>5 DEF Broken

\* DecodeMetadata throws: the input does not begin with the magic, its version is from the
\* future or its metadata does not parse.
LEMMA HeaderBreaks ==
  ASSUME IInv, MetadataFits, pc \in Exact, NEW data \in Seq(Cells), NEW z, NEW w, HeaderRead(data), pc' = "failed",
         pc = "magic" => Len(data) = 1 /\ InPlace(data, z, w, << >>, Cells, Toks, Content)
  PROVE  ~Readable
<1>1. CASE pc = "magic"
  <2>1. data # <<Magic>> /\ Len(data) = 1
    BY <1>1 DEF HeaderRead
  <2>2. data # << >> /\ data[1] # Magic
    BY <2>1
  <2>3. Content[1] # Magic
    BY <1>1, <2>2, ContentBegins
  <2> QED
    BY <2>3 DEF Readable
<1>2. CASE pc = "prelude"
  <2>1. ~source.sized
    BY <1>2 DEF HeaderRead
  <2> QED
    BY <2>1 DEF Readable
<1>3. CASE pc = "metadata" /\ WriteCapacity(buf) < MetadataLen
  <2>1. ~(WriteCapacity(buf) >= MetadataLen)
    BY <1>3, DecoderAssumption DEF IInv, BufferInv, BufferOf, WriteCapacity
  <2>2. NearCapacity
    BY <1>3, <2>1 DEF MetadataFits
  <2> QED
    BY <2>2 DEF Readable
<1>4. CASE pc = "metadata" /\ ~(WriteCapacity(buf) < MetadataLen)
  <2>1. DecodeMetadataFieldsThrows
    BY <1>4 DEF HeaderRead
  <2>2. version = source.version /\ source \in Sources
    BY <1>4 DEF IInv, VersionInv
  <2>3. source.version \in Nat
    BY <2>2, SourceFacts DEF SourceOk
  <2> QED
    BY <2>1, <2>2, <2>3 DEF DecodeMetadataFieldsThrows, Readable, kDbnVersion
<1> QED
  BY <1>1, <1>2, <1>3, <1>4 DEF Exact

\* A ReadExact of an uncompressed input throws.
LEMMA PlainBreaks ==
  ASSUME IInv, SInv, MetadataFits, ReadExactPlain, pc' = "failed"
  PROVE  Broken
<1> DEFINE x == Cat(Handed, Cat(Unread(buf), got))
           n == Len(input)
<1>1. /\ zstd = NoZstd /\ pc \in Exact /\ UNCHANGED <<source, policy, capacity>> /\ pc \notin {"detect", "failed", "magic"}
  BY DEF ReadExactPlain, Exact, constVars, IInv, StageInv
<1>2. ~ended
  BY <1>1, ExactOpen DEF SInv, Exact, Before
<1>3. delivered' = delivered
  BY DEF ReadExactPlain, HeaderRead
<1>4. /\ InPlace(x, zstd, input, << >>, Cells, Toks, Content)
      /\ Handed \in Seq(Cells) /\ Unread(buf) \in Seq(Cells)
  BY <1>1, ReadingFacts
<1>5. input \in Seq(Toks) /\ n \in Nat
  BY <1>4 DEF InPlace
<1>6. x \in Seq(Cells) /\ Len(x) \in Nat /\ Wanted \in Nat /\ Len(x) + Wanted <= HeaderLen
  BY <1>1, HeaderSoFar
<1>7. CASE Len(input) >= Wanted /\ HeaderRead(Plain(Wanted))
  <2>1. Wanted \in 0..Len(input)
    BY <1>5, <1>6, <1>7
  <2>2. Plain(Wanted) \in Seq(Cells)
    BY <1>1, <2>1, PlainRead
  <2>3. ~Readable
    BY <1>1, <1>7, <2>2, HeaderBreaks
  <2> QED
    BY <1>1, <1>2, <1>3, <2>3 DEF Broken
<1>8. CASE Len(input) < Wanted
  <2> DEFINE y == Out(input)
             e == << >>
  <2>1. y \in Seq(Cells) /\ Out(<< >>) = << >>
    BY <1>5, CellFacts, TokenParts
  <2>2. Flow(x, e, e, y, e) = Content
    BY <1>1, <1>4, <2>1 DEF InPlace, NoZstd
  <2>3. Len(y) = n
    <3>1. SingleBytes(input)
      BY <1>1 DEF IInv, StageInv
    <3>2. input \in Seq(TokensOf(Cells)) /\ n \in 0..n /\ SubSeq(input, 1, n) = input
      BY <1>5, CellFacts
    <3>3. Out(SubSeq(input, 1, n)) = [i \in 1..n |-> input[i].out[1]]
      BY <3>1, <3>2, OutPlain
    <3>4. y = Plain(n)
      BY <3>2, <3>3 DEF Plain
    <3>5. Len(Plain(n)) = n
      BY <1>1, <3>2, PlainRead
    <3> QED
      BY <3>4, <3>5
  <2> HIDE DEF x, y, n
  <2>4. Flow(x, e, e, y, e) = Cat(x, y)
    BY <1>6, <2>1 DEF Flow, Cat
  <2>5. Len(Cat(x, y)) = Len(x) + Len(y)
    BY <1>6, <2>1, ConcatParts DEF Cat
  <2>6. HeaderLen \in Nat
    BY PartsFacts
  <2>7. ~(Len(Content) >= HeaderLen)
    BY <1>5, <1>6, <1>8, <2>2, <2>3, <2>4, <2>5, <2>6 DEF n
  <2>8. ~Readable
    BY <2>7 DEF Readable
  <2> QED
    BY <1>1, <1>2, <1>3, <2>8 DEF Broken
<1> QED
  BY <1>5, <1>6, <1>7, <1>8 DEF ReadExactPlain

\* A round of the decompressor's loop throws: its input is corrupt, or a frame ends inside the
\* header, or the header is none.
LEMMA ZstdBreaks ==
  ASSUME IInv, SInv, MetadataFits, ReadZstd, pc' = "failed"
  PROVE  Broken
<1> DEFINE x == Cat(Handed, Cat(Unread(buf), got))
<1>0. PlaceInv /\ EndInv
  BY DEF SInv
<1>1. /\ UNCHANGED <<source, policy, capacity>> /\ zstd # NoZstd /\ (pc \in Exact \/ NeedsData) /\ pc # "failed"
  BY <1>0, ZstdOutcome DEF Exact, NeedsData
<1>2. PICK r : Round(r) /\ zstd' = r.z /\ Outcome(r)
  BY <1>0, ZstdOutcome
<1>3. ~(NeedsData /\ Filled(r.out))
  BY DEF NeedsData, Filled
<1>4. delivered' = delivered
  BY <1>2, <1>3 DEF Outcome, HeaderRead
<1>5. pc \in Exact => ~ended
  BY <1>0, ExactOpen DEF Exact, Before
<1>6. CASE r.error
  <2>1. ~Uncorrupted
    BY <1>2, <1>6 DEF Round
  <2>2. ~Readable
    BY <2>1 DEF Readable
  <2>3. ~Drained
    BY <1>2, <1>6 DEF Round, Drained
  <2>4. ~(ended /\ ~EmptyFrame(source.tokens))
    BY <1>0, <2>3 DEF EndInv
  <2> QED
    BY <1>1, <1>4, <2>2, <2>4 DEF Broken
<1>7. CASE pc \in Exact /\ HeaderRead(Cat(got, r.out)) /\ Len(r.out) = Wanted
  <2>1. got \in Seq(Cells) /\ r.out \in Seq(Cells)
    BY <1>1, <1>2, ReadingFacts DEF Round
  <2>2. Cat(got, r.out) \in Seq(Cells)
    BY <2>1, CatFacts
  <2>3. ASSUME pc = "magic"
        PROVE  /\ Len(Cat(got, r.out)) = 1
               /\ InPlace(Cat(got, r.out), r.z, RestOfInput, << >>, Cells, Toks, Content)
    <3> DEFINE e == << >>
    <3>1. got = e /\ Handed = e /\ Wanted = 1 /\ Unread(buf) = e
      <4>1. got = e /\ Handed = e /\ Wanted = 1
        BY <2>3 DEF IInv, StageInv, Before, Handed, Wanted
      <4>2. BufferOf(buf, Cells) /\ buf.rd = buf.wr
        BY <2>3 DEF IInv, BufferInv
      <4> QED
        BY <4>1, <4>2, NoneUnread
    <3>2. Cat(e, Cat(e, e)) = e
      BY DEF Cat
    <3>3. x = e
      BY <3>1, <3>2
    <3>4. Cat(e, r.out) = r.out
      BY <2>1, CatEmpty
    <3>5. InPlace(Cat(x, r.out), r.z, RestOfInput, << >>, Cells, Toks, Content)
      BY <1>2 DEF Round
    <3> HIDE DEF x
    <3>6. Cat(got, r.out) = r.out /\ Cat(x, r.out) = r.out
      BY <3>1, <3>3, <3>4
    <3> QED
      BY <1>7, <3>1, <3>5, <3>6
  <2>4. ~Readable
    BY <1>7, <2>2, <2>3, HeaderBreaks
  <2> QED
    BY <1>1, <1>4, <1>5, <1>7, <2>4 DEF Broken
<1>8. CASE ~r.error /\ pc \in Exact /\ Len(r.out) < Wanted /\ r.z.suggestion = 0
  <2>1. /\ r.out \in Seq(Cells)
        /\ InPlace(Cat(x, r.out), r.z, RestOfInput, << >>, Cells, Toks, Content)
        /\ FrameOver(source.tokens, r.z.held, Cat(Cat(r.z.unread, RestOfInput), << >>))
    BY <1>2, <1>8 DEF Round, ReachesBy
  <2>2. x \in Seq(Cells) /\ Len(x) \in Nat /\ Wanted \in Nat /\ Len(x) + Wanted <= HeaderLen
    BY <1>8, HeaderSoFar
  <2> HIDE DEF x
  <2>3. Len(Cat(x, r.out)) = Len(x) + Len(r.out) /\ Len(r.out) \in Nat
    BY <2>1, <2>2, ConcatParts DEF Cat
  <2>4. source.tokens \in Seq(Toks) /\ Toks \in SUBSET TokensOf(Cells)
    BY <1>1, ReadingFacts, SourceFacts, CellFacts
  <2>5. \E p \in 1..Len(source.tokens) :
          source.tokens[p].last /\ Len(Out(SubSeq(source.tokens, 1, p))) = Len(Cat(x, r.out))
    <3>1. InPlace(Cat(x, r.out), r.z, RestOfInput, << >>, Cells, Toks, Out(source.tokens))
      BY <2>1 DEF Content
    <3> QED
      BY <2>1, <2>4, <3>1, FrameOverLength
  <2>6. HeaderLen \in Nat
    BY PartsFacts
  <2>7. ~(Len(Cat(x, r.out)) >= HeaderLen)
    BY <1>8, <2>2, <2>3, <2>6
  <2>8. ~HeaderInFrame
    BY <1>0, <1>1, <2>5, <2>7 DEF HeaderInFrame, PlaceInv
  <2>9. ~Readable
    BY <2>8 DEF Readable
  <2> QED
    BY <1>1, <1>4, <1>5, <1>8, <2>9 DEF Broken
<1> QED
  BY <1>1, <1>2, <1>3, <1>6, <1>7, <1>8 DEF Outcome

-----------------------------------------------------------------------------
(* DbnDecoder hands over a record stream.                                  *)

\* No record is handed over that is not whole in the input, and at the end none is left.
Counted ==
  pc # "failed" =>
    /\ Len(delivered) <= Cardinality(WholeRecords)
    /\ ended /\ ~EmptyFrame(source.tokens) /\ EndsWithFrame => Len(delivered) = Cardinality(WholeRecords)

\* At the end of an input that ends with a frame, all of it has been handed over or is in the
\* buffer.
LEMMA AllIsRead ==
  ASSUME IInv, SInv, pc # "failed", metadata # 0, Drained, EndsWithFrame
  PROVE  Content = Cat(Handed, Unread(buf))
<1> DEFINE x == Cat(Handed, Unread(buf))
           e == << >>
<1>1. got = e /\ input = e /\ zstd.unread = e
  BY DEF IInv, StageInv, Drained, Before
<1>2. /\ Handed \in Seq(Cells) /\ Unread(buf) \in Seq(Cells) /\ source \in Sources
      /\ InPlace(Cat(Handed, Cat(Unread(buf), got)), zstd, input, << >>, Cells, Toks, Content)
  BY ReadingFacts
<1>3. Cat(Unread(buf), got) = Unread(buf) /\ x \in Seq(Cells)
  BY <1>1, <1>2, CatEmpty, CatFacts
<1>4. zstd.held = e
  <2>1. CASE zstd = NoZstd
    BY <2>1 DEF NoZstd
  <2>2. CASE zstd # NoZstd
    <3>1. Compressed /\ Reaches(source.tokens, zstd, << >>, << >>)
      BY <1>1, <2>2 DEF SInv, PlaceInv
    <3>2. source.tokens \in Seq(Toks) /\ Toks \in SUBSET TokensOf(Cells) /\ Hostage \in Toks /\ e \in Seq(Toks)
      BY <1>2, SourceFacts, CellFacts
    <3>3. source.tokens[Len(source.tokens)].last
      BY <3>1 DEF EndsWithFrame, Last
    <3>4. Len(source.tokens) - Len(e) = Len(source.tokens)
      BY <3>2
    <3>5. zstd.held # e => ~source.tokens[Len(source.tokens) - Len(e)].last
      BY <1>1, <3>1, <3>2, HeldUnfinished
    <3> QED
      BY <3>3, <3>4, <3>5
  <2> QED
    BY <2>1, <2>2
<1>5. Out(<< >>) = << >>
  BY CellFacts, TokenParts
<1>6. Flow(x, e, e, e, e) = Content
  BY <1>1, <1>2, <1>3, <1>4, <1>5 DEF InPlace
<1> HIDE DEF x
<1>7. Flow(x, e, e, e, e) = x
  BY <1>3 DEF Flow, Cat
<1> QED
  BY <1>6, <1>7 DEF x

\* The count holds in every state.
LEMMA CountedFacts ==
  ASSUME IInv, SInv
  PROVE  Counted
<1> SUFFICES ASSUME pc # "failed" PROVE Counted
  BY DEF Counted
<1> DEFINE n == Len(delivered)
           u == Unread(buf)
<1>1. CASE metadata = 0
  <2>1. delivered = << >> /\ ~ended
    BY <1>1 DEF IInv, VersionInv, SInv, EndInv
  <2>2. Cardinality(WholeRecords) \in Nat
    BY WholeFinite
  <2> QED
    BY <2>1, <2>2 DEF Counted
<1>2. CASE metadata # 0
  <2>1. Handed = FrontOf(n) /\ n \in 0..Len(Records)
    BY <1>2, HandedFront DEF IInv
  <2>2. /\ source \in Sources /\ u \in Seq(Cells) /\ got \in Seq(Cells) /\ Handed \in Seq(Cells)
        /\ InPlace(Cat(Handed, Cat(u, got)), zstd, input, << >>, Cells, Toks, Content)
    BY ReadingFacts
  <2>3. n <= Cardinality(WholeRecords)
    <3>1. PICK v \in Seq(Cells) : Content = Cat(Cat(Handed, Cat(u, got)), v)
      BY <2>2, CellFacts, ReaderFirst
    <3> HIDE DEF u, n
    <3>2. Cat(u, got) \in Seq(Cells) /\ Cat(Cat(u, got), v) \in Seq(Cells)
      BY <2>2, CatFacts
    <3>3. Cat(Cat(Handed, Cat(u, got)), v) = Cat(Handed, Cat(Cat(u, got), v))
      BY <2>2, <3>2, CatFacts
    <3>4. Content = Cat(FrontOf(n), Cat(Cat(u, got), v))
      BY <2>1, <3>1, <3>3
    <3> QED
      BY <2>1, <2>2, <3>2, <3>4, WholeAtLeast
  <2>4. ASSUME ended, ~EmptyFrame(source.tokens), EndsWithFrame PROVE n = Cardinality(WholeRecords)
    <3>1. Drained /\ ~HasRecord(buf)
      BY <2>4 DEF SInv, EndInv, Drained
    <3>2. Content = Cat(FrontOf(n), u)
      BY <1>2, <2>1, <2>4, <3>1, AllIsRead
    <3>3. u # << >> => ~(Records[u[1].rec].len <= Len(u))
      BY <1>2, <3>1, FrontRecord
    <3> HIDE DEF u, n
    <3> QED
      BY <2>1, <2>2, <3>2, <3>3, WholeExactly
  <2> QED
    BY <2>3, <2>4 DEF Counted
<1> QED
  BY <1>1, <1>2

\* What a step does, as the application sees it: it throws, leaves the records alone, ends
\* them or hands one over.
Quiet ==
  /\ UNCHANGED <<source, policy, capacity, delivered, ended>> /\ (pc' = "failed" <=> pc = "failed")
  /\ metadata' = metadata \/ (metadata = 0 /\ ~ended)
Ends == /\ UNCHANGED <<source, policy, capacity, delivered, metadata>> /\ metadata # 0 /\ ended' = TRUE
        /\ pc # "failed" /\ pc' # "failed"

\* Every step is one of these.
LEMMA StepEffects ==
  ASSUME IInv, SInv, MetadataFits, [Next]_vars
  PROVE  (pc # "failed" /\ pc' = "failed" /\ Broken) \/ Quiet \/ Ends \/ DecodeRecord
<1>0. PlaceInv /\ EndInv
  BY DEF SInv
<1>1. CASE Detect
  <2>1. pc = "detect" /\ UNCHANGED <<source, policy, capacity, delivered, ended, metadata>>
    BY <1>1 DEF Detect, constVars, metaVars
  <2> QED
    BY <1>1, <2>1, DetectBreaks DEF Quiet
<1>2. CASE ReadExactPlain
  <2>1. pc \in Exact /\ UNCHANGED <<source, policy, capacity, delivered, ended>>
    BY <1>2 DEF ReadExactPlain, HeaderRead, constVars
  <2>2. pc # "failed" /\ ~ended /\ metadata = 0
    BY <1>0, <2>1, ExactOpen DEF Exact, Before
  <2> QED
    BY <1>2, <2>1, <2>2, PlainBreaks DEF Quiet
<1>3. ASSUME NEW n \in 0..Len(input), ReadSomePlain(n) PROVE Quiet \/ Ends
  <2>1. pc = "record" /\ UNCHANGED <<source, policy, capacity>> /\ Filled(Plain(n))
    BY <1>3 DEF ReadSomePlain, NeedsData, constVars
  <2>2. metadata # 0
    BY <2>1 DEF IInv, StageInv, During
  <2> QED
    BY <2>1, <2>2 DEF Filled, Quiet, Ends, metaVars
<1>4. CASE ReadZstd
  <2>1. UNCHANGED <<source, policy, capacity>> /\ (pc \in Exact \/ NeedsData) /\ pc # "failed"
    BY <1>0, <1>4, ZstdOutcome DEF Exact, NeedsData
  <2>2. PICK r : Round(r) /\ zstd' = r.z /\ Outcome(r)
    BY <1>0, <1>4, ZstdOutcome
  <2>3. CASE NeedsData /\ Filled(r.out)
    <3>1. pc = "record" /\ metadata # 0
      BY <2>3 DEF IInv, StageInv, During, NeedsData
    <3> QED
      BY <2>1, <2>3, <3>1 DEF Filled, Quiet, Ends, metaVars
  <2>4. CASE ~(NeedsData /\ Filled(r.out))
    <3>1. UNCHANGED <<delivered, ended>> /\ (pc \in Exact \/ UNCHANGED metadata)
      BY <2>2, <2>4 DEF Outcome, HeaderRead, metaVars
    <3>2. pc \in Exact => ~ended /\ metadata = 0
      BY <1>0, ExactOpen DEF Exact, Before
    <3> QED
      BY <1>4, <2>1, <3>1, <3>2, ZstdBreaks DEF Quiet
  <2> QED
    BY <2>3, <2>4
<1>5. CASE Callback \/ Call \/ UNCHANGED vars
  BY <1>5 DEF Quiet, Callback, Call, GetMetadata, NextRecord, Replay, vars, constVars, metaVars
<1> QED
  BY <1>1, <1>2, <1>3, <1>4, <1>5 DEF Next, Step, Finished

\* The input of the stream is the same in every state.
LEMMA SameInput ==
  ASSUME UNCHANGED <<source, policy, capacity>>
  PROVE  /\ UNCHANGED <<Cardinality(WholeRecords), Readable, EndsWithFrame /\ Uncorrupted>>
         /\ (EmptyFrame(source.tokens)' <=> EmptyFrame(source.tokens)) /\ (EndsWithFrame' <=> EndsWithFrame)
<1>1. Content' = Content /\ (Uncorrupted' <=> Uncorrupted) /\ (Compressed' <=> Compressed)
  BY DEF Content, Uncorrupted, Compressed
<1>2. WholeRecords' = WholeRecords
  BY <1>1 DEF WholeRecords
<1>3. EndsWithFrame' <=> EndsWithFrame
  BY <1>1 DEF EndsWithFrame
<1>4. HeaderInFrame' <=> HeaderInFrame
  BY <1>1 DEF HeaderInFrame
<1>5. Readable' = Readable
  BY <1>1, <1>4 DEF Readable, NearCapacity, TooNew
<1>6. (EndsWithFrame /\ Uncorrupted)' = (EndsWithFrame /\ Uncorrupted)
  BY <1>1, <1>3
<1>7. Cardinality(WholeRecords)' = Cardinality(WholeRecords)
  BY <1>2
<1>8. EmptyFrame(source.tokens)' <=> EmptyFrame(source.tokens)
  OBVIOUS
<1> QED
  BY <1>3, <1>5, <1>6, <1>7, <1>8

\* Where the stream is.
LEMMA PhaseFacts ==
  /\ pc = "failed" => Phase = "failed"
  /\ pc # "failed" /\ ended /\ ~EmptyFrame(source.tokens) => Phase = "ended"
  /\ pc # "failed" /\ ~(ended /\ ~EmptyFrame(source.tokens)) => Phase = IF metadata = 0 THEN "opened" ELSE "records"
  BY DEF Phase

\* So after a step.
LEMMA PhaseAfter ==
  /\ pc' = "failed" => Phase' = "failed"
  /\ pc' # "failed" /\ ended' /\ ~EmptyFrame(source'.tokens) => Phase' = "ended"
  /\ pc' # "failed" /\ ~(ended' /\ ~EmptyFrame(source'.tokens)) => Phase' = IF metadata' = 0 THEN "opened" ELSE "records"
  BY DEF Phase

\* The records handed over are the first of the input.
Given == [i \in 1..Len(delivered) |-> delivered[i].rec]
GivenInv == Len(delivered) \in Nat /\ Given = [i \in 1..Len(delivered) |-> i]

\* They are in every state.
LEMMA GivenFacts ==
  ASSUME IInv
  PROVE  GivenInv
<1>1. delivered \in Seq([rec : Nat, layout : Nat])
  BY DEF IInv, VersionInv
<1>2. \A i \in 1..Len(delivered) : delivered[i].rec = i
  <2> SUFFICES ASSUME NEW i \in 1..Len(delivered) PROVE delivered[i].rec = i
    OBVIOUS
  <2>1. delivered[i] = [rec |-> i, layout |-> Layout(Records[i].rtype, metadata)]
    BY DEF IInv, VersionInv
  <2> QED
    BY <2>1
<1> QED
  BY <1>1, <1>2 DEF GivenInv, Given

\* A step that leaves the records and the phase as they are.
LEMMA StreamStutters ==
  ASSUME UNCHANGED <<source, policy, capacity, delivered>>, Phase' = Phase
  PROVE  UNCHANGED Stream!vars
<1>1. Given' = Given
  BY DEF Given
<1> QED
  BY <1>1, SameInput DEF Stream!vars, Given

\* A step of the stream, on an input that stays the same.
LEMMA StreamSteps ==
  ASSUME UNCHANGED <<source, policy, capacity>>, Stream!GiveMetadata \/ Stream!GiveRecord \/ Stream!End \/ Stream!Fail
  PROVE  Stream!Next
  BY SameInput DEF Stream!Next

\* An exception is a stream that fails.
LEMMA ThrowFails ==
  ASSUME pc # "failed", pc' = "failed", Broken
  PROVE  Stream!Next
<1>1. Phase \in {"opened", "records"} /\ Phase' = "failed"
  BY PhaseFacts, PhaseAfter DEF Broken
<1>2. Given' = Given /\ source' = source /\ policy' = policy /\ capacity' = capacity
  BY DEF Broken, Given
<1>3. Stream!Fail
  BY <1>1, <1>2 DEF Stream!Fail, Broken, Given
<1> QED
  BY <1>2, <1>3, StreamSteps

\* A quiet step hands over the metadata, or nothing.
LEMMA QuietStream ==
  ASSUME Quiet
  PROVE  [Stream!Next]_(Stream!vars)
<1>1. source' = source /\ policy' = policy /\ capacity' = capacity /\ delivered' = delivered /\ ended' = ended /\ (pc' = "failed" <=> pc = "failed")
  BY DEF Quiet
<1>2. CASE metadata' = metadata
  <2>1. Phase' = Phase
    BY <1>1, <1>2 DEF Phase
  <2> QED
    BY <1>1, <2>1, StreamStutters
<1>3. CASE metadata = 0 /\ metadata' # 0 /\ ~ended /\ pc # "failed"
  <2>1. Phase = "opened" /\ Phase' = "records"
    BY <1>1, <1>3, PhaseFacts, PhaseAfter
  <2>2. Given' = Given
    BY <1>1 DEF Given
  <2>3. Stream!GiveMetadata
    BY <2>1, <2>2 DEF Stream!GiveMetadata, Given
  <2> QED
    BY <1>1, <2>3, StreamSteps
<1>4. CASE pc = "failed"
  <2>1. Phase' = Phase
    BY <1>1, <1>4, PhaseFacts, PhaseAfter
  <2> QED
    BY <1>1, <2>1, StreamStutters
<1> QED
  BY <1>2, <1>3, <1>4 DEF Quiet

\* nullptr is the end of the stream, unless a frame without content came before it.
LEMMA EndsStream ==
  ASSUME Ends, Counted', GivenInv
  PROVE  [Stream!Next]_(Stream!vars)
<1> DEFINE e == EmptyFrame(source.tokens)
<1>1. /\ source' = source /\ policy' = policy /\ capacity' = capacity /\ delivered' = delivered /\ metadata' = metadata /\ metadata # 0
      /\ ended' = TRUE /\ pc # "failed" /\ pc' # "failed"
  BY DEF Ends
<1>2. CASE e \/ ended
  <2>1. Phase' = Phase
    BY <1>1, <1>2 DEF Phase
  <2> QED
    BY <1>1, <2>1, StreamStutters
<1>3. CASE ~e /\ ~ended
  <2>1. Phase = "records" /\ Phase' = "ended"
    BY <1>1, <1>3, PhaseFacts, PhaseAfter
  <2>2. EndsWithFrame => Len(delivered) = Cardinality(WholeRecords)
    BY <1>1, <1>3, SameInput DEF Counted
  <2>3. Given' = Given
    BY <1>1 DEF Given
  <2>4. Len(Given) = Len(delivered)
    BY DEF GivenInv
  <2>5. Stream!End
    BY <2>1, <2>2, <2>3, <2>4 DEF Stream!End, Given
  <2> QED
    BY <1>1, <2>5, StreamSteps
<1> QED
  BY <1>2, <1>3

\* A record handed over is the next of the stream.
LEMMA GivesStream ==
  ASSUME IInv, SInv, DecodeRecord, Counted', GivenInv, GivenInv'
  PROVE  [Stream!Next]_(Stream!vars)
<1> DEFINE n == Len(delivered)
<1>1. /\ pc = "record" /\ HasRecord(buf) /\ UNCHANGED <<source, policy, capacity, metadata, ended>>
      /\ \E d : delivered' = Append(delivered, d)
      /\ pc' \in {"callback", "idle"}
  BY DEF DecodeRecord, constVars, metaVars
<1>2. metadata # 0
  BY <1>1 DEF IInv, StageInv, During
<1>3. ~(ended /\ ~EmptyFrame(source.tokens))
  BY <1>1 DEF SInv, EndInv, Drained
<1>4. Phase = "records" /\ Phase' = "records"
  BY <1>1, <1>2, <1>3, PhaseFacts, PhaseAfter
<1>5. Len(delivered') = n + 1 /\ n \in Nat
  <2>1. delivered \in Seq([rec : Nat, layout : Nat])
    BY DEF IInv, VersionInv
  <2> QED
    BY <1>1, <2>1
<1>6. Given = [i \in 1..n |-> i] /\ Given' = [i \in 1..(n + 1) |-> i]
  BY <1>5 DEF GivenInv
<1> HIDE DEF n
<1>7. Given' = Append(Given, n + 1) /\ Len(Given) = n
  BY <1>5, <1>6
<1>8. n < Cardinality(WholeRecords)
  <2>1. n + 1 <= Cardinality(WholeRecords)
    BY <1>1, <1>5, SameInput DEF Counted
  <2>2. Cardinality(WholeRecords) \in Nat
    BY WholeFinite
  <2> QED
    BY <1>5, <2>1, <2>2
<1>9. Stream!GiveRecord
  BY <1>4, <1>7, <1>8 DEF Stream!GiveRecord, Given
<1> QED
  BY <1>1, <1>9, StreamSteps

\* DbnDecoder hands over a record stream, compressed or not, however its input is cut into
\* reads, blocks and frames and whichever calls are made: metadata, each record once and in
\* order, nullptr only when none is left, an exception only for an input that is not readable.
THEOREM ImplementsRecordStreamHolds == Spec => ImplementsRecordStream
<1>1. Init => Stream!Init
  <2> SUFFICES ASSUME Init PROVE Stream!Init
    OBVIOUS
  <2>1. pc = "detect" /\ metadata = 0 /\ ended = FALSE /\ delivered = << >>
    BY DEF Init
  <2>2. Phase = "opened" /\ Given = << >>
    BY <2>1, PhaseFacts DEF Given
  <2>3. Readable \in BOOLEAN /\ (EndsWithFrame /\ Uncorrupted) \in BOOLEAN
    BY DEF Readable
  <2>4. Cardinality(WholeRecords) \in Nat
    BY WholeFinite
  <2> QED
    BY <2>2, <2>3, <2>4 DEF Stream!Init, Given
<1>2. IInv /\ SInv => Counted /\ GivenInv
  BY CountedFacts, GivenFacts
<1>3. /\ IInv /\ SInv /\ MetadataFits /\ [Next]_vars /\ Counted' /\ GivenInv /\ GivenInv'
      => [Stream!Next]_(Stream!vars)
  BY StepEffects, ThrowFails, QuietStream, EndsStream, GivesStream
<1> QED
  BY IInvHolds, SInvHolds, MetadataFitsHolds, <1>1, <1>2, <1>3, PTL DEF Spec, ImplementsRecordStream, Stream!Spec

============================================================================
