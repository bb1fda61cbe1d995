------------------------- MODULE Timeseries_proofs -------------------------
(***************************************************************************)
(* A call of TimeseriesGetRange, for every response, status and break,     *)
(* every cut of it into chunks, blocks and frames, and every size of       *)
(* records, metadata and buffer: what it returns or throws is right, and   *)
(* DbnBufferDecoder hands over a record stream.                            *)
(***************************************************************************)
EXTENDS Timeseries, StreamLemmas, FiniteSetTheorems

\* What the buffer and the tokens hold; no token is corrupt unless one of the response is.
Cells == [rec : Nat, off : Nat] \cup {Uninit}
Toks == {t \in TokensOf(Cells) : t.kind # "corrupt" \/ ~Uncorrupted}

\* The pieces of the records, and the first n records behind the header.
Parts == [r \in 1..Len(RecordLens) |-> PiecesOf(r)]
FrontOf(n) == FirstParts(Header, Parts, n)

-----------------------------------------------------------------------------
(* The response.                                                           *)

\* Cells and tokens.
LEMMA CellFacts ==
  /\ Cell(Cells) = Cells /\ Uninit \in Cells /\ Magic \in Cells
  /\ Toks \in SUBSET TokensOf(Cells) /\ Hostage \in Toks
<1>1. Cell(Cells) = Cells /\ Uninit \in Cells /\ Magic \in Cells
  BY DEF Cell, Cells, Magic
<1>2. << >> \in Seq(Cells)
  OBVIOUS
<1>3. Hostage \in Toks
  BY <1>2 DEF Toks, TokensOf, Hostage, Token, Kinds
<1> QED
  BY <1>1, <1>3 DEF Toks

\* A response is made of tokens of cells.
LEMMA ResponseFacts ==
  ASSUME response \in Responses
  PROVE  /\ ResponseOk(response) /\ response.tokens \in Seq(Toks)
         /\ response.error \in BOOLEAN /\ response.broken \in BOOLEAN /\ response.readable \in BOOLEAN
<1>1. ResponseOk(response)
  BY TimeseriesAssumption
<1> DEFINE ts == response.tokens
           Pieces == [rec : Nat, off : Nat]
<1>2. ts \in Seq(TokensOf(Pieces))
  BY <1>1 DEF ResponseOk
<1>3. \A q \in Seq(Pieces) : q \in Seq(Cells)
  <2>1. \A e \in Pieces : e \in Cells
    BY DEF Cells
  <2> HIDE DEF Pieces
  <2> QED
    BY <2>1
<1>4. ASSUME NEW i \in 1..Len(ts) PROVE ts[i] \in Toks
  <2> DEFINE t == ts[i]
  <2>1. t \in TokensOf(Pieces)
    BY <1>2, ElementOfSeq
  <2>2. /\ t = [kind |-> t.kind, out |-> t.out, last |-> t.last]
        /\ t.kind \in Kinds /\ t.out \in Seq(Pieces) /\ t.last \in BOOLEAN
    BY <2>1 DEF TokensOf
  <2>3. t.out \in Seq(Cells)
    BY <1>3, <2>2
  <2>4. t.kind # "corrupt" \/ ~Uncorrupted
    BY DEF Uncorrupted
  <2> HIDE DEF t
  <2>5. t \in TokensOf(Cells)
    BY <2>2, <2>3 DEF TokensOf
  <2>6. t \in Toks
    BY <2>4, <2>5 DEF Toks
  <2> QED
    BY <2>6 DEF t
<1>5. ts \in Seq(Toks)
  <2>1. Len(ts) \in Nat /\ ts \in [1..Len(ts) -> TokensOf(Pieces)]
    BY <1>2
  <2>2. ts \in [1..Len(ts) -> Toks]
    BY <1>4, <2>1
  <2> QED
    BY <2>1, <2>2, FunctionSeq
<1> QED
  BY <1>1, <1>5 DEF ResponseOk

\* The unread cells.
LEMMA UnreadCells ==
  ASSUME NEW b, BufferOf(b, Cells)
  PROVE  /\ Unread(b) \in Seq(Cells) /\ Len(Unread(b)) = ReadCapacity(b) /\ ReadCapacity(b) \in Nat
         /\ ReadCapacity(b) > 0 => Unread(b)[1] = b.mem[b.rd]
<1>1. /\ Unread(b) \in Seq(Cell(Cells)) /\ Len(Unread(b)) = b.wr - b.rd
      /\ \A i \in 1..(b.wr - b.rd) : Unread(b)[i] = b.mem[b.rd + i - 1]
  BY UnreadSeq
<1>2. b.wr - b.rd \in Nat /\ b.rd \in Nat
  BY DEF BufferOf
<1>3. b.wr - b.rd > 0 => 1 \in 1..(b.wr - b.rd) /\ b.rd + 1 - 1 = b.rd
  BY <1>2
<1> QED
  BY <1>1, <1>2, <1>3, CellFacts DEF ReadCapacity

\* The header and the pieces of each record.
LEMMA PartsFacts ==
  /\ Header \in Seq(Cells) /\ Len(Header) = HeaderLen /\ Header[1] = Magic /\ Header # << >>
  /\ HeaderLen \in Nat /\ PreludeLen \in 0..HeaderLen /\ HeaderLen = PreludeLen + MetadataLen /\ 1 \in 1..HeaderLen
  /\ Len(RecordLens) \in Nat /\ Parts \in Seq(Seq(Cells)) /\ Len(Parts) = Len(RecordLens)
<1>1. MetadataLen \in Nat /\ PreludeLen \in Nat /\ HeaderLen \in Nat /\ HeaderLen >= 1 /\ PreludeLen <= HeaderLen
  BY TimeseriesAssumption DEF HeaderLen
<1>2. Header \in [1..HeaderLen -> Cells] /\ Header[1] = Magic
  BY <1>1 DEF Header, Cells, Magic
<1>3. ASSUME NEW r \in 1..Len(RecordLens) PROVE PiecesOf(r) \in Seq(Cells)
  <2>1. RecordLens[r] \in Nat /\ r \in Nat
    BY TimeseriesAssumption
  <2>2. PiecesOf(r) \in [1..RecordLens[r] -> Cells]
    BY <2>1 DEF PiecesOf, Cells
  <2> QED
    BY <2>1, <2>2, FunctionSeq
<1>4. Len(RecordLens) \in Nat
  BY TimeseriesAssumption
<1>5. Parts \in [1..Len(RecordLens) -> Seq(Cells)]
  BY <1>3 DEF Parts
<1>6. Parts \in Seq(Seq(Cells)) /\ Len(Parts) = Len(RecordLens)
  BY <1>4, <1>5, FunctionSeq
<1>7. Header \in Seq(Cells) /\ Len(Header) = HeaderLen
  BY <1>1, <1>2, FunctionSeq
<1>8. Header # << >>
  BY <1>1, <1>7
<1> QED
  BY <1>1, <1>2, <1>4, <1>6, <1>7, <1>8 DEF HeaderLen

\* The pieces of a record.
LEMMA RecordFacts ==
  ASSUME NEW r \in 1..Len(RecordLens)
  PROVE  /\ r \in Nat /\ RecordLens[r] \in Nat \ {0} /\ RecordLens[r] <= MaxRecordLen
         /\ Parts[r] = PiecesOf(r) /\ PiecesOf(r) \in Seq(Cells) /\ Len(PiecesOf(r)) = RecordLens[r]
         /\ \A k \in 1..RecordLens[r] : PiecesOf(r)[k] = [rec |-> r, off |-> k]
<1>1. RecordLens[r] \in Nat \ {0} /\ RecordLens[r] <= MaxRecordLen /\ r \in Nat
  BY TimeseriesAssumption
<1>2. PiecesOf(r) \in [1..RecordLens[r] -> Cells]
  BY <1>1 DEF PiecesOf, Cells
<1>3. Parts[r] = PiecesOf(r)
  BY DEF Parts
<1>4. PiecesOf(r) \in Seq(Cells) /\ Len(PiecesOf(r)) = RecordLens[r]
  BY <1>1, <1>2, FunctionSeq
<1>5. \A k \in 1..RecordLens[r] : PiecesOf(r)[k] = [rec |-> r, off |-> k]
  BY DEF PiecesOf
<1> QED
  BY <1>1, <1>3, <1>4, <1>5

\* The front of a response grows by the pieces of the next record.
LEMMA FrontFacts ==
  ASSUME NEW n \in 0..Len(RecordLens)
  PROVE  /\ FrontOf(n) \in Seq(Cells) /\ FrontOf(0) = Header /\ FrontOf(n) # << >> /\ FrontOf(n)[1] = Magic
         /\ Whole = FrontOf(Len(RecordLens))
         /\ n < Len(RecordLens) => FrontOf(n + 1) = Cat(FrontOf(n), PiecesOf(n + 1))
<1>1. /\ Parts \in Seq(Seq(Cells)) /\ Len(Parts) = Len(RecordLens) /\ Len(RecordLens) \in Nat
      /\ Header \in Seq(Cells) /\ n \in 0..Len(Parts) /\ Header # << >> /\ 1 \in 1..Len(Header) /\ Header[1] = Magic
  BY PartsFacts
<1>2. SubSeq(Parts, 1, Len(Parts)) = Parts
  BY <1>1
<1>3. Whole = FrontOf(Len(RecordLens))
  BY <1>1, <1>2 DEF Whole, FrontOf, FirstParts, Parts, Cat
<1>4. n < Len(RecordLens) => Parts[n + 1] = PiecesOf(n + 1)
  BY <1>1, RecordFacts
<1>5. /\ FrontOf(n) \in Seq(Cells) /\ FrontOf(0) = Header
      /\ n < Len(Parts) => FrontOf(n + 1) = Cat(FrontOf(n), Parts[n + 1])
  BY <1>1, FrontGrows DEF FrontOf
<1>6. FrontOf(n) # << >> /\ FrontOf(n)[1] = Header[1]
  BY <1>1, FrontFirst DEF FrontOf
<1> QED
  BY <1>1, <1>3, <1>4, <1>5, <1>6

\* A response that begins with the magic is a part of the whole.
LEMMA ContentMatches ==
  ASSUME response \in Responses, NEW u \in Seq(Cells), NEW v \in Seq(Cells), Content = Cat(u, v),
         u # << >>, u[1] = Magic
  PROVE  Begins(Content, Whole) /\ Content # << >> /\ Content[1] = Magic
<1>1. Len(u) \in Nat /\ Len(u) # 0 /\ Len(v) \in Nat
  BY EmptySeq
<1>2. /\ Cat(u, v) \in Seq(Cells) /\ Len(Cat(u, v)) = Len(u) + Len(v)
      /\ \A i \in 1..Len(u) : Cat(u, v)[i] = u[i]
  BY ConcatParts DEF Cat
<1>3. Content # << >> /\ Content[1] = Magic
  BY <1>1, <1>2, EmptySeq
<1>4. ResponseOk(response)
  BY ResponseFacts
<1> QED
  BY <1>3, <1>4 DEF ResponseOk, Content, Begins

\* Its first pieces are the header's.
LEMMA HeaderPieces ==
  ASSUME response \in Responses, NEW u \in Seq(Cells), NEW v \in Seq(Cells), Content = Cat(u, v),
         u # << >>, u[1] = Magic, Len(u) <= HeaderLen
  PROVE  u = SubSeq(Header, 1, Len(u))
<1>1. /\ Header \in Seq(Cells) /\ Len(Header) = HeaderLen /\ Header # << >>
      /\ Parts \in Seq(Seq(Cells)) /\ Len(Parts) = Len(RecordLens) /\ 0 \in 0..Len(RecordLens)
  BY PartsFacts
<1>2. Begins(Cat(u, v), FirstParts(Header, Parts, Len(Parts)))
  BY <1>1, ContentMatches, FrontFacts DEF FrontOf
<1> QED
  BY <1>1, <1>2, HeaderPart

\* Behind its header and n records come the pieces of the next.
LEMMA RecordPieces ==
  ASSUME response \in Responses, NEW n \in 0..Len(RecordLens), NEW u \in Seq(Cells), NEW v \in Seq(Cells),
         Content = Cat(FrontOf(n), Cat(u, v)), u # << >>
  PROVE  /\ n < Len(RecordLens) /\ n + 1 \in 1..Len(RecordLens)
         /\ \A i \in 1..Len(u) : i <= RecordLens[n + 1] => u[i] = [rec |-> n + 1, off |-> i]
         /\ RecordLens[n + 1] <= Len(u) => SubSeq(u, 1, RecordLens[n + 1]) = PiecesOf(n + 1)
<1>1. /\ Header \in Seq(Cells) /\ Header # << >>
      /\ Parts \in Seq(Seq(Cells)) /\ Len(Parts) = Len(RecordLens) /\ n \in 0..Len(Parts)
  BY PartsFacts
<1>2. FrontOf(n) \in Seq(Cells) /\ FrontOf(n) # << >> /\ FrontOf(n)[1] = Magic
      /\ Whole = FrontOf(Len(RecordLens))
  BY FrontFacts
<1>3. Cat(u, v) \in Seq(Cells)
  BY ConcatParts DEF Cat
<1>4. Begins(Content, Whole)
  BY <1>2, <1>3, ContentMatches
<1>5. Begins(Cat(FirstParts(Header, Parts, n), Cat(u, v)), FirstParts(Header, Parts, Len(Parts)))
  BY <1>1, <1>2, <1>4 DEF FrontOf
<1>6. /\ n < Len(Parts)
      /\ \A i \in 1..Len(u) : i <= Len(Parts[n + 1]) => u[i] = Parts[n + 1][i]
      /\ Len(Parts[n + 1]) <= Len(u) => SubSeq(u, 1, Len(Parts[n + 1])) = Parts[n + 1]
  BY <1>1, <1>5, NextPart
<1>7. n + 1 \in 1..Len(RecordLens) /\ Len(RecordLens) \in Nat
  BY <1>1, <1>6, PartsFacts
<1>8. /\ Parts[n + 1] = PiecesOf(n + 1) /\ Len(PiecesOf(n + 1)) = RecordLens[n + 1]
      /\ RecordLens[n + 1] \in Nat
      /\ \A k \in 1..RecordLens[n + 1] : PiecesOf(n + 1)[k] = [rec |-> n + 1, off |-> k]
  BY <1>7, RecordFacts
<1>9. ASSUME NEW i \in 1..Len(u), i <= RecordLens[n + 1] PROVE u[i] = [rec |-> n + 1, off |-> i]
  <2>1. i \in 1..RecordLens[n + 1]
    BY <1>8, <1>9
  <2>2. u[i] = PiecesOf(n + 1)[i]
    BY <1>6, <1>8, <1>9
  <2> QED
    BY <1>8, <2>1, <2>2
<1>10. RecordLens[n + 1] <= Len(u) => SubSeq(u, 1, RecordLens[n + 1]) = PiecesOf(n + 1)
  BY <1>6, <1>8, Zenon
<1> QED
  BY <1>1, <1>6, <1>7, <1>9, <1>10

\* The first n records, whole and no others, are in the front of a response.
LastOf(r) == [rec |-> r, off |-> RecordLens[r]]
FrontHolds(n) ==
  /\ \A r \in 1..n : \E i \in 1..Len(FrontOf(n)) : FrontOf(n)[i] = LastOf(r)
  /\ \A i \in 1..Len(FrontOf(n)) : FrontOf(n)[i].rec \in 0..n

\* It holds them for every n.
LEMMA FrontRecords ==
  ASSUME NEW n \in 0..Len(RecordLens)
  PROVE  FrontHolds(n)
<1> DEFINE S == {k \in Nat : k <= Len(RecordLens) => FrontHolds(k)}
<1>1. Len(RecordLens) \in Nat /\ n \in Nat
  BY PartsFacts
<1>2. 0 \in S
  <2>0. 0 \in 0..Len(RecordLens)
    BY <1>1
  <2>1. FrontOf(0) = Header
    BY <2>0, FrontFacts
  <2>2. \A i \in 1..Len(Header) : Header[i].rec \in 0..0
    <3>1. Len(Header) = HeaderLen
      BY PartsFacts
    <3>2. \A i \in 1..HeaderLen : Header[i].rec = 0
      BY DEF Header
    <3> QED
      BY <3>1, <3>2
  <2>3. FrontHolds(0)
    BY <2>1, <2>2 DEF FrontHolds
  <2> QED
    BY <2>3
<1>3. ASSUME NEW k \in S PROVE k + 1 \in S
  <2> SUFFICES ASSUME k + 1 <= Len(RecordLens) PROVE FrontHolds(k + 1)
    BY <1>3
  <2>1. k \in Nat /\ k \in 0..Len(RecordLens) /\ k < Len(RecordLens) /\ k + 1 \in 1..Len(RecordLens)
    BY <1>1, <1>3
  <2>2. FrontHolds(k)
    BY <1>3, <2>1
  <2> DEFINE f == FrontOf(k)
             p == PiecesOf(k + 1)
             g == FrontOf(k + 1)
             m == RecordLens[k + 1]
  <2>3. f \in Seq(Cells) /\ g = Cat(f, p)
    BY <2>1, FrontFacts
  <2>4. /\ p \in Seq(Cells) /\ Len(p) = m /\ m \in Nat \ {0} /\ \A i \in 1..m : p[i] = [rec |-> k + 1, off |-> i]
    BY <2>1, RecordFacts
  <2>5. /\ \A r \in 1..k : \E i \in 1..Len(f) : f[i] = LastOf(r)
        /\ \A i \in 1..Len(f) : f[i].rec \in 0..k
    BY <2>2 DEF FrontHolds
  <2>6. LastOf(k + 1) = [rec |-> k + 1, off |-> m]
    BY DEF LastOf
  <2> HIDE DEF f, p, g, m
  <2>7. /\ Len(g) = Len(f) + Len(p) /\ Len(f) \in Nat
        /\ \A i \in 1..Len(f) : g[i] = f[i]
        /\ \A i \in 1..Len(p) : g[Len(f) + i] = p[i]
    <3>1. f \in Seq(Cells) /\ p \in Seq(Cells) /\ g = f \o p
      BY <2>3, <2>4 DEF Cat
    <3>2. Len(f) \in Nat
      BY <3>1
    <3> QED
      BY <3>1, <3>2, ConcatParts
  <2>8. ASSUME NEW r \in 1..(k + 1) PROVE \E i \in 1..Len(g) : g[i] = LastOf(r)
    <3>1. CASE r = k + 1
      <4>1. m \in 1..Len(p) /\ m \in 1..m /\ Len(f) + m \in 1..Len(g)
        BY <2>4, <2>7
      <4>2. g[Len(f) + m] = LastOf(r)
        BY <2>4, <2>6, <2>7, <3>1, <4>1
      <4> QED
        BY <4>1, <4>2
    <3>2. CASE r # k + 1
      <4>1. r \in 1..k
        BY <2>1, <3>2
      <4>2. PICK i \in 1..Len(f) : f[i] = LastOf(r)
        BY <2>5, <4>1
      <4>3. i \in 1..Len(g) /\ g[i] = LastOf(r)
        BY <2>4, <2>7, <4>2
      <4> QED
        BY <4>3
    <3> QED
      BY <3>1, <3>2
  <2>9. ASSUME NEW i \in 1..Len(g) PROVE g[i].rec \in 0..(k + 1)
    <3>1. CASE i <= Len(f)
      <4>1. i \in 1..Len(f)
        BY <2>7, <3>1
      <4>2. f[i].rec \in 0..k /\ g[i] = f[i]
        BY <2>5, <2>7, <4>1
      <4> QED
        BY <2>1, <4>2
    <3>2. CASE ~(i <= Len(f))
      <4> DEFINE j == i - Len(f)
      <4>1. j \in 1..Len(p) /\ j \in 1..m /\ Len(f) + j = i
        BY <2>4, <2>7, <3>2
      <4> HIDE DEF j
      <4>2. g[i] = [rec |-> k + 1, off |-> j]
        BY <2>4, <2>7, <4>1
      <4>3. k + 1 \in 0..(k + 1)
        BY <2>1
      <4> QED
        BY <4>2, <4>3
    <3> QED
      BY <3>1, <3>2
  <2> QED
    BY <2>8, <2>9 DEF FrontHolds, g
<1>4. S = Nat
  BY <1>2, <1>3, SetInduction
<1> QED
  BY <1>1, <1>4

\* The records that are whole can be counted.
LEMMA WholeFinite ==
  /\ IsFiniteSet(WholeRecords) /\ Cardinality(WholeRecords) \in Nat
  /\ \A n \in Nat : 1..n \in SUBSET WholeRecords => n <= Cardinality(WholeRecords)
  /\ \A n \in Nat : WholeRecords = 1..n => Cardinality(WholeRecords) = n
<1>1. \A n \in Nat : IsFiniteSet(1..n) /\ Cardinality(1..n) = n
  <2> SUFFICES ASSUME NEW n \in Nat PROVE IsFiniteSet(1..n) /\ Cardinality(1..n) = n
    OBVIOUS
  <2>1. IsFiniteSet(1..n) /\ Cardinality(1..n) = IF 1 > n THEN 0 ELSE n - 1 + 1
    <3>1. 1 \in Int /\ n \in Int
      OBVIOUS
    <3> QED
      BY <3>1, FS_Interval
  <2>2. (IF 1 > n THEN 0 ELSE n - 1 + 1) = n
    OBVIOUS
  <2> QED
    BY <2>1, <2>2
<1>2. WholeRecords \in SUBSET (1..Len(RecordLens)) /\ Len(RecordLens) \in Nat
  BY PartsFacts DEF WholeRecords
<1>3. IsFiniteSet(WholeRecords)
  BY <1>1, <1>2, FS_Subset
<1>4. Cardinality(WholeRecords) \in Nat
  BY <1>3, FS_CardinalityType
<1>5. ASSUME NEW n \in Nat, 1..n \in SUBSET WholeRecords PROVE n <= Cardinality(WholeRecords)
  <2>1. Cardinality(1..n) <= Cardinality(WholeRecords)
    BY <1>3, <1>5, FS_Subset
  <2> QED
    BY <1>1, <2>1
<1> QED
  BY <1>1, <1>3, <1>4, <1>5

\* The records a response is known to hold.
LEMMA WholeAtLeast ==
  ASSUME response \in Responses, NEW n \in 0..Len(RecordLens), NEW x \in Seq(Cells),
         Content = Cat(FrontOf(n), x)
  PROVE  n <= Cardinality(WholeRecords)
<1> DEFINE f == FrontOf(n)
<1>1. n \in Nat /\ f \in Seq(Cells) /\ Len(RecordLens) \in Nat
  BY FrontFacts, PartsFacts
<1>2. \A r \in 1..n : \E i \in 1..Len(f) : f[i] = LastOf(r)
  BY FrontRecords DEF FrontHolds
<1> HIDE DEF f
<1>3. Len(Content) = Len(f) + Len(x) /\ \A i \in 1..Len(f) : Content[i] = f[i]
  <2>1. Content = f \o x
    BY DEF f, Cat
  <2> QED
    BY <1>1, <2>1, ConcatParts
<1>4. ASSUME NEW r \in 1..n PROVE r \in WholeRecords
  <2>1. PICK i \in 1..Len(f) : f[i] = LastOf(r)
    BY <1>2
  <2>2. i \in 1..Len(Content) /\ Content[i] = LastOf(r)
    BY <1>1, <1>3, <2>1
  <2>3. r \in 1..Len(RecordLens)
    BY <1>1
  <2> QED
    BY <2>2, <2>3 DEF WholeRecords, LastOf
<1>5. 1..n \in SUBSET WholeRecords
  BY <1>4
<1> QED
  BY <1>1, <1>5, WholeFinite

\* Behind n records less than a record is left: there are n.
LEMMA WholeExactly ==
  ASSUME response \in Responses, NEW n \in 0..Len(RecordLens), NEW u \in Seq(Cells),
         Content = Cat(FrontOf(n), u), u # << >> => ~(RecordLens[u[1].rec] <= Len(u))
  PROVE  Cardinality(WholeRecords) = n
<1> DEFINE f == FrontOf(n)
           e == << >>
<1>1. n \in Nat /\ f \in Seq(Cells) /\ Len(f) \in Nat /\ Len(u) \in Nat /\ Len(RecordLens) \in Nat
  BY FrontFacts, PartsFacts
<1>2. \A i \in 1..Len(f) : f[i].rec \in 0..n
  BY FrontRecords DEF FrontHolds
<1>3. \A r \in 1..n : \E i \in 1..Len(f) : f[i] = LastOf(r)
  BY FrontRecords DEF FrontHolds
<1>4. Cat(u, e) = u /\ e \in Seq(Cells)
  BY DEF Cat
<1>5. u # << >> =>
        /\ n + 1 \in 1..Len(RecordLens)
        /\ \A i \in 1..Len(u) : i <= RecordLens[n + 1] => u[i] = [rec |-> n + 1, off |-> i]
  <2>1. Content = Cat(FrontOf(n), Cat(u, e))
    BY <1>4
  <2> HIDE DEF e
  <2> QED
    BY <1>4, <2>1, RecordPieces
<1> HIDE DEF f, e
<1>6. /\ Len(Content) = Len(f) + Len(u) /\ (\A i \in 1..Len(f) : Content[i] = f[i])
      /\ \A i \in 1..Len(u) : Content[Len(f) + i] = u[i]
  <2>1. Content = f \o u
    BY DEF f, Cat
  <2> QED
    BY <1>1, <2>1, ConcatParts
<1>7. ASSUME NEW r \in WholeRecords PROVE r \in 1..n
  <2>1. r \in 1..Len(RecordLens) /\ \E i \in 1..Len(Content) : Content[i] = LastOf(r)
    BY DEF WholeRecords, LastOf
  <2>2. PICK i \in 1..Len(Content) : Content[i] = LastOf(r)
    BY <2>1
  <2>3. LastOf(r).rec = r /\ LastOf(r).off = RecordLens[r]
    BY DEF LastOf
  <2>4. CASE i <= Len(f)
    <3>1. i \in 1..Len(f)
      BY <1>1, <2>4
    <3>2. f[i].rec = r
      BY <1>6, <2>2, <2>3, <3>1
    <3> QED
      BY <1>1, <1>2, <2>1, <3>1, <3>2
  <2>5. CASE ~(i <= Len(f))
    <3> DEFINE j == i - Len(f)
    <3>1. j \in 1..Len(u) /\ Len(f) + j = i /\ j \in Nat /\ 1 \in 1..Len(u)
      BY <1>1, <1>6, <2>5
    <3> HIDE DEF j
    <3>2. u # << >>
      BY <3>1
    <3>3. /\ n + 1 \in 1..Len(RecordLens)
          /\ \A k \in 1..Len(u) : k <= RecordLens[n + 1] => u[k] = [rec |-> n + 1, off |-> k]
      BY <1>5, <3>2
    <3>4. RecordLens[n + 1] \in Nat \ {0}
      BY <3>3, RecordFacts
    <3>5. u[1].rec = n + 1
      <4>1. 1 <= RecordLens[n + 1]
        BY <3>4
      <4>2. u[1] = [rec |-> n + 1, off |-> 1]
        BY <3>1, <3>3, <4>1
      <4> QED
        BY <4>2
    <3>6. Len(u) < RecordLens[n + 1]
      BY <1>1, <3>2, <3>4, <3>5
    <3>7. u[j] = [rec |-> n + 1, off |-> j]
      BY <1>1, <3>1, <3>3, <3>4, <3>6
    <3>8. u[j] = LastOf(r)
      BY <1>6, <2>2, <3>1
    <3>9. u[j].rec = n + 1 /\ u[j].off = j
      BY <3>7
    <3>10. r = n + 1 /\ RecordLens[r] = j
      BY <2>3, <3>8, <3>9
    <3> QED
      BY <1>1, <3>1, <3>4, <3>6, <3>10
  <2> QED
    BY <2>4, <2>5
<1>8. ASSUME NEW r \in 1..n PROVE r \in WholeRecords
  <2>1. PICK i \in 1..Len(f) : f[i] = LastOf(r)
    BY <1>3
  <2>2. i \in 1..Len(Content) /\ Content[i] = LastOf(r)
    BY <1>1, <1>6, <2>1
  <2>3. r \in 1..Len(RecordLens)
    BY <1>1
  <2> QED
    BY <2>2, <2>3 DEF WholeRecords, LastOf
<1>9. WholeRecords = 1..n
  BY <1>7, <1>8
<1> QED
  BY <1>1, <1>9, WholeFinite

-----------------------------------------------------------------------------
(* The invariant.                                                          *)

\* x is with the decoder; the rest of the response is in zstd_stream_, then in zstd_buffer_,
\* then to come, and zstd_stream_ is at a place of the response.
PlaceOf(x, z, q, s) ==
  /\ InPlace(x, z, q, s, Cells, Toks, Content)
  /\ \E p, g : TailOf(response.tokens, p, g, z.held, z.unread, Cat(Cat(z.unread, q), s))

\* The call, and the records handed over: the first of the response.
TypeInv ==
  /\ response \in Responses /\ target \in {"callbacks", "file"}
  /\ pc \in {"request", "receiving", "reading", "decoding", "opening", "ended"}
  /\ outcome \in {"none", "returned", "stopped", "threw", "callback threw", "store threw"}
  /\ (pc = "ended") <=> (outcome # "none")
  /\ state \in {"Init", "Metadata", "Records"}
  /\ given \in Seq(Nat) /\ Len(given) <= Len(RecordLens) /\ \A i \in 1..Len(given) : given[i] = i
  /\ state # "Records" => given = << >>

\* What is not for the decoder is kept for the exception, or written.
SinkInv ==
  /\ body \in Seq(Toks) /\ err_body \in Seq(Toks) /\ out_file \in [data : Seq(Toks), bad : BOOLEAN]
  /\ response.error \/ target = "file" =>
       state = "Init" /\ queue = << >> /\ pc \in {"request", "receiving", "opening", "ended"}
  /\ response.error => /\ Cat(err_body, body) = response.tokens /\ out_file.data = << >>
                       /\ outcome \in {"none", "threw"}
  /\ ~response.error /\ target = "file" =>
       out_file.bad \/ Cat(out_file.data, body) = response.tokens

\* A call that returns has had all of the response, and warns of what is left of it.
EndInv ==
  /\ outcome = "returned" \/ pc = "opening" => body = << >> /\ ~response.error /\ ~response.broken
  /\ outcome = "returned" /\ target = "callbacks" /\ ~warned => ~(ReadCapacity(buf) > 0)
  /\ pc = "opening" => target = "file"

\* There is room for what is decoded next, and outside of the decoder no record is whole.
BufferPart ==
  /\ BufferOf(buf, Cells) /\ buf.cap >= BufferSize /\ (state = "Metadata" => buf.cap >= MetadataLen)
  /\ pc # "decoding" => ReadCapacity(buf) < buf.cap /\ (state = "Records" => ~HasRecord)

PlacePart == PlaceOf(Cat(Handed, Unread(buf)), zstd, queue, body)

\* Process takes all of a chunk, unless a frame inside the response decompresses to nothing.
QueuePart ==
  pc \in {"request", "receiving", "ended"} /\ ~EmptyFrameInside => queue = << >> /\ zstd.unread = << >>

Decoding == target = "callbacks" /\ ~response.error /\ outcome \in {"none", "returned"}
DecodingInv == Decoding => BufferPart /\ PlacePart /\ QueuePart

IInv == TypeInv /\ SinkInv /\ EndInv /\ DecodingInv

\* What arrives is queued.
LEMMA PlaceReceive ==
  ASSUME NEW x, NEW z, NEW q, NEW a \in Seq(Toks), NEW s \in Seq(Toks), PlaceOf(x, z, q, Cat(a, s))
  PROVE  PlaceOf(x, z, Cat(q, a), s)
<1> DEFINE T == Toks
           B == Cells
           ts == response.tokens
<1>1. InPlace(x, z, q, Cat(a, s), B, T, Content)
  BY DEF PlaceOf
<1>2. PICK p, g : TailOf(ts, p, g, z.held, z.unread, Cat(Cat(z.unread, q), Cat(a, s)))
  BY DEF PlaceOf
<1>3. /\ x \in Seq(B) /\ q \in Seq(T) /\ StreamOf(z, B, T) /\ z.unread \in Seq(T) /\ z.held \in Seq(B)
      /\ Flow(x, z.held, Out(z.unread), Out(q), Out(Cat(a, s))) = Content
  BY <1>1 DEF InPlace, StreamOf
<1>4. T \in SUBSET TokensOf(B)
  BY CellFacts
<1>5. /\ \A u \in Seq(T) : Out(u) \in Seq(B)
      /\ \A u, v \in Seq(T) : Out(Cat(u, v)) = Cat(Out(u), Out(v))
  BY <1>4, TokenParts
<1>6. /\ \A u, v \in Seq(T) : Cat(u, v) \in Seq(T)
      /\ \A u, v, w \in Seq(T) : Cat(u, Cat(v, w)) = Cat(Cat(u, v), w)
  <2>1. \A u, v \in Seq(T) : Cat(u, v) \in Seq(T)
    BY CatFacts
  <2>2. \A u, v, w \in Seq(T) : Cat(u, Cat(v, w)) = Cat(Cat(u, v), w)
    BY CatFacts
  <2> QED
    BY <2>1, <2>2, Zenon
<1> HIDE DEF T, B, ts
<1>a. a \in Seq(T) /\ s \in Seq(T)
  BY DEF T
<1>7. Flow(x, z.held, Out(z.unread), Out(Cat(q, a)), Out(s)) = Content
  <2>1. Out(Cat(q, a)) = Cat(Out(q), Out(a)) /\ Out(Cat(a, s)) = Cat(Out(a), Out(s))
    BY <1>3, <1>5, <1>a
  <2>2. Out(q) \in Seq(B) /\ Out(a) \in Seq(B) /\ Out(s) \in Seq(B) /\ Out(z.unread) \in Seq(B)
    BY <1>3, <1>5, <1>a
  <2>3. Flow(x, z.held, Out(z.unread), Cat(Out(q), Out(a)), Out(s)) = Flow(x, z.held, Out(z.unread), Out(q), Cat(Out(a), Out(s)))
    BY <1>3, <2>2, FlowShifts
  <2> QED
    BY <1>3, <2>1, <2>3
<1>8. InPlace(x, z, Cat(q, a), s, B, T, Content)
  <2>1. Cat(q, a) \in Seq(T)
    BY <1>3, <1>6, <1>a
  <2> QED
    BY <1>3, <1>7, <1>a, <2>1 DEF InPlace
<1>9. Cat(Cat(z.unread, q), Cat(a, s)) = Cat(Cat(z.unread, Cat(q, a)), s)
  <2>1. Cat(z.unread, q) \in Seq(T)
    BY <1>3, <1>6
  <2>2. Cat(Cat(z.unread, q), Cat(a, s)) = Cat(Cat(Cat(z.unread, q), a), s)
    BY <1>6, <1>a, <2>1
  <2>3. Cat(Cat(z.unread, q), a) = Cat(z.unread, Cat(q, a))
    BY <1>3, <1>6, <1>a
  <2> QED
    BY <2>2, <2>3
<1>10. TailOf(ts, p, g, z.held, z.unread, Cat(Cat(z.unread, Cat(q, a)), s))
  BY <1>2, <1>9
<1> QED
  BY <1>8, <1>10 DEF PlaceOf, T, B, ts

\* What a round of ReadSome's loop shows of its result.
Reads(r, x, new, rest, s, room) ==
  /\ r.out \in Seq(Cells) /\ Len(r.out) <= room /\ (r.again => r.out = << >>) /\ (r.error => ~Uncorrupted)
  /\ ~r.error => PlaceOf(Cat(x, r.out), r.z, rest, s)
  /\ ~r.error /\ ~r.again /\ r.out = << >> /\ ~EmptyFrameInside => new = << >> /\ r.z.unread = << >>

\* It moves pieces to the decoder.
LEMMA PlaceRound ==
  ASSUME response \in Responses, NEW x, NEW z, NEW new \in Seq(Toks), NEW rest \in Seq(Toks), NEW s \in Seq(Toks),
         PlaceOf(x, z, Cat(new, rest), s), NEW room \in Nat, room # 0, NEW r, r = ReadSomeStep(z, new, room)
  PROVE  Reads(r, x, new, rest, s, room)
<1> DEFINE T == Toks
           B == Cells
           ts == response.tokens
           behind == Cat(rest, s)
<1>1. InPlace(x, z, Cat(new, rest), s, B, T, Content)
  BY DEF PlaceOf
<1>2. PICK p, g : TailOf(ts, p, g, z.held, z.unread, Cat(Cat(z.unread, Cat(new, rest)), s))
  BY DEF PlaceOf
<1>3. StreamOf(z, B, T) /\ z.unread \in Seq(T)
  BY <1>1 DEF InPlace, StreamOf
<1>4. T \in SUBSET TokensOf(B) /\ Hostage \in T /\ ts \in Seq(T)
  BY CellFacts, ResponseFacts
<1>5. (\A t \in T : t.kind # "corrupt") \/ ~Uncorrupted
  BY DEF Toks
<1>6. EmptyFrame(ts) <=> EmptyFrameInside
  BY DEF EmptyFrameInside
<1> HIDE DEF T, B, ts
<1>a. new \in Seq(T) /\ rest \in Seq(T) /\ s \in Seq(T)
  BY DEF T
<1>7. /\ InPlace(Cat(x, r.out), r.z, rest, s, B, T, Content)
      /\ r.out \in Seq(B) /\ Len(r.out) <= room
      /\ (\A t \in T : t.kind # "corrupt") => ~r.error
      /\ r.again => r.out = << >>
  BY <1>1, <1>4, <1>a, InPlaceRound, SMTT(30)
<1>8. /\ \A u, v \in Seq(T) : Cat(u, v) \in Seq(T)
      /\ \A u, v, w \in Seq(T) : Cat(u, Cat(v, w)) = Cat(Cat(u, v), w)
  <2>1. \A u, v \in Seq(T) : Cat(u, v) \in Seq(T)
    BY CatFacts
  <2>2. \A u, v, w \in Seq(T) : Cat(u, Cat(v, w)) = Cat(Cat(u, v), w)
    BY CatFacts
  <2> QED
    BY <2>1, <2>2, Zenon
<1>9. behind \in Seq(T)
  BY <1>8, <1>a
<1>10. Cat(Cat(z.unread, Cat(new, rest)), s) = Cat(Cat(z.unread, new), behind)
  <2>1. Cat(z.unread, new) \in Seq(T)
    BY <1>3, <1>8, <1>a
  <2>2. Cat(z.unread, Cat(new, rest)) = Cat(Cat(z.unread, new), rest)
    BY <1>3, <1>8, <1>a
  <2>3. Cat(Cat(Cat(z.unread, new), rest), s) = Cat(Cat(z.unread, new), Cat(rest, s))
    BY <1>8, <1>a, <2>1
  <2> QED
    BY <2>2, <2>3
<1> HIDE DEF behind
<1>11. TailOf(ts, p, g, z.held, z.unread, Cat(Cat(z.unread, new), behind))
  BY <1>2, <1>10
<1>12. ~r.error => TakesAll(r, z, new, behind, ts, p, g)
  BY <1>3, <1>4, <1>9, <1>11, <1>a, NothingRead
<1>13. ASSUME ~r.error PROVE PlaceOf(Cat(x, r.out), r.z, rest, s)
  <2>1. RoundsTo(r, z, new, behind, ts, p, g)
    BY <1>12, <1>13 DEF TakesAll
  <2>2. PICK pp, gg : TailOf(ts, pp, gg, r.z.held, r.z.unread, Cat(r.z.unread, behind))
    BY <2>1 DEF RoundsTo
  <2>3. r.z.unread \in Seq(T)
    BY <1>7 DEF InPlace, StreamOf
  <2>4. Cat(r.z.unread, behind) = Cat(Cat(r.z.unread, rest), s)
    BY <1>8, <1>a, <2>3 DEF behind
  <2>5. TailOf(ts, pp, gg, r.z.held, r.z.unread, Cat(Cat(r.z.unread, rest), s))
    BY <2>2, <2>4
  <2> QED
    BY <1>7, <2>5 DEF PlaceOf, T, B, ts
<1>14. ~r.error /\ ~r.again /\ r.out = << >> /\ ~EmptyFrameInside => new = << >> /\ r.z.unread = << >>
  BY <1>6, <1>12 DEF TakesAll
<1> QED
  BY <1>5, <1>7, <1>13, <1>14 DEF Reads, B

\* At the end of a response that ends with a frame the decoder has all of it.
LEMMA PlaceEnd ==
  ASSUME response \in Responses, EndsWithFrame, NEW x, NEW z, z.unread = << >>, PlaceOf(x, z, << >>, << >>)
  PROVE  x = Content
<1> DEFINE T == Toks
           B == Cells
           ts == response.tokens
           e == << >>
<1>1. InPlace(x, z, e, e, B, T, Content)
  BY DEF PlaceOf
<1>2. PICK p, g : TailOf(ts, p, g, z.held, z.unread, Cat(Cat(z.unread, e), e))
  BY DEF PlaceOf
<1>3. /\ x \in Seq(B) /\ z.held \in Seq(B)
      /\ Flow(x, z.held, Out(z.unread), Out(e), Out(e)) = Content
  BY <1>1 DEF InPlace, StreamOf
<1>4. T \in SUBSET TokensOf(B) /\ ts \in Seq(T) /\ Hostage \in T
  BY CellFacts, ResponseFacts
<1>5. Out(e) = e
  BY <1>4, TokenParts
<1>6. Len(ts) \in Nat /\ ts # e /\ ts[Len(ts)].last
  BY <1>4 DEF EndsWithFrame, Last
<1>7. Cat(Cat(z.unread, e), e) = e
  BY DEF Cat
<1> HIDE DEF T, B, ts
<1>8. /\ p \in 0..Len(ts) /\ g \in {<< >>, <<Hostage>>} /\ e = Cat(g, Behind(ts, p))
      /\ z.held # << >> => p # 0 /\ (ts[p].last => g # << >>)
  BY <1>2, <1>7 DEF TailOf
<1>9. Behind(ts, p) \in Seq(T) /\ Len(Behind(ts, p)) = Len(ts) - p
  BY <1>4, <1>8, TakeDrop DEF Behind
<1>10. g \in Seq(T)
  <2>1. << >> \in Seq(T) /\ <<Hostage>> \in Seq(T)
    BY <1>4
  <2> QED
    BY <1>8, <2>1
<1>11. Len(g) = 0 /\ Len(Behind(ts, p)) = 0
  <2>0. \A a, b \in Seq(T) : Len(a \o b) = Len(a) + Len(b) /\ Len(a) \in Nat /\ Len(b) \in Nat
    OBVIOUS
  <2>1. Len(g \o Behind(ts, p)) = Len(g) + Len(Behind(ts, p)) /\ Len(g) \in Nat /\ Len(Behind(ts, p)) \in Nat
    BY <1>9, <1>10, <2>0, Zenon
  <2>2. Len(g \o Behind(ts, p)) = 0
    <3>1. g \o Behind(ts, p) = e /\ Len(e) = 0
      BY <1>8 DEF Cat
    <3> QED
      BY <3>1, Zenon
  <2>3. \A a, b, c \in Nat : c = a + b /\ c = 0 => a = 0 /\ b = 0
    OBVIOUS
  <2> QED
    BY <2>1, <2>2, <2>3
<1>12. g = << >> /\ p = Len(ts)
  BY <1>6, <1>8, <1>9, <1>10, <1>11, EmptySeq
<1>13. z.held = e
  BY <1>6, <1>8, <1>12
<1>14. Flow(x, e, e, e, e) = Content
  BY <1>3, <1>5, <1>13
<1> QED
  BY <1>3, <1>14 DEF Flow, Cat

\* The decoder has the first pieces of the response.
LEMMA PlaceFirst ==
  ASSUME NEW x, NEW z, NEW q, NEW s, PlaceOf(x, z, q, s)
  PROVE  x \in Seq(Cells) /\ \E v \in Seq(Cells) : Content = Cat(x, v)
<1>1. InPlace(x, z, q, s, Cells, Toks, Content)
  BY DEF PlaceOf
<1>2. x \in Seq(Cells)
  BY <1>1 DEF InPlace
<1> QED
  BY <1>1, <1>2, CellFacts, ReaderFirst

\* The pieces of the first records make the front of the response.
LEMMA GivenFront ==
  ASSUME NEW d \in Seq(Nat), Len(d) <= Len(RecordLens), \A i \in 1..Len(d) : d[i] = i
  PROVE  /\ Header \o FlattenSeq([i \in 1..Len(d) |-> PiecesOf(d[i])]) = FrontOf(Len(d))
         /\ Len(d) \in 0..Len(RecordLens)
<1> DEFINE n == Len(d)
           h == [i \in 1..n |-> PiecesOf(d[i])]
           p == SubSeq(Parts, 1, n)
<1>1. n \in 0..Len(RecordLens) /\ Len(RecordLens) \in Nat /\ n \in Nat
  BY PartsFacts
<1>2. \A i \in 1..n : i \in 1..Len(RecordLens) /\ d[i] = i
  BY <1>1
<1>3. p \in Seq(Seq(Cells)) /\ Len(p) = n /\ \A i \in 1..n : p[i] = Parts[i]
  BY <1>1, PartsFacts, TakeDrop
<1>4. \A r \in 1..Len(RecordLens) : Parts[r] = PiecesOf(r) /\ PiecesOf(r) \in Seq(Cells)
  BY RecordFacts
<1>5. h \in [1..n -> Seq(Cells)]
  BY <1>2, <1>4
<1>6. h \in Seq(Seq(Cells)) /\ Len(h) = n
  BY <1>1, <1>5, FunctionSeq
<1>7. \A i \in 1..n : h[i] = p[i]
  BY <1>2, <1>3, <1>4
<1>8. h = p
  <2> HIDE DEF h, p
  <2> QED
    BY <1>3, <1>6, <1>7, SeqEqual
<1> QED
  BY <1>1, <1>8 DEF FrontOf, FirstParts, Cat

\* What has been handed over.
LEMMA HandedFacts ==
  ASSUME TypeInv
  PROVE  /\ Handed \in Seq(Cells) /\ Len(given) \in 0..Len(RecordLens)
         /\ state = "Init" => Handed = << >>
         /\ state = "Metadata" => Handed = SubSeq(Header, 1, PreludeLen)
         /\ state = "Records" => Handed = FrontOf(Len(given))
<1>1. /\ state \in {"Init", "Metadata", "Records"}
      /\ given \in Seq(Nat) /\ Len(given) <= Len(RecordLens) /\ \A i \in 1..Len(given) : given[i] = i
  BY DEF TypeInv
<1>2. /\ Header \o FlattenSeq([i \in 1..Len(given) |-> PiecesOf(given[i])]) = FrontOf(Len(given))
      /\ Len(given) \in 0..Len(RecordLens)
  BY <1>1, GivenFront
<1>3. state = "Init" => Handed = << >>
  BY DEF Handed
<1>4. state = "Metadata" => Handed = SubSeq(Header, 1, PreludeLen)
  BY DEF Handed
<1>5. state = "Records" => Handed = FrontOf(Len(given))
  BY <1>2 DEF Handed
<1>6. << >> \in Seq(Cells) /\ SubSeq(Header, 1, PreludeLen) \in Seq(Cells)
  BY PartsFacts, TakeDrop
<1>7. FrontOf(Len(given)) \in Seq(Cells)
  BY <1>2, FrontFacts
<1> QED
  BY <1>1, <1>2, <1>3, <1>4, <1>5, <1>6, <1>7

\* What the decoder has, and the rest of the response.
LEMMA DecodingFacts ==
  ASSUME IInv, Decoding
  PROVE  /\ response \in Responses /\ BufferOf(buf, Cells) /\ Handed \in Seq(Cells) /\ Unread(buf) \in Seq(Cells)
         /\ PlaceOf(Cat(Handed, Unread(buf)), zstd, queue, body)
         /\ \E v \in Seq(Cells) : Content = Cat(Handed, Cat(Unread(buf), v))
<1>1. response \in Responses /\ BufferOf(buf, Cells) /\ PlaceOf(Cat(Handed, Unread(buf)), zstd, queue, body)
  BY DEF IInv, TypeInv, DecodingInv, BufferPart, PlacePart
<1>2. Handed \in Seq(Cells) /\ Unread(buf) \in Seq(Cells)
  BY <1>1, HandedFacts, UnreadCells DEF IInv
<1>3. PICK v \in Seq(Cells) : Content = Cat(Cat(Handed, Unread(buf)), v)
  BY <1>1, PlaceFirst
<1>4. Cat(Cat(Handed, Unread(buf)), v) = Cat(Handed, Cat(Unread(buf), v))
  BY <1>2, CatFacts
<1> QED
  BY <1>1, <1>2, <1>3, <1>4

\* A decoder that hands over what is at the front of its buffer has handed over more.
LEMMA HandsOver ==
  ASSUME NEW h \in Seq(Cells), NEW u \in Seq(Cells), NEW k \in 0..Len(u),
         NEW z, NEW q, NEW s, PlaceOf(Cat(h, u), z, q, s), NEW hh, hh = Cat(h, SubSeq(u, 1, k))
  PROVE  PlaceOf(Cat(hh, SubSeq(u, k + 1, Len(u))), z, q, s)
<1> DEFINE a == SubSeq(u, 1, k)
           b == SubSeq(u, k + 1, Len(u))
<1>1. a \in Seq(Cells) /\ b \in Seq(Cells) /\ Cat(a, b) = u
  BY TakeDrop, Rejoined DEF Cat
<1> HIDE DEF a, b
<1>2. Cat(Cat(h, a), b) = Cat(h, Cat(a, b))
  BY <1>1, CatFacts
<1>3. Cat(hh, b) = Cat(h, u)
  BY <1>1, <1>2 DEF a
<1>4. PlaceOf(Cat(hh, b), z, q, s)
  BY <1>3
<1> QED
  BY <1>4 DEF b

\* What a step has shown of the pieces it leaves holds after it.
LEMMA PlacePrime ==
  ASSUME UNCHANGED response, PlaceOf(Cat(Handed', Unread(buf')), zstd', queue', body')
  PROVE  PlacePart'
BY DEF PlacePart, PlaceOf, Toks, Uncorrupted, Content

-----------------------------------------------------------------------------
(* The steps.                                                              *)

\* Before the first byte all is to come.
LEMMA InitStep ==
  ASSUME Init
  PROVE  IInv
<1> DEFINE e == << >>
           b == NewBuffer(BufferSize)
           ts == response.tokens
<1>1. /\ response \in Responses /\ target \in {"callbacks", "file"} /\ body = ts
      /\ pc = "request" /\ err_body = e /\ queue = e /\ zstd = NewZstd(e) /\ buf = b /\ state = "Init"
      /\ out_file = [data |-> e, bad |-> FALSE] /\ outcome = "none" /\ given = e
  BY DEF Init
<1>2. BufferSize \in Nat /\ BufferSize # 0 /\ Len(RecordLens) \in Nat
  BY TimeseriesAssumption
<1>3. BufferOf(b, Cells) /\ b.cap = BufferSize /\ b.rd = 0 /\ b.wr = 0
  BY <1>2, CellFacts DEF BufferOf, NewBuffer, Cell
<1> HIDE DEF b
<1>4. TypeInv
  BY <1>1, <1>2 DEF TypeInv
<1>5. ts \in Seq(Toks) /\ e \in Seq(Toks) /\ e \in Seq(Cells) /\ Cat(e, ts) = ts /\ Out(e) = e /\ Content \in Seq(Cells)
  <2>1. ts \in Seq(Toks) /\ e \in Seq(Toks) /\ e \in Seq(Cells)
    BY <1>1, ResponseFacts
  <2> QED
    BY <2>1, CatEmpty, CellFacts, TokenParts DEF Content
<1>6. SinkInv
  BY <1>1, <1>5 DEF SinkInv
<1>7. EndInv
  BY <1>1 DEF EndInv
<1>8. BufferPart
  <2>1. ReadCapacity(buf) < buf.cap
    BY <1>1, <1>2, <1>3 DEF ReadCapacity
  <2> QED
    BY <1>1, <1>2, <1>3, <2>1 DEF BufferPart
<1>9. zstd.held = e /\ zstd.unread = e
  BY <1>1 DEF NewZstd
<1>10. QueuePart
  BY <1>1, <1>9 DEF QueuePart
<1>11. Cat(Handed, Unread(buf)) = e
  <2>1. Unread(buf) = e
    BY <1>1, <1>3, NoneUnread
  <2>2. Handed = e
    BY <1>1 DEF Handed
  <2> QED
    BY <2>1, <2>2 DEF Cat
<1>12. InPlace(e, zstd, queue, body, Cells, Toks, Content)
  <2>1. Out(body) = Content
    BY <1>1 DEF Content
  <2>2. Flow(e, e, e, e, Content) = Content
    BY <1>5 DEF Flow, Cat
  <2>3. Flow(e, zstd.held, Out(zstd.unread), Out(queue), Out(body)) = Content
    BY <1>1, <1>5, <1>9, <2>1, <2>2
  <2> QED
    BY <1>1, <1>5, <1>9, <2>3 DEF InPlace, StreamOf
<1>13. TailOf(ts, 0, e, zstd.held, zstd.unread, Cat(Cat(zstd.unread, queue), body))
  <2>1. Cat(Cat(zstd.unread, queue), body) = ts
    <3>1. Cat(e, e) = e
      BY DEF Cat
    <3> QED
      BY <1>1, <1>5, <1>9, <3>1
  <2>2. Behind(ts, 0) = ts
    BY <1>5 DEF Behind
  <2>3. 0 \in 0..Len(ts)
    BY <1>5
  <2> QED
    BY <1>5, <1>9, <2>1, <2>2, <2>3 DEF TailOf
<1>14. PlacePart
  BY <1>11, <1>12, <1>13 DEF PlacePart, PlaceOf
<1> QED
  BY <1>4, <1>6, <1>7, <1>8, <1>10, <1>14 DEF IInv, DecodingInv

\* The response is the same in every state.
LEMMA SameResponse ==
  ASSUME UNCHANGED response
  PROVE  Toks' = Toks /\ Content' = Content /\ EmptyFrameInside' = EmptyFrameInside
         /\ (Uncorrupted' <=> Uncorrupted)
BY DEF Toks, Uncorrupted, Content, EmptyFrameInside

\* Inside of Process there is a decoder.
LEMMA InsideFacts ==
  ASSUME IInv, pc \in {"reading", "decoding"}
  PROVE  Decoding /\ outcome = "none" /\ ~response.error /\ target = "callbacks" /\ response \in Responses
<1>1. outcome = "none" /\ response \in Responses /\ target \in {"callbacks", "file"}
  BY DEF IInv, TypeInv
<1>2. ~(response.error \/ target = "file")
  BY DEF IInv, SinkInv
<1> QED
  BY <1>1, <1>2 DEF Decoding

\* Process leaves what is not for the decoder alone.
LEMMA SinkInside ==
  ASSUME IInv, pc \in {"reading", "decoding"}, UNCHANGED <<response, target, body, err_body, out_file>>
  PROVE  SinkInv'
<1>1. ~response.error /\ target = "callbacks"
  BY InsideFacts
<1>2. body \in Seq(Toks) /\ err_body \in Seq(Toks) /\ out_file \in [data : Seq(Toks), bad : BOOLEAN]
  BY DEF IInv, SinkInv
<1>3. body' \in Seq(Toks') /\ err_body' \in Seq(Toks') /\ out_file' \in [data : Seq(Toks'), bad : BOOLEAN]
  BY <1>2, SameResponse
<1>4. ~response'.error /\ target' = "callbacks"
  BY <1>1
<1> QED
  BY <1>3, <1>4 DEF SinkInv

\* Process ends with an exception, or the callback stops it.
LEMMA EndsInside ==
  ASSUME IInv, pc \in {"reading", "decoding"}, UNCHANGED <<response, target, body, err_body, out_file>>,
         TypeInv', outcome' \in {"stopped", "threw", "callback threw"}
  PROVE  IInv'
<1>1. SinkInv'
  BY SinkInside
<1>2. EndInv'
  BY DEF EndInv, TypeInv
<1>3. DecodingInv'
  BY DEF DecodingInv, Decoding
<1> QED
  BY <1>1, <1>2, <1>3 DEF IInv

\* Process goes on, or returns Continue.
LEMMA StaysInside ==
  ASSUME IInv, pc \in {"reading", "decoding"}, UNCHANGED <<response, target, body, err_body, out_file, outcome>>,
         TypeInv', BufferPart', QueuePart', pc' # "opening",
         PlaceOf(Cat(Handed', Unread(buf')), zstd', queue', body')
  PROVE  IInv'
<1>1. SinkInv'
  BY SinkInside
<1>2. outcome' = "none"
  BY InsideFacts
<1>3. EndInv'
  BY <1>2 DEF EndInv
<1>4. PlacePart'
  BY PlacePrime
<1>5. DecodingInv'
  BY <1>4 DEF DecodingInv
<1> QED
  BY <1>1, <1>3, <1>5 DEF IInv

\* Process reads on: there is room.
LEMMA ReadOnStep ==
  ASSUME IInv, pc = "decoding", ReadOn, UNCHANGED <<response, target, body, err_body, out_file, queue, zstd>>,
         ReadCapacity(buf) < buf.cap, state = "Records" => ~HasRecord
  PROVE  IInv'
<1>1. pc' = "reading" /\ UNCHANGED <<buf, state, given, outcome>>
  BY DEF ReadOn
<1>2. TypeInv'
  BY <1>1 DEF IInv, TypeInv
<1>3. Decoding /\ BufferPart /\ PlacePart
  BY InsideFacts DEF IInv, DecodingInv
<1>4. HasRecord' = HasRecord
  BY <1>1 DEF HasRecord, BytesNeeded
<1>5. BufferPart'
  BY <1>1, <1>3, <1>4 DEF BufferPart
<1>6. QueuePart'
  BY <1>1 DEF QueuePart
<1>7. Handed' = Handed
  BY <1>1 DEF Handed
<1>8. PlaceOf(Cat(Handed', Unread(buf')), zstd', queue', body')
  BY <1>1, <1>3, <1>7 DEF PlacePart
<1> QED
  BY <1>1, <1>2, <1>5, <1>6, <1>8, StaysInside

\* The request is sent, or is not.
LEMMA SendStep ==
  ASSUME IInv, Send
  PROVE  IInv'
<1>1. /\ pc = "request" /\ UNCHANGED <<response, target, body, err_body, queue, zstd, buf, state, given, out_file, warned>>
      /\ \/ pc' = "receiving" /\ UNCHANGED outcome
         \/ pc' = "ended" /\ outcome' = "threw"
  BY DEF Send, EndCall, constVars, decoderVars
<1>2. outcome = "none"
  BY <1>1 DEF IInv, TypeInv
<1>3. TypeInv'
  BY <1>1 DEF IInv, TypeInv
<1>4. SinkInv'
  BY <1>1, <1>2, SameResponse DEF IInv, SinkInv
<1>5. EndInv'
  BY <1>1, <1>2 DEF EndInv
<1>6. ASSUME Decoding' PROVE BufferPart' /\ PlacePart' /\ QueuePart'
  <2>1. pc' = "receiving" /\ UNCHANGED outcome
    BY <1>1, <1>6 DEF Decoding
  <2>2. Decoding
    BY <1>1, <1>6, <2>1 DEF Decoding
  <2>3. BufferPart /\ PlacePart /\ QueuePart
    BY <2>2 DEF IInv, DecodingInv
  <2>4. HasRecord' = HasRecord /\ Handed' = Handed
    BY <1>1 DEF HasRecord, BytesNeeded, Handed
  <2>5. BufferPart'
    BY <1>1, <2>1, <2>3, <2>4 DEF BufferPart
  <2>6. QueuePart'
    BY <1>1, <2>1, <2>3, SameResponse DEF QueuePart
  <2>7. PlaceOf(Cat(Handed', Unread(buf')), zstd', queue', body')
    BY <1>1, <2>3, <2>4 DEF PlacePart
  <2> QED
    BY <1>1, <2>5, <2>6, <2>7, PlacePrime
<1> QED
  BY <1>3, <1>4, <1>5, <1>6 DEF IInv, DecodingInv

\* A chunk arrives.
LEMMA ReceiveStep ==
  ASSUME IInv, NEW n \in 1..Len(body), Receive(n)
  PROVE  IInv'
<1> DEFINE a == SubSeq(body, 1, n)
           rest == SubSeq(body, n + 1, Len(body))
           T == Toks
<1>1. /\ pc = "receiving" /\ UNCHANGED <<response, target, outcome, warned>> /\ body' = rest
      /\ ReceiveError(n) \/ ReceiveContent(n) \/ WriteToFile(n)
  BY DEF Receive, constVars
<1>2. outcome = "none" /\ response \in Responses
  BY <1>1 DEF IInv, TypeInv
<1>3. body \in Seq(T) /\ err_body \in Seq(T) /\ out_file \in [data : Seq(T), bad : BOOLEAN]
  BY DEF IInv, SinkInv
<1>4. a \in Seq(T) /\ rest \in Seq(T) /\ body = Cat(a, rest)
  <2>1. n \in 0..Len(body)
    BY <1>3
  <2> QED
    BY <1>3, <2>1, TakeDrop, Rejoined DEF Cat
<1>5. T' = T
  BY <1>1, SameResponse
<1>6. EndInv'
  <2>1. pc' # "opening"
    BY <1>1 DEF ReceiveError, ReceiveContent, WriteToFile
  <2> QED
    BY <1>1, <1>2, <2>1 DEF EndInv
<1>7. Arrived(n) = a
  BY DEF Arrived
<1>8. /\ \A u, v \in Seq(T) : Cat(u, v) \in Seq(T)
      /\ \A u, v, w \in Seq(T) : Cat(u, Cat(v, w)) = Cat(Cat(u, v), w)
  <2>1. \A u, v \in Seq(T) : Cat(u, v) \in Seq(T)
    BY CatFacts
  <2>2. \A u, v, w \in Seq(T) : Cat(u, Cat(v, w)) = Cat(Cat(u, v), w)
    BY CatFacts
  <2> QED
    BY <2>1, <2>2, Zenon
<1> HIDE DEF a, rest, T
<1>9. CASE ReceiveError(n)
  <2>1. response.error /\ err_body' = Cat(err_body, a) /\ UNCHANGED <<pc, queue, zstd, buf, state, given, out_file>>
    BY <1>7, <1>9 DEF ReceiveError, IsErrorStatus, decoderVars, Cat
  <2>2. TypeInv'
    BY <1>1, <2>1 DEF IInv, TypeInv
  <2>3. err_body' \in Seq(T) /\ Cat(err_body', body') = response.tokens
    <3>1. Cat(err_body, body) = response.tokens
      BY <2>1 DEF IInv, SinkInv
    <3>2. Cat(err_body, Cat(a, rest)) = Cat(Cat(err_body, a), rest) /\ Cat(err_body, a) \in Seq(T)
      BY <1>3, <1>4, <1>8
    <3> QED
      BY <1>1, <1>4, <2>1, <3>1, <3>2
  <2>4. SinkInv'
    <3>1. body' \in Seq(T') /\ err_body' \in Seq(T') /\ out_file' \in [data : Seq(T'), bad : BOOLEAN]
      BY <1>1, <1>3, <1>4, <1>5, <2>1, <2>3
    <3>2. state = "Init" /\ queue = << >> /\ out_file.data = << >>
      BY <2>1 DEF IInv, SinkInv
    <3>3. state' = "Init" /\ queue' = << >> /\ pc' = "receiving" /\ out_file'.data = << >> /\ outcome' = "none"
      BY <1>1, <1>2, <2>1, <3>2
    <3> QED
      BY <1>1, <2>1, <2>3, <3>1, <3>3 DEF SinkInv, T
  <2>5. DecodingInv'
    BY <1>1, <2>1 DEF DecodingInv, Decoding
  <2> QED
    BY <1>6, <2>2, <2>4, <2>5 DEF IInv
<1>10. CASE ReceiveContent(n)
  <2>1. /\ ~response.error /\ target = "callbacks" /\ queue' = Cat(queue, a) /\ pc' = "reading"
        /\ UNCHANGED <<err_body, zstd, buf, state, given, out_file>>
    BY <1>7, <1>10 DEF ReceiveContent, IsErrorStatus, Cat
  <2>2. TypeInv'
    BY <1>1, <1>2, <2>1 DEF IInv, TypeInv
  <2>3. SinkInv'
    <3>1. body' \in Seq(T') /\ err_body' \in Seq(T') /\ out_file' \in [data : Seq(T'), bad : BOOLEAN]
      BY <1>1, <1>3, <1>4, <1>5, <2>1
    <3>2. ~response'.error /\ target' = "callbacks"
      BY <1>1, <2>1
    <3> QED
      BY <3>1, <3>2 DEF SinkInv, T
  <2>4. BufferPart /\ PlacePart
    BY <1>2, <2>1 DEF IInv, DecodingInv, Decoding
  <2>5. HasRecord' = HasRecord /\ Handed' = Handed
    BY <2>1 DEF HasRecord, BytesNeeded, Handed
  <2>6. BufferPart'
    BY <1>1, <2>1, <2>4, <2>5 DEF BufferPart
  <2>7. QueuePart'
    BY <2>1 DEF QueuePart
  <2>8. PlaceOf(Cat(Handed, Unread(buf)), zstd, queue, Cat(a, rest))
    BY <1>4, <2>4 DEF PlacePart
  <2>9. PlaceOf(Cat(Handed, Unread(buf)), zstd, Cat(queue, a), rest)
    <3>1. a \in Seq(Toks) /\ rest \in Seq(Toks)
      BY <1>4 DEF T
    <3> QED
      BY <2>8, <3>1, PlaceReceive
  <2>10. PlaceOf(Cat(Handed', Unread(buf')), zstd', queue', body')
    BY <1>1, <2>1, <2>5, <2>9
  <2>11. PlacePart'
    BY <1>1, <2>10, PlacePrime
  <2> QED
    BY <1>6, <2>2, <2>3, <2>6, <2>7, <2>11 DEF IInv, DecodingInv
<1>11. CASE WriteToFile(n)
  <2>1. /\ ~response.error /\ target = "file" /\ UNCHANGED <<pc, err_body, queue, zstd, buf, state, given>>
        /\ \/ ~out_file.bad /\ out_file' = [out_file EXCEPT !.data = Cat(@, a)]
           \/ out_file' = [out_file EXCEPT !.bad = TRUE]
    BY <1>7, <1>11 DEF WriteToFile, IsErrorStatus, decoderVars, Cat
  <2>2. TypeInv'
    BY <1>1, <2>1 DEF IInv, TypeInv
  <2>3. out_file.bad \/ Cat(out_file.data, body) = response.tokens
    BY <2>1 DEF IInv, SinkInv
  <2>4. out_file.data \in Seq(T) /\ Cat(out_file.data, a) \in Seq(T)
    BY <1>3, <1>4, <1>8
  <2>5. /\ out_file' \in [data : Seq(T), bad : BOOLEAN]
        /\ out_file'.bad \/ (out_file'.data = Cat(out_file.data, a) /\ ~out_file.bad)
    <3>1. CASE ~out_file.bad /\ out_file' = [out_file EXCEPT !.data = Cat(@, a)]
      BY <1>3, <2>4, <3>1
    <3>2. CASE out_file' = [out_file EXCEPT !.bad = TRUE]
      <4>1. \A f : \A S : f \in [data : S, bad : BOOLEAN] =>
              [f EXCEPT !.bad = TRUE] \in [data : S, bad : BOOLEAN] /\ [f EXCEPT !.bad = TRUE].bad
        OBVIOUS
      <4> QED
        BY <1>3, <3>2, <4>1, Zenon
    <3> QED
      BY <2>1, <3>1, <3>2
  <2>6. out_file'.bad \/ Cat(out_file'.data, body') = response.tokens
    <3>1. Cat(out_file.data, Cat(a, rest)) = Cat(Cat(out_file.data, a), rest)
      <4> DEFINE d == out_file.data
      <4>1. d \in Seq(T) /\ a \in Seq(T) /\ rest \in Seq(T)
        BY <1>4, <2>4
      <4> HIDE DEF d
      <4>2. Cat(d, Cat(a, rest)) = Cat(Cat(d, a), rest)
        BY <1>8, <4>1
      <4> QED
        BY <4>2 DEF d
    <3>2. CASE out_file'.data = Cat(out_file.data, a) /\ ~out_file.bad
      <4>1. Cat(out_file.data, body) = response.tokens
        BY <2>3, <3>2, Zenon
      <4> QED
        BY <1>1, <1>4, <3>1, <3>2, <4>1, Zenon
    <3> QED
      BY <2>5, <3>2, Zenon
  <2>7. SinkInv'
    <3>1. body' \in Seq(T') /\ err_body' \in Seq(T') /\ out_file' \in [data : Seq(T'), bad : BOOLEAN]
      <4>1. body' \in Seq(T) /\ err_body' \in Seq(T) /\ out_file' \in [data : Seq(T), bad : BOOLEAN]
        BY <1>1, <1>3, <1>4, <2>1, <2>5, Zenon
      <4> QED
        BY <1>5, <4>1, Zenon
    <3>2. state = "Init" /\ queue = << >>
      BY <2>1 DEF IInv, SinkInv
    <3>3. state' = "Init" /\ queue' = << >> /\ pc' = "receiving" /\ ~response'.error
      BY <1>1, <2>1, <3>2
    <3> QED
      BY <1>1, <2>6, <3>1, <3>3 DEF SinkInv, T
  <2>8. DecodingInv'
    BY <1>1, <2>1 DEF DecodingInv, Decoding
  <2> QED
    BY <1>6, <2>2, <2>7, <2>8 DEF IInv
<1> QED
  BY <1>1, <1>9, <1>10, <1>11

\* The response ends, and with it the call.
LEMMA ResponseEndsStep ==
  ASSUME IInv, ResponseEnds
  PROVE  IInv'
<1>1. /\ pc = "receiving" /\ body = << >>
      /\ UNCHANGED <<response, target, body, err_body, queue, zstd, buf, state, given, out_file>>
  BY DEF ResponseEnds, constVars, decoderVars
<1>2. outcome = "none" /\ response.error \in BOOLEAN /\ response.broken \in BOOLEAN
  BY <1>1, ResponseFacts DEF IInv, TypeInv
<1>3. /\ outcome' = "returned" \/ pc' = "opening" => ~response.error /\ ~response.broken
      /\ \/ pc' = "ended" /\ outcome' \in {"threw", "returned"}
         \/ pc' = "opening" /\ outcome' = "none" /\ target = "file"
      /\ outcome' = "returned" /\ target = "callbacks" /\ ~warned' => ~(ReadCapacity(buf) > 0)
  BY <1>2 DEF ResponseEnds, EndCall, CheckStatusAndStreamRes, IsErrorStatus
<1>4. TypeInv'
  BY <1>1, <1>3 DEF IInv, TypeInv
<1>5. SinkInv'
  <2>1. Toks' = Toks
    BY <1>1, SameResponse
  <2>2. SinkInv
    BY DEF IInv
  <2> QED
    BY <1>1, <1>3, <2>1, <2>2 DEF SinkInv
<1>6. EndInv'
  BY <1>1, <1>3 DEF EndInv
<1>7. ASSUME Decoding' PROVE BufferPart' /\ PlacePart' /\ QueuePart'
  <2>1. Decoding
    BY <1>1, <1>2, <1>7 DEF Decoding
  <2>2. BufferPart /\ PlacePart /\ QueuePart
    BY <2>1 DEF IInv, DecodingInv
  <2>3. HasRecord' = HasRecord /\ Handed' = Handed
    BY <1>1 DEF HasRecord, BytesNeeded, Handed
  <2>4. BufferPart'
    BY <1>1, <2>2, <2>3 DEF BufferPart
  <2>5. QueuePart'
    BY <1>1, <2>2, SameResponse DEF QueuePart
  <2>6. PlaceOf(Cat(Handed', Unread(buf')), zstd', queue', body')
    BY <1>1, <2>2, <2>3 DEF PlacePart
  <2> QED
    BY <1>1, <2>4, <2>5, <2>6, PlacePrime
<1> QED
  BY <1>4, <1>5, <1>6, <1>7 DEF IInv, DecodingInv

\* The store is opened on the file, or its constructor throws.
LEMMA OpenStoreStep ==
  ASSUME IInv, OpenStore
  PROVE  IInv' /\ outcome = "none" /\ outcome' \in {"returned", "store threw"} /\ state = "Init"
<1>1. /\ pc = "opening" /\ pc' = "ended" /\ outcome' \in {"returned", "store threw"}
      /\ UNCHANGED <<response, target, body, err_body, queue, zstd, buf, state, given, out_file, warned>>
  BY DEF OpenStore, EndCall, constVars, decoderVars
<1>2. outcome = "none" /\ target = "file" /\ body = << >> /\ ~response.error /\ ~response.broken
      /\ state = "Init"
  BY <1>1 DEF IInv, TypeInv, EndInv, SinkInv
<1>3. TypeInv'
  BY <1>1 DEF IInv, TypeInv
<1>4. SinkInv'
  <2>1. Toks' = Toks
    BY <1>1, SameResponse
  <2>2. SinkInv
    BY DEF IInv
  <2> QED
    BY <1>1, <1>2, <2>1, <2>2 DEF SinkInv
<1>5. EndInv' /\ ~Decoding'
  BY <1>1, <1>2 DEF EndInv, Decoding
<1> QED
  BY <1>1, <1>2, <1>3, <1>4, <1>5 DEF IInv, DecodingInv

\* A round of ReadSome's loop.
LEMMA RoundStep ==
  ASSUME IInv, ReadSome
  PROVE  IInv' /\ (outcome' = "threw" => ~Uncorrupted)
<1> DEFINE new == SubSeq(queue, 1, Shorter(1, Len(queue)))
           rest == SubSeq(queue, 2, Len(queue))
           x == Cat(Handed, Unread(buf))
           room == WriteCapacity(Shifted)
<1>1. /\ pc = "reading" /\ queue' = rest
      /\ UNCHANGED <<response, target, body, err_body, state, given, out_file, warned>>
  BY DEF ReadSome, constVars
<1>2. PICK r : /\ r = ReadSomeStep(zstd, new, room) /\ zstd' = r.z
               /\ \/ r.error /\ EndCall("threw") /\ UNCHANGED buf
                  \/ ~r.error /\ r.again /\ UNCHANGED <<buf, pc, outcome>>
                  \/ /\ ~r.error /\ ~r.again /\ buf' = Fill(Shifted, r.out)
                     /\ pc' = IF r.out = << >> THEN "receiving" ELSE "decoding"
                     /\ UNCHANGED outcome
  BY DEF ReadSome
<1>3. Decoding /\ outcome = "none" /\ response \in Responses
  BY <1>1, InsideFacts
<1>4. /\ BufferOf(buf, Cells) /\ Handed \in Seq(Cells) /\ Unread(buf) \in Seq(Cells)
      /\ PlaceOf(x, zstd, queue, body)
  BY <1>3, DecodingFacts
<1>5. /\ buf.cap >= BufferSize /\ (state = "Metadata" => buf.cap >= MetadataLen)
      /\ ReadCapacity(buf) < buf.cap /\ (state = "Records" => ~HasRecord)
  BY <1>1, <1>3 DEF IInv, DecodingInv, BufferPart
<1>6. queue \in Seq(Toks) /\ body \in Seq(Toks)
  BY <1>4 DEF PlaceOf, InPlace
<1>7. new \in Seq(Toks) /\ rest \in Seq(Toks) /\ queue = Cat(new, rest) /\ (new = << >> => rest = << >>)
  <2>1. CASE queue = << >>
    <3>1. new = << >> /\ rest = << >>
      BY <2>1 DEF Shorter
    <3> HIDE DEF new, rest
    <3>2. << >> \in Seq(Toks) /\ Cat(<< >>, << >>) = << >>
      BY DEF Cat
    <3> QED
      BY <2>1, <3>1, <3>2
  <2>2. CASE queue # << >>
    <3>0. \A k \in Nat : k # 0 => 1 \in 0..k /\ Shorter(1, k) = 1
      BY DEF Shorter
    <3>1. 1 \in 0..Len(queue) /\ Shorter(1, Len(queue)) = 1
      BY <1>6, <2>2, <3>0, EmptySeq
    <3>2. SubSeq(queue, 1, 1) \in Seq(Toks) /\ SubSeq(queue, 1 + 1, Len(queue)) \in Seq(Toks)
          /\ SubSeq(queue, 1, 1) \o SubSeq(queue, 1 + 1, Len(queue)) = queue /\ Len(SubSeq(queue, 1, 1)) = 1
      BY <1>6, <3>1, TakeDrop, Rejoined
    <3>3. new = SubSeq(queue, 1, 1) /\ rest = SubSeq(queue, 1 + 1, Len(queue))
      BY <3>1
    <3> HIDE DEF new, rest
    <3>4. new # << >>
      BY <3>2, <3>3
    <3> QED
      BY <3>2, <3>3, <3>4 DEF Cat
  <2> QED
    BY <2>1, <2>2
<1>8. /\ BufferOf(Shifted, Cells) /\ Shifted.cap = buf.cap /\ Unread(Shifted) = Unread(buf)
      /\ room \in Nat /\ room # 0
  <2>1. MaxRecordLen \in Nat \ {0}
    BY TimeseriesAssumption
  <2>2. /\ BufferOf(Shifted, Cells) /\ Shifted.cap = buf.cap /\ Unread(Shifted) = Unread(buf)
        /\ MaxRecordLen <= buf.cap - ReadCapacity(buf) => WriteCapacity(Shifted) >= MaxRecordLen
        /\ MaxRecordLen > buf.cap - ReadCapacity(buf) => WriteCapacity(Shifted) = buf.cap - ReadCapacity(buf)
    BY <1>4, <2>1, ShiftForSpaceLemma DEF Shifted
  <2>3. WriteCapacity(Shifted) \in Nat
    BY <2>2 DEF WriteCapacity, BufferOf
  <2>4. buf.cap \in Nat /\ ReadCapacity(buf) \in Nat
    BY <1>4, UnreadCells DEF BufferOf
  <2> QED
    BY <1>5, <2>1, <2>2, <2>3, <2>4
<1> HIDE DEF new, rest, x, room
<1>9. Reads(r, x, new, rest, body, room)
  <2>1. PlaceOf(x, zstd, Cat(new, rest), body)
    BY <1>4, <1>7
  <2> QED
    BY <1>2, <1>3, <1>6, <1>7, <1>8, <2>1, PlaceRound
<1>10. /\ r.out \in Seq(Cells) /\ Len(r.out) <= room /\ (r.again => r.out = << >>) /\ (r.error => ~Uncorrupted)
       /\ ~r.error => PlaceOf(Cat(x, r.out), r.z, rest, body)
       /\ ~r.error /\ ~r.again /\ r.out = << >> /\ ~EmptyFrameInside => new = << >> /\ r.z.unread = << >>
  BY <1>9 DEF Reads
<1>11. CASE r.error /\ EndCall("threw") /\ UNCHANGED buf
  <2>1. pc' = "ended" /\ outcome' = "threw"
    BY <1>11 DEF EndCall
  <2>2. TypeInv'
    BY <1>1, <2>1 DEF IInv, TypeInv
  <2> QED
    BY <1>1, <1>10, <1>11, <2>1, <2>2, EndsInside
<1>12. CASE ~r.error /\ r.again /\ UNCHANGED <<buf, pc, outcome>>
  <2>1. TypeInv'
    BY <1>1, <1>12 DEF IInv, TypeInv
  <2>2. HasRecord' = HasRecord /\ Handed' = Handed
    BY <1>1, <1>12 DEF HasRecord, BytesNeeded, Handed
  <2>3. BufferPart'
    BY <1>1, <1>4, <1>5, <1>12, <2>2 DEF BufferPart
  <2>4. QueuePart'
    BY <1>1, <1>12 DEF QueuePart
  <2>5. Cat(x, r.out) = Cat(Handed', Unread(buf'))
    <3>1. x \in Seq(Cells) /\ r.out = << >>
      BY <1>4, <1>10, <1>12, CatFacts DEF x
    <3>2. Cat(x, << >>) = x
      BY <3>1, CatEmpty
    <3> QED
      BY <1>12, <2>2, <3>1, <3>2 DEF x
  <2>6. PlaceOf(Cat(Handed', Unread(buf')), zstd', queue', body')
    BY <1>1, <1>2, <1>10, <1>12, <2>5
  <2> QED
    BY <1>1, <1>3, <1>12, <2>1, <2>3, <2>4, <2>6, StaysInside
<1>13. CASE /\ ~r.error /\ ~r.again /\ buf' = Fill(Shifted, r.out)
            /\ pc' = IF r.out = << >> THEN "receiving" ELSE "decoding"
            /\ UNCHANGED outcome
  <2>1. TypeInv'
    BY <1>1, <1>3, <1>13 DEF IInv, TypeInv
  <2>2. /\ BufferOf(buf', Cells) /\ buf'.cap = buf.cap /\ Unread(buf') = Cat(Unread(buf), r.out)
    BY <1>8, <1>10, <1>13, FillLemma DEF room, Cat
  <2>3. Handed' = Handed
    BY <1>1 DEF Handed
  <2>4. Cat(x, r.out) = Cat(Handed', Unread(buf'))
    <3>0. r.out \in Seq(Cells)
      BY <1>10
    <3> DEFINE o == r.out
               u == Unread(buf)
    <3>a. o \in Seq(Cells) /\ u \in Seq(Cells) /\ Handed \in Seq(Cells)
      BY <1>4, <3>0
    <3> HIDE DEF o, u
    <3>b. Cat(Handed, Cat(u, o)) = Cat(Cat(Handed, u), o)
      BY <3>a, CatFacts
    <3>1. Cat(Cat(Handed, Unread(buf)), r.out) = Cat(Handed, Cat(Unread(buf), r.out))
      BY <3>b DEF o, u
    <3> QED
      BY <2>2, <2>3, <3>1 DEF x
  <2>5. PlaceOf(Cat(Handed', Unread(buf')), zstd', queue', body')
    BY <1>1, <1>2, <1>10, <1>13, <2>4
  <2>6. pc' # "decoding" => r.out = << >> /\ Unread(buf') = Unread(buf)
    <3>1. Cat(Unread(buf), << >>) = Unread(buf)
      BY <1>4, CatEmpty
    <3> QED
      BY <1>13, <2>2, <3>1
  <2>7. BufferPart'
    <3>1. ASSUME pc' # "decoding" PROVE ReadCapacity(buf') = ReadCapacity(buf) /\ HasRecord' = HasRecord
      <4>1. Unread(buf') = Unread(buf)
        BY <2>6, <3>1
      <4>2. Len(Unread(buf)) = ReadCapacity(buf) /\ ReadCapacity(buf) \in Nat
            /\ (ReadCapacity(buf) > 0 => Unread(buf)[1] = buf.mem[buf.rd])
        BY <1>4, UnreadCells
      <4>3. Len(Unread(buf')) = ReadCapacity(buf') /\ ReadCapacity(buf') \in Nat
            /\ (ReadCapacity(buf') > 0 => Unread(buf')[1] = buf'.mem[buf'.rd])
        BY <2>2, UnreadCells
      <4>4. ReadCapacity(buf') = ReadCapacity(buf)
        BY <4>1, <4>2, <4>3
      <4>5. ReadCapacity(buf) > 0 => buf'.mem[buf'.rd] = buf.mem[buf.rd]
        BY <4>1, <4>2, <4>3, <4>4
      <4> QED
        BY <4>4, <4>5 DEF HasRecord, BytesNeeded
    <3> QED
      BY <1>1, <1>5, <2>2, <3>1 DEF BufferPart
  <2>8. QueuePart'
    <3> SUFFICES ASSUME pc' \in {"request", "receiving", "ended"}, ~EmptyFrameInside'
                 PROVE  queue' = << >> /\ zstd'.unread = << >>
      BY DEF QueuePart
    <3>1. r.out = << >> /\ ~EmptyFrameInside
      BY <1>1, <1>13, SameResponse
    <3>2. new = << >> /\ r.z.unread = << >>
      BY <1>10, <1>13, <3>1
    <3> QED
      BY <1>1, <1>2, <1>7, <3>2
  <2> QED
    BY <1>1, <1>3, <1>13, <2>1, <2>5, <2>7, <2>8, StaysInside
<1> QED
  BY <1>2, <1>11, <1>12, <1>13

\* What the decoder takes from the front of its buffer is at its place in the response.
LEMMA TakeStep ==
  ASSUME IInv, pc = "decoding", UNCHANGED <<response, target, body, err_body, out_file, outcome, queue, zstd, pc>>,
         TypeInv', NEW k \in Nat, k <= ReadCapacity(buf),
         BufferOf(buf', Cells), buf'.cap >= BufferSize, state' = "Metadata" => buf'.cap >= MetadataLen,
         Unread(buf') = SubSeq(Unread(buf), k + 1, Len(Unread(buf))),
         Handed' = Cat(Handed, SubSeq(Unread(buf), 1, k))
  PROVE  IInv'
<1>1. Decoding
  BY InsideFacts
<1>2. /\ BufferOf(buf, Cells) /\ Handed \in Seq(Cells) /\ Unread(buf) \in Seq(Cells)
      /\ PlaceOf(Cat(Handed, Unread(buf)), zstd, queue, body)
  BY <1>1, DecodingFacts
<1>3. k \in 0..Len(Unread(buf))
  BY <1>2, UnreadCells
<1>4. PlaceOf(Cat(Handed', SubSeq(Unread(buf), k + 1, Len(Unread(buf)))), zstd, queue, body)
  BY <1>2, <1>3, HandsOver
<1>5. PlaceOf(Cat(Handed', Unread(buf')), zstd', queue', body')
  BY <1>4
<1>6. BufferPart'
  BY DEF BufferPart
<1>7. QueuePart'
  BY DEF QueuePart
<1> QED
  BY <1>5, <1>6, <1>7, StaysInside

\* The first pieces of the buffer, and the rest of the response behind them.
LEMMA FrontOfBuffer ==
  ASSUME IInv, Decoding, NEW k \in Nat, k <= ReadCapacity(buf)
  PROVE  LET u == SubSeq(Unread(buf), 1, k)
         IN  /\ u \in Seq(Cells) /\ Len(u) = k /\ \A i \in 1..k : u[i] = Unread(buf)[i]
             /\ \E v \in Seq(Cells) : Content = Cat(Handed, Cat(u, v))
<1> DEFINE w == Unread(buf)
           u == SubSeq(w, 1, k)
           t == SubSeq(w, k + 1, Len(w))
<1>1. BufferOf(buf, Cells) /\ Handed \in Seq(Cells) /\ w \in Seq(Cells)
  BY DecodingFacts
<1>2. PICK v \in Seq(Cells) : Content = Cat(Handed, Cat(w, v))
  BY DecodingFacts
<1>3. k \in 0..Len(w)
  BY <1>1, UnreadCells
<1> HIDE DEF w
<1>4. u \in Seq(Cells) /\ Len(u) = k /\ (\A i \in 1..k : u[i] = w[i]) /\ t \in Seq(Cells)
  BY <1>1, <1>3, TakeDrop
<1>5. Cat(u, t) = w
  BY <1>1, <1>3, Rejoined DEF Cat
<1> HIDE DEF u, t
<1>6. Cat(u, Cat(t, v)) = Cat(Cat(u, t), v)
  BY <1>4, CatFacts
<1>7. Cat(t, v) \in Seq(Cells)
  BY <1>4, CatFacts
<1>8. Content = Cat(Handed, Cat(u, Cat(t, v)))
  BY <1>2, <1>5, <1>6
<1>9. \E y \in Seq(Cells) : Content = Cat(Handed, Cat(u, y))
  BY <1>7, <1>8
<1> QED
  BY <1>4, <1>9 DEF u, w

\* The prelude is decoded.
LEMMA PreludeStep ==
  ASSUME IInv, DecodePrelude
  PROVE  IInv' /\ (outcome' = "threw" => Content # << >> /\ Content[1] # Magic)
<1>1. /\ pc = "decoding" /\ state = "Init"
      /\ UNCHANGED <<response, target, body, err_body, queue, zstd, out_file, warned>>
  BY DEF DecodePrelude, constVars
<1>2. /\ Decoding /\ outcome = "none" /\ response \in Responses
  BY <1>1, InsideFacts
<1>3. BufferOf(buf, Cells) /\ buf.cap >= BufferSize
  BY <1>2 DEF IInv, DecodingInv, BufferPart
<1>4. PreludeLen \in Nat \ {0} /\ MetadataLen \in Nat \ {0} /\ BufferSize \in Nat /\ BufferSize >= PreludeLen
  BY TimeseriesAssumption
<1>5. ReadCapacity(buf) \in Nat /\ buf.cap \in Nat /\ (ReadCapacity(buf) > 0 => Unread(buf)[1] = buf.mem[buf.rd])
  BY <1>3, UnreadCells DEF BufferOf
<1>6. Handed = << >>
  BY <1>1, HandedFacts DEF IInv
<1>7. CASE ReadCapacity(buf) < PreludeLen /\ ReadOn
  <2>1. ReadCapacity(buf) < buf.cap
    BY <1>3, <1>4, <1>5, <1>7
  <2>2. IInv'
    BY <1>1, <1>7, <2>1, ReadOnStep
  <2> QED
    BY <1>2, <1>7, <2>2 DEF ReadOn
<1>8. ASSUME ReadCapacity(buf) >= PreludeLen
      PROVE  LET u == SubSeq(Unread(buf), 1, PreludeLen)
             IN  /\ u \in Seq(Cells) /\ Len(u) = PreludeLen /\ u # << >> /\ u[1] = buf.mem[buf.rd]
                 /\ \E v \in Seq(Cells) : Content = Cat(u, v)
  <2> DEFINE u == SubSeq(Unread(buf), 1, PreludeLen)
  <2>1. /\ u \in Seq(Cells) /\ Len(u) = PreludeLen /\ (\A i \in 1..PreludeLen : u[i] = Unread(buf)[i])
        /\ \E v \in Seq(Cells) : Content = Cat(Handed, Cat(u, v))
    BY <1>2, <1>4, <1>8, FrontOfBuffer
  <2> HIDE DEF u
  <2>2. PICK v \in Seq(Cells) : Content = Cat(Handed, Cat(u, v))
    BY <2>1
  <2>3. Cat(u, v) \in Seq(Cells)
    BY <2>1, CatFacts
  <2>4. Content = Cat(u, v)
    BY <1>6, <2>2, <2>3, CatEmpty
  <2>5. 1 \in 1..PreludeLen /\ ReadCapacity(buf) > 0
    BY <1>4, <1>5, <1>8
  <2>6. u # << >> /\ u[1] = buf.mem[buf.rd]
    BY <1>5, <2>1, <2>5
  <2> QED
    BY <2>1, <2>4, <2>6 DEF u
<1>9. CASE /\ ReadCapacity(buf) >= PreludeLen /\ buf.mem[buf.rd] # Magic
           /\ EndCall("threw") /\ UNCHANGED <<buf, state, given>>
  <2> DEFINE u == SubSeq(Unread(buf), 1, PreludeLen)
  <2>1. u \in Seq(Cells) /\ u # << >> /\ u[1] # Magic
    BY <1>8, <1>9
  <2>2. PICK v \in Seq(Cells) : Content = Cat(u, v)
    BY <1>8, <1>9
  <2> HIDE DEF u
  <2>3. Content # << >> /\ Content[1] # Magic
    <3>1. Len(u) \in Nat /\ Len(u) # 0 /\ Len(v) \in Nat
      BY <2>1, EmptySeq
    <3>2. /\ Cat(u, v) \in Seq(Cells) /\ Len(Cat(u, v)) = Len(u) + Len(v)
          /\ \A i \in 1..Len(u) : Cat(u, v)[i] = u[i]
      BY <2>1, ConcatParts DEF Cat
    <3>3. Len(Cat(u, v)) # 0 /\ Cat(u, v)[1] = u[1]
      BY <3>1, <3>2
    <3> QED
      BY <2>1, <2>2, <3>2, <3>3, EmptySeq
  <2>4. TypeInv'
    BY <1>1, <1>9 DEF IInv, TypeInv, EndCall
  <2>5. outcome' = "threw"
    BY <1>9 DEF EndCall
  <2>6. IInv'
    BY <1>1, <2>4, <2>5, EndsInside
  <2> QED
    BY <2>3, <2>6
<1>10. CASE /\ ReadCapacity(buf) >= PreludeLen /\ buf.mem[buf.rd] = Magic
            /\ buf' = Reserve(Consume(buf, PreludeLen), MetadataLen)
            /\ state' = "Metadata" /\ UNCHANGED <<pc, given, outcome>>
  <2> DEFINE u == SubSeq(Unread(buf), 1, PreludeLen)
             c == Consume(buf, PreludeLen)
  <2>1. u \in Seq(Cells) /\ Len(u) = PreludeLen /\ u # << >> /\ u[1] = Magic
    BY <1>8, <1>10
  <2>2. PICK v \in Seq(Cells) : Content = Cat(u, v)
    BY <1>8, <1>10
  <2>3. BufferOf(c, Cells) /\ c.cap = buf.cap /\ Unread(c) = SubSeq(Unread(buf), PreludeLen + 1, Len(Unread(buf)))
    BY <1>3, <1>4, <1>10, ConsumeLemma
  <2> HIDE DEF u, c
  <2>4. BufferOf(buf', Cells) /\ Unread(buf') = Unread(c) /\ buf'.cap = IF MetadataLen <= c.cap THEN c.cap ELSE MetadataLen
    <3>1. buf' = Reserve(c, MetadataLen)
      BY <1>10 DEF c
    <3> QED
      BY <1>4, <2>3, <3>1, ReserveLemma
  <2>5. buf'.cap >= BufferSize /\ buf'.cap >= MetadataLen
    BY <1>3, <1>4, <1>5, <2>3, <2>4
  <2>6. TypeInv'
    BY <1>1, <1>10 DEF IInv, TypeInv
  <2>7. u = SubSeq(Header, 1, PreludeLen)
    <3>1. Len(u) <= HeaderLen
      BY <2>1, PartsFacts
    <3> QED
      BY <1>2, <2>1, <2>2, <3>1, HeaderPieces
  <2>8. Handed' = SubSeq(Header, 1, PreludeLen)
    BY <1>10 DEF Handed
  <2>9. Handed' = Cat(Handed, u)
    BY <1>6, <2>1, <2>7, <2>8, CatEmpty
  <2>10. IInv'
    BY <1>1, <1>4, <1>5, <1>10, <2>3, <2>4, <2>5, <2>6, <2>9, TakeStep DEF u
  <2> QED
    BY <1>2, <1>10, <2>10
<1> QED
  BY <1>7, <1>9, <1>10 DEF DecodePrelude

\* The metadata is decoded.
LEMMA MetadataStep ==
  ASSUME IInv, DecodeMetadata
  PROVE  IInv' /\ (outcome' = "threw" => ~response.readable)
<1>1. /\ pc = "decoding" /\ state = "Metadata"
      /\ UNCHANGED <<response, target, body, err_body, queue, zstd, out_file, warned>>
  BY DEF DecodeMetadata, constVars
<1>2. /\ Decoding /\ outcome = "none" /\ response \in Responses
  BY <1>1, InsideFacts
<1>3. BufferOf(buf, Cells) /\ buf.cap >= BufferSize /\ buf.cap >= MetadataLen
  BY <1>1, <1>2 DEF IInv, DecodingInv, BufferPart
<1>4. PreludeLen \in Nat \ {0} /\ MetadataLen \in Nat \ {0} /\ BufferSize \in Nat
  BY TimeseriesAssumption
<1>5. ReadCapacity(buf) \in Nat /\ buf.cap \in Nat
  BY <1>3, UnreadCells DEF BufferOf
<1>6. Handed = SubSeq(Header, 1, PreludeLen) /\ given = << >>
  BY <1>1, HandedFacts DEF IInv, TypeInv
<1>7. CASE ReadCapacity(buf) < MetadataLen /\ ReadOn
  <2>1. ReadCapacity(buf) < buf.cap
    BY <1>3, <1>4, <1>5, <1>7
  <2>2. IInv'
    BY <1>1, <1>7, <2>1, ReadOnStep
  <2> QED
    BY <1>2, <1>7, <2>2 DEF ReadOn
<1>8. CASE ~response.readable /\ EndCall("threw") /\ UNCHANGED <<buf, state, given>>
  <2>1. TypeInv'
    BY <1>1, <1>8 DEF IInv, TypeInv, EndCall
  <2>2. outcome' = "threw"
    BY <1>8 DEF EndCall
  <2>3. IInv'
    BY <1>1, <2>1, <2>2, EndsInside
  <2> QED
    BY <1>8, <2>3
<1>9. CASE UNCHANGED <<state, given>> /\ EndCall("callback threw")
  <2>1. TypeInv'
    BY <1>1, <1>9 DEF IInv, TypeInv, EndCall
  <2>2. outcome' = "callback threw"
    BY <1>9 DEF EndCall
  <2>3. IInv'
    BY <1>1, <2>1, <2>2, EndsInside
  <2> QED
    BY <2>2, <2>3
<1>10. CASE /\ ReadCapacity(buf) >= MetadataLen /\ buf' = Shift(Consume(buf, MetadataLen)) /\ UNCHANGED given
            /\ state' = "Records" /\ UNCHANGED <<pc, outcome>>
  <2> DEFINE u == SubSeq(Unread(buf), 1, MetadataLen)
             c == Consume(buf, MetadataLen)
             h == SubSeq(Header, 1, PreludeLen)
             w == Cat(h, u)
  <2>1. /\ u \in Seq(Cells) /\ Len(u) = MetadataLen
        /\ \E v \in Seq(Cells) : Content = Cat(Handed, Cat(u, v))
    BY <1>2, <1>4, <1>10, FrontOfBuffer
  <2>2. BufferOf(c, Cells) /\ c.cap = buf.cap /\ Unread(c) = SubSeq(Unread(buf), MetadataLen + 1, Len(Unread(buf)))
    BY <1>3, <1>4, <1>10, ConsumeLemma
  <2>3. h \in Seq(Cells) /\ Len(h) = PreludeLen /\ \A i \in 1..PreludeLen : h[i] = Header[i]
    BY PartsFacts, TakeDrop
  <2> HIDE DEF u, c, h
  <2>4. BufferOf(buf', Cells) /\ Unread(buf') = Unread(c) /\ buf'.cap = buf.cap
    <3>1. buf' = Shift(c)
      BY <1>10 DEF c
    <3> QED
      BY <2>2, <3>1, ShiftLemma
  <2>5. TypeInv'
    BY <1>1, <1>10 DEF IInv, TypeInv
  <2>6. PICK v \in Seq(Cells) : Content = Cat(h, Cat(u, v))
    BY <1>6, <2>1 DEF h
  <2>7. w \in Seq(Cells) /\ Len(w) = HeaderLen /\ w # << >> /\ w[1] = Magic
    <3>1. /\ w \in Seq(Cells) /\ Len(w) = Len(h) + Len(u) /\ \A i \in 1..Len(h) : w[i] = h[i]
      BY <2>1, <2>3, ConcatParts DEF Cat
    <3> HIDE DEF w
    <3>2. Len(w) = HeaderLen /\ HeaderLen # 0
      BY <1>4, <2>1, <2>3, <3>1 DEF HeaderLen
    <3>3. 1 \in 1..PreludeLen
      BY <1>4
    <3>4. w[1] = Header[1]
      BY <2>3, <3>1, <3>3
    <3>5. Header[1] = Magic
      BY PartsFacts
    <3> QED
      BY <3>1, <3>2, <3>4, <3>5
  <2>8. Content = Cat(w, v)
    <3>1. Cat(h, Cat(u, v)) = Cat(Cat(h, u), v)
      BY <2>1, <2>3, CatFacts
    <3> QED
      BY <2>6, <3>1
  <2> HIDE DEF w
  <2>9. w = SubSeq(Header, 1, Len(w))
    <3>1. Len(w) <= HeaderLen
      BY <2>7, PartsFacts
    <3> QED
      BY <1>2, <2>7, <2>8, <3>1, HeaderPieces
  <2>10. w = Header
    <3>1. Header \in Seq(Cells) /\ Len(w) = Len(Header)
      BY <2>7, PartsFacts
    <3>2. SubSeq(Header, 1, Len(Header)) = Header
      BY <3>1
    <3> QED
      BY <2>9, <3>1, <3>2
  <2>11. Handed' = Header
    <3>1. state' = "Records" /\ Len(given') = 0
      BY <1>6, <1>10
    <3>2. Handed' = FrontOf(Len(given'))
      <4>1. TypeInv' => (state' = "Records" => Handed' = FrontOf(Len(given')))
        <5>1. /\ given \in Seq(Nat) /\ Len(given) <= Len(RecordLens) /\ \A i \in 1..Len(given) : given[i] = i
          BY DEF IInv, TypeInv
        <5>2. Header \o FlattenSeq([i \in 1..Len(given) |-> PiecesOf(given[i])]) = FrontOf(Len(given))
          BY <5>1, GivenFront
        <5>3. Handed' = Header \o FlattenSeq([i \in 1..Len(given) |-> PiecesOf(given[i])])
          BY <1>10 DEF Handed
        <5> QED
          BY <1>10, <5>2, <5>3
      <4> QED
        BY <2>5, <3>1, <4>1
    <3>3. 0 \in 0..Len(RecordLens)
      BY PartsFacts
    <3>4. FrontOf(0) = Header
      BY <3>3, FrontFacts
    <3> QED
      BY <3>1, <3>2, <3>4
  <2>12. Handed' = Cat(Handed, u)
    BY <1>6, <2>10, <2>11 DEF w, h
  <2>13. IInv'
    BY <1>1, <1>3, <1>4, <1>5, <1>10, <2>2, <2>4, <2>5, <2>12, TakeStep DEF u
  <2> QED
    BY <1>2, <1>10, <2>13
<1> QED
  BY <1>7, <1>8, <1>9, <1>10 DEF DecodeMetadata

\* The record at the front of the buffer is the next of the response.
LEMMA NextRecord ==
  ASSUME IInv, pc = "decoding", state = "Records", HasRecord
  PROVE  /\ Len(given) + 1 \in 1..Len(RecordLens) /\ buf.mem[buf.rd].rec = Len(given) + 1
         /\ BytesNeeded = RecordLens[Len(given) + 1] /\ BytesNeeded \in Nat /\ BytesNeeded <= ReadCapacity(buf)
         /\ SubSeq(Unread(buf), 1, BytesNeeded) = PiecesOf(Len(given) + 1)
         /\ Len(given) < Cardinality(WholeRecords)
<1> DEFINE n == Len(given)
           w == Unread(buf)
           m == RecordLens[n + 1]
           p == PiecesOf(n + 1)
<1>1. Decoding /\ response \in Responses
  BY InsideFacts
<1>2. BufferOf(buf, Cells) /\ w \in Seq(Cells)
  BY <1>1, DecodingFacts
<1>3. Handed = FrontOf(n) /\ n \in 0..Len(RecordLens) /\ Len(RecordLens) \in Nat
  BY HandedFacts, PartsFacts DEF IInv
<1>4. PICK v \in Seq(Cells) : Content = Cat(FrontOf(n), Cat(w, v))
  BY <1>1, <1>3, DecodingFacts
<1>5. Len(w) = ReadCapacity(buf) /\ ReadCapacity(buf) \in Nat /\ ReadCapacity(buf) > 0 /\ w[1] = buf.mem[buf.rd]
  BY <1>2, UnreadCells DEF HasRecord
<1>6. w # << >> /\ 1 \in 1..Len(w)
  BY <1>5
<1> HIDE DEF w, n
<1>7. /\ n < Len(RecordLens) /\ n + 1 \in 1..Len(RecordLens)
      /\ \A i \in 1..Len(w) : i <= RecordLens[n + 1] => w[i] = [rec |-> n + 1, off |-> i]
      /\ RecordLens[n + 1] <= Len(w) => SubSeq(w, 1, RecordLens[n + 1]) = PiecesOf(n + 1)
  BY <1>1, <1>2, <1>3, <1>4, <1>6, RecordPieces
<1>8. m \in Nat \ {0} /\ p \in Seq(Cells)
  BY <1>7, RecordFacts
<1>9. w[1] = [rec |-> n + 1, off |-> 1]
  BY <1>6, <1>7, <1>8
<1>10. buf.mem[buf.rd].rec = n + 1 /\ BytesNeeded = m
  BY <1>5, <1>9 DEF BytesNeeded
<1>11. m <= Len(w)
  BY <1>5, <1>8, <1>10 DEF HasRecord
<1>12. SubSeq(w, 1, m) = p
  BY <1>7, <1>11
<1>13. n + 1 <= Cardinality(WholeRecords)
  <2> DEFINE t == SubSeq(w, m + 1, Len(w))
  <2>1. m \in 0..Len(w)
    BY <1>5, <1>8, <1>11
  <2>2. t \in Seq(Cells) /\ SubSeq(w, 1, m) \o t = w
    BY <1>2, <2>1, TakeDrop, Rejoined
  <2> HIDE DEF t, p, m
  <2>3. Cat(p, t) = w
    BY <1>12, <2>2 DEF Cat
  <2>4. FrontOf(n) \in Seq(Cells) /\ FrontOf(n + 1) = Cat(FrontOf(n), p)
    BY <1>3, <1>7, FrontFacts DEF p
  <2>5. Cat(t, v) \in Seq(Cells) /\ Cat(p, Cat(t, v)) = Cat(Cat(p, t), v)
    <3>1. Cat(t, v) \in Seq(Cells)
      BY <2>2, CatFacts
    <3>2. Cat(p, Cat(t, v)) = Cat(Cat(p, t), v)
      BY <1>8, <2>2, CatFacts
    <3> QED
      BY <3>1, <3>2
  <2>6. Cat(FrontOf(n), Cat(p, Cat(t, v))) = Cat(Cat(FrontOf(n), p), Cat(t, v))
    BY <1>8, <2>4, <2>5, CatFacts
  <2>7. Content = Cat(FrontOf(n + 1), Cat(t, v))
    BY <1>4, <2>3, <2>4, <2>5, <2>6
  <2>8. n + 1 \in 0..Len(RecordLens)
    BY <1>3, <1>7
  <2> QED
    BY <1>1, <2>5, <2>7, <2>8, WholeAtLeast
<1>14. n < Cardinality(WholeRecords)
  BY <1>3, <1>13, WholeFinite
<1> QED
  BY <1>5, <1>7, <1>8, <1>10, <1>11, <1>12, <1>14 DEF n, w

\* A record is decoded.
LEMMA RecordStep ==
  ASSUME IInv, DecodeRecord
  PROVE  IInv' /\ outcome' # "threw" /\ outcome' # "returned"
<1>1. /\ pc = "decoding" /\ state = "Records"
      /\ UNCHANGED <<response, target, body, err_body, queue, zstd, out_file, warned>>
  BY DEF DecodeRecord, constVars
<1>2. Decoding /\ outcome = "none" /\ response \in Responses
  BY <1>1, InsideFacts
<1>3. BufferOf(buf, Cells) /\ buf.cap >= BufferSize
  BY <1>2 DEF IInv, DecodingInv, BufferPart
<1>4. ReadCapacity(buf) \in Nat /\ buf.cap \in Nat /\ Len(Unread(buf)) = ReadCapacity(buf) /\ Unread(buf) \in Seq(Cells)
  BY <1>3, UnreadCells DEF BufferOf
<1>5. Handed = FrontOf(Len(given)) /\ Len(given) \in 0..Len(RecordLens)
  BY <1>1, HandedFacts DEF IInv
<1>6. CASE ~HasRecord /\ ReadOn
  <2>1. ReadCapacity(buf) < buf.cap
    <3>1. MaxRecordLen \in Nat \ {0} /\ BufferSize \in Nat /\ BufferSize >= MaxRecordLen
      BY TimeseriesAssumption
    <3>2. CASE ReadCapacity(buf) = 0
      BY <1>3, <1>4, <3>1, <3>2
    <3>3. CASE ReadCapacity(buf) > 0
      <4> DEFINE n == Len(given)
                 w == Unread(buf)
      <4>1. PICK v \in Seq(Cells) : Content = Cat(FrontOf(n), Cat(w, v))
        BY <1>2, <1>5, DecodingFacts
      <4>2. w # << >> /\ 1 \in 1..Len(w) /\ w \in Seq(Cells) /\ w[1] = buf.mem[buf.rd]
        BY <1>3, <1>4, <3>3, UnreadCells
      <4> HIDE DEF w, n
      <4>3. /\ n + 1 \in 1..Len(RecordLens)
            /\ \A i \in 1..Len(w) : i <= RecordLens[n + 1] => w[i] = [rec |-> n + 1, off |-> i]
        BY <1>2, <1>5, <4>1, <4>2, RecordPieces DEF n
      <4>4. RecordLens[n + 1] \in Nat \ {0} /\ RecordLens[n + 1] <= MaxRecordLen
        BY <4>3, RecordFacts
      <4>5. w[1] = [rec |-> n + 1, off |-> 1]
        BY <4>2, <4>3, <4>4
      <4>6. BytesNeeded = RecordLens[n + 1]
        BY <4>2, <4>5 DEF BytesNeeded
      <4> QED
        BY <1>3, <1>4, <1>6, <3>1, <3>3, <4>4, <4>6 DEF HasRecord
    <3> QED
      BY <1>4, <3>2, <3>3
  <2>2. IInv'
    BY <1>1, <1>6, <2>1, ReadOnStep
  <2> QED
    BY <1>2, <1>6, <2>2 DEF ReadOn
<1>7. ASSUME HasRecord, given' = Append(given, buf.mem[buf.rd].rec)
      PROVE  /\ given' \in Seq(Nat) /\ Len(given') = Len(given) + 1 /\ Len(given') <= Len(RecordLens)
             /\ \A i \in 1..Len(given') : given'[i] = i
  <2> DEFINE n == Len(given)
  <2>0. given \in Seq(Nat) /\ \A i \in 1..Len(given) : given[i] = i
    BY DEF IInv, TypeInv
  <2>1. given \in Seq(Nat) /\ n \in Nat /\ \A i \in 1..n : given[i] = i
    BY <2>0
  <2>2. n + 1 \in 1..Len(RecordLens) /\ buf.mem[buf.rd].rec = n + 1
    BY <1>1, <1>7, NextRecord
  <2>3. given' = Append(given, n + 1)
    BY <1>7, <2>2
  <2>4. given' \in Seq(Nat) /\ Len(given') = n + 1
    BY <2>1, <2>3
  <2>5. ASSUME NEW i \in 1..(n + 1) PROVE given'[i] = i
    <3>1. CASE i = n + 1
      BY <2>1, <2>3, <3>1
    <3>2. CASE i # n + 1
      <4>1. i \in 1..n
        BY <2>1, <3>2
      <4> QED
        BY <2>1, <2>3, <4>1
    <3> QED
      BY <3>1, <3>2
  <2>6. n + 1 <= Len(RecordLens)
    BY <2>2, PartsFacts
  <2> QED
    BY <2>4, <2>5, <2>6
<1>8. ASSUME HasRecord, given' = Append(given, buf.mem[buf.rd].rec), NEW how \in {"stopped", "callback threw"},
             EndCall(how), UNCHANGED <<buf, state>>
      PROVE  IInv' /\ outcome' = how
  <2>1. outcome' = how /\ pc' = "ended"
    BY <1>8 DEF EndCall
  <2>2. TypeInv'
    BY <1>1, <1>7, <1>8, <2>1 DEF IInv, TypeInv
  <2> QED
    BY <1>1, <2>1, <2>2, EndsInside
<1>9. CASE /\ HasRecord /\ given' = Append(given, buf.mem[buf.rd].rec)
           /\ buf' = Consume(buf, BytesNeeded) /\ UNCHANGED <<pc, outcome>> /\ UNCHANGED state
  <2> DEFINE n == Len(given)
             u == SubSeq(Unread(buf), 1, BytesNeeded)
  <2>1. TypeInv'
    BY <1>1, <1>7, <1>9 DEF IInv, TypeInv
  <2>2. /\ n + 1 \in 1..Len(RecordLens) /\ BytesNeeded \in Nat /\ BytesNeeded <= ReadCapacity(buf)
        /\ u = PiecesOf(n + 1)
    BY <1>1, <1>9, NextRecord
  <2>3. /\ BufferOf(buf', Cells) /\ buf'.cap = buf.cap
        /\ Unread(buf') = SubSeq(Unread(buf), BytesNeeded + 1, Len(Unread(buf)))
    BY <1>3, <1>9, <2>2, ConsumeLemma
  <2>4. n < Len(RecordLens)
    BY <1>5, <2>2, PartsFacts
  <2>5. Handed' = FrontOf(n + 1)
    <3>1. /\ given' \in Seq(Nat) /\ Len(given') = n + 1 /\ Len(given') <= Len(RecordLens)
          /\ \A i \in 1..Len(given') : given'[i] = i
      BY <1>7, <1>9
    <3>2. Header \o FlattenSeq([i \in 1..Len(given') |-> PiecesOf(given'[i])]) = FrontOf(Len(given'))
      BY <3>1, GivenFront
    <3>3. Handed' = Header \o FlattenSeq([i \in 1..Len(given') |-> PiecesOf(given'[i])])
      BY <1>1, <1>9 DEF Handed
    <3> QED
      BY <3>1, <3>2, <3>3
  <2>6. FrontOf(n + 1) = Cat(FrontOf(n), PiecesOf(n + 1))
    BY <1>5, <2>4, FrontFacts
  <2>7. Handed' = Cat(Handed, u)
    BY <1>5, <2>2, <2>5, <2>6
  <2>8. IInv'
    BY <1>1, <1>3, <1>9, <2>1, <2>2, <2>3, <2>7, TakeStep
  <2> QED
    BY <1>2, <1>9, <2>8
<1> QED
  BY <1>6, <1>8, <1>9 DEF DecodeRecord

-----------------------------------------------------------------------------
(* The invariant holds, and what it implies.                               *)

\* The invariant holds in every state of every call, whatever the response is and
\* however it arrives.
THEOREM IInvHolds == Spec => []IInv
<1>1. ASSUME IInv, [Next]_vars PROVE IInv'
  <2>1. CASE UNCHANGED vars
    <3>1. UNCHANGED <<response, target, body, pc, err_body, queue, zstd, buf, state, given, out_file, outcome, warned>>
      BY <2>1 DEF vars, constVars, decoderVars
    <3>2. TypeInv' /\ EndInv'
      BY <1>1, <3>1 DEF IInv, TypeInv, EndInv
    <3>3. SinkInv'
      BY <1>1, <3>1, SameResponse DEF IInv, SinkInv
    <3>4. Decoding' <=> Decoding
      BY <3>1 DEF Decoding
    <3>5. HasRecord' = HasRecord /\ Handed' = Handed
      BY <3>1 DEF HasRecord, BytesNeeded, Handed
    <3>6. BufferPart => BufferPart'
      BY <3>1, <3>5 DEF BufferPart
    <3>7. QueuePart => QueuePart'
      BY <3>1, SameResponse DEF QueuePart
    <3>8. PlacePart => PlacePart'
      <4>1. PlacePart => PlaceOf(Cat(Handed', Unread(buf')), zstd', queue', body')
        BY <3>1, <3>5 DEF PlacePart
      <4> QED
        BY <3>1, <4>1, PlacePrime
    <3> QED
      BY <1>1, <3>2, <3>3, <3>4, <3>6, <3>7, <3>8 DEF IInv, DecodingInv
  <2>2. CASE Step
    BY <1>1, <2>2, SendStep, ReceiveStep, ResponseEndsStep, OpenStoreStep, RoundStep, PreludeStep,
       MetadataStep, RecordStep, <2>1 DEF Step, OpenStoreLoops
  <2> QED
    BY <1>1, <2>1, <2>2 DEF Next, Done
<1> QED
  BY InitStep, <1>1, PTL DEF Spec

\* An error response calls back nobody, writes nothing and is thrown with its whole body:
\* PostRawStream passes the content of no response with an error status on.
THEOREM ErrorBodyIsThrownHolds == Spec => []ErrorBodyIsThrown
<1>1. ASSUME IInv PROVE ErrorBodyIsThrown
  <2> SUFFICES ASSUME response.error PROVE ErrorBodyIsThrown
    BY DEF ErrorBodyIsThrown
  <2>1. /\ state = "Init" /\ queue = << >> /\ out_file.data = << >> /\ outcome \in {"none", "threw"}
        /\ Cat(err_body, body) = response.tokens /\ err_body \in Seq(Toks)
    BY <1>1 DEF IInv, SinkInv
  <2>2. pc = "ended" => outcome = "threw"
    BY <1>1, <2>1 DEF IInv, TypeInv
  <2>3. body = << >> => err_body = response.tokens
    BY <2>1, CatEmpty
  <2> QED
    BY <2>1, <2>2, <2>3 DEF ErrorBodyIsThrown
<1> QED
  BY IInvHolds, <1>1, PTL

\* At the end of a response that ends with a frame, the decoder has it all.
LEMMA AllIsRead ==
  ASSUME IInv, Decoding, pc \in {"receiving", "ended"}, body = << >>, EndsWithFrame, ~EmptyFrameInside
  PROVE  Content = Cat(Handed, Unread(buf))
<1>1. queue = << >> /\ zstd.unread = << >>
  BY DEF IInv, DecodingInv, QueuePart
<1>2. response \in Responses /\ PlaceOf(Cat(Handed, Unread(buf)), zstd, queue, body)
  BY DecodingFacts
<1> QED
  BY <1>1, <1>2, PlaceEnd

\* A call that returns neither stopped nor warned about has passed on all of a response
\* that is neither an error nor broken off, to the application or to the file.
THEOREM ReturnedMeansAllHolds == Spec => []ReturnedMeansAll
<1>1. ASSUME IInv PROVE ReturnedMeansAll
  <2> SUFFICES ASSUME outcome = "returned", ~warned PROVE ReturnedMeansAll
    BY DEF ReturnedMeansAll
  <2>1. /\ body = << >> /\ ~response.error /\ ~response.broken
        /\ target = "callbacks" => ~(ReadCapacity(buf) > 0)
    BY <1>1 DEF IInv, EndInv
  <2>2. pc = "ended"
    BY <1>1 DEF IInv, TypeInv
  <2>3. ASSUME target = "callbacks", EndsWithFrame, ~EmptyFrameInside PROVE Handed = Content
    <3>1. Decoding
      BY <2>1, <2>3 DEF Decoding
    <3>2. Content = Cat(Handed, Unread(buf))
      BY <1>1, <2>1, <2>2, <2>3, <3>1, AllIsRead
    <3>3. BufferOf(buf, Cells) /\ Handed \in Seq(Cells)
      BY <1>1, <3>1, DecodingFacts
    <3>4. Unread(buf) = << >>
      <4>1. Unread(buf) \in Seq(Cells) /\ Len(Unread(buf)) = ReadCapacity(buf) /\ ReadCapacity(buf) \in Nat
        BY <3>3, UnreadCells
      <4>2. Len(Unread(buf)) = 0
        BY <2>1, <2>3, <4>1
      <4> QED
        BY <4>1, <4>2, EmptySeq
    <3> QED
      BY <3>2, <3>3, <3>4, CatEmpty
  <2>4. target = "file" => (out_file.data = response.tokens \/ out_file.bad)
    <3>1. target = "file" => out_file.bad \/ Cat(out_file.data, body) = response.tokens
      BY <1>1, <2>1 DEF IInv, SinkInv
    <3>2. out_file.data \in Seq(Toks)
      BY <1>1 DEF IInv, SinkInv
    <3> QED
      BY <2>1, <3>1, <3>2, CatEmpty
  <2> QED
    BY <2>1, <2>3, <2>4 DEF ReturnedMeansAll
<1> QED
  BY IInvHolds, <1>1, PTL

-----------------------------------------------------------------------------
(* The decoder hands over a record stream.                                 *)

\* The input of the stream is the same in every state.
LEMMA SameInput ==
  ASSUME UNCHANGED response
  PROVE  UNCHANGED <<Cardinality(WholeRecords), Intact, EndsWithFrame /\ Uncorrupted /\ ~EmptyFrameInside>>
<1>1. Content' = Content /\ (Uncorrupted' <=> Uncorrupted) /\ (EmptyFrameInside' <=> EmptyFrameInside)
  BY SameResponse
<1>2. WholeRecords' = WholeRecords
  BY <1>1 DEF WholeRecords
<1>3. EndsWithFrame' <=> EndsWithFrame
  BY DEF EndsWithFrame
<1>4. Intact' = Intact
  BY <1>1 DEF Intact
<1>5. (EndsWithFrame /\ Uncorrupted /\ ~EmptyFrameInside)' = (EndsWithFrame /\ Uncorrupted /\ ~EmptyFrameInside)
  BY <1>1, <1>3
<1>6. Cardinality(WholeRecords)' = Cardinality(WholeRecords)
  BY <1>2
<1> QED
  BY <1>4, <1>5, <1>6

\* Where the stream is while the call goes on, and when it has thrown.
LEMMA PhaseFacts ==
  /\ outcome \in {"none", "stopped", "callback threw", "store threw"} => Phase = IF state = "Records" THEN "records" ELSE "opened"
  /\ outcome = "threw" => Phase = "failed"
  /\ outcome = "returned" => Phase = IF state = "Records" THEN "ended" ELSE "opened"
<1>1. outcome \in {"none", "stopped", "callback threw", "store threw"} => Phase = IF state = "Records" THEN "records" ELSE "opened"
  BY DEF Phase
<1>2. outcome = "threw" => Phase = "failed"
  BY DEF Phase
<1>3. outcome = "returned" => Phase = IF state = "Records" THEN "ended" ELSE "opened"
  BY DEF Phase
<1> QED
  BY <1>1, <1>2, <1>3

\* So after a step.
LEMMA PhaseAfter ==
  /\ outcome' \in {"none", "stopped", "callback threw", "store threw"} => Phase' = IF state' = "Records" THEN "records" ELSE "opened"
  /\ outcome' = "threw" => Phase' = "failed"
  /\ outcome' = "returned" => Phase' = IF state' = "Records" THEN "ended" ELSE "opened"
<1>1. outcome' \in {"none", "stopped", "callback threw", "store threw"} => Phase' = IF state' = "Records" THEN "records" ELSE "opened"
  BY DEF Phase
<1>2. outcome' = "threw" => Phase' = "failed"
  BY DEF Phase
<1>3. outcome' = "returned" => Phase' = IF state' = "Records" THEN "ended" ELSE "opened"
  BY DEF Phase
<1> QED
  BY <1>1, <1>2, <1>3

\* A call that throws is a stream that fails.
LEMMA ThrowFails ==
  ASSUME outcome = "none", outcome' = "threw", ~Intact, UNCHANGED <<response, given>>
  PROVE  Stream!Next
<1>1. Phase \in {"opened", "records"} /\ Phase' = "failed"
  BY PhaseFacts, PhaseAfter
<1>2. Stream!Fail
  BY <1>1 DEF Stream!Fail
<1> QED
  BY <1>2, SameInput DEF Stream!Next

\* A step that hands nothing over and leaves the call as it is.
LEMMA StreamStutters ==
  ASSUME UNCHANGED <<response, given>>, Phase' = Phase
  PROVE  UNCHANGED Stream!vars
BY SameInput DEF Stream!vars

\* The call of a response that came to its end returns when no whole record is left.
LEMMA ReturnEnds ==
  ASSUME IInv, ResponseEnds, outcome' = "returned", state = "Records"
  PROVE  Stream!End
<1>1. /\ pc = "receiving" /\ body = << >> /\ UNCHANGED <<state, given>>
  BY DEF ResponseEnds, decoderVars
<1>2. outcome = "none" /\ response \in Responses
  BY <1>1 DEF IInv, TypeInv
<1>3. Decoding
  <2>1. ~(response.error \/ target = "file") /\ target \in {"callbacks", "file"}
    BY DEF IInv, SinkInv, TypeInv
  <2> QED
    BY <1>2, <2>1 DEF Decoding
<1>4. Phase = "records" /\ Phase' = "ended"
  BY <1>1, <1>2, PhaseFacts, PhaseAfter
<1>5. ASSUME EndsWithFrame, ~EmptyFrameInside PROVE Len(given) = Cardinality(WholeRecords)
  <2> DEFINE u == Unread(buf)
             n == Len(given)
  <2>1. Content = Cat(Handed, u)
    BY <1>1, <1>3, <1>5, AllIsRead
  <2>2. Handed = FrontOf(n) /\ n \in 0..Len(RecordLens)
    BY HandedFacts DEF IInv
  <2>3. BufferOf(buf, Cells) /\ ~HasRecord
    BY <1>1, <1>3 DEF IInv, DecodingInv, BufferPart
  <2>4. /\ u \in Seq(Cells) /\ Len(u) = ReadCapacity(buf) /\ ReadCapacity(buf) \in Nat
        /\ ReadCapacity(buf) > 0 => u[1] = buf.mem[buf.rd]
    BY <2>3, UnreadCells
  <2> HIDE DEF u, n
  <2>5. ASSUME u # << >>, RecordLens[u[1].rec] <= Len(u) PROVE FALSE
    <3>1. ReadCapacity(buf) > 0
      BY <2>4, <2>5, EmptySeq
    <3>2. BytesNeeded = RecordLens[u[1].rec]
      BY <2>4, <3>1 DEF BytesNeeded
    <3>3. BytesNeeded <= ReadCapacity(buf)
      BY <2>4, <2>5, <3>2
    <3>4. 1 \in 1..Len(u) /\ Cat(u, << >>) = u /\ << >> \in Seq(Cells)
      BY <2>4, <3>1, CatEmpty
    <3>5. /\ n + 1 \in 1..Len(RecordLens)
          /\ \A i \in 1..Len(u) : i <= RecordLens[n + 1] => u[i] = [rec |-> n + 1, off |-> i]
      <4>1. Content = Cat(FrontOf(n), Cat(u, << >>))
        BY <2>1, <2>2, <3>4
      <4> QED
        BY <1>2, <2>2, <2>4, <2>5, <3>4, <4>1, RecordPieces
    <3>6. RecordLens[n + 1] \in Nat \ {0}
      BY <3>5, RecordFacts
    <3>7. u[1] = [rec |-> n + 1, off |-> 1]
      BY <3>4, <3>5, <3>6
    <3>8. BytesNeeded \in Nat
      BY <3>2, <3>6, <3>7
    <3> QED
      BY <2>3, <2>4, <3>1, <3>3, <3>8 DEF HasRecord
  <2>6. u # << >> => ~(RecordLens[u[1].rec] <= Len(u))
    BY <2>5
  <2>7. Content = Cat(FrontOf(n), u)
    BY <2>1, <2>2
  <2> QED
    BY <1>2, <2>2, <2>4, <2>6, <2>7, WholeExactly DEF n
<1> QED
  BY <1>1, <1>4, <1>5 DEF Stream!End

\* The steps of PostRawStream: the stream ends or fails with the response, or does nothing.
LEMMA StreamOfResponse ==
  ASSUME IInv, Send \/ (\E n \in 1..Len(body) : Receive(n)) \/ ResponseEnds \/ OpenStore
  PROVE  [Stream!Next]_(Stream!vars)
<1>1. CASE Send
  <2>1. /\ pc = "request" /\ UNCHANGED <<response, given, state>>
        /\ \/ UNCHANGED outcome
           \/ response.broken /\ outcome' = "threw"
    BY <1>1 DEF Send, EndCall, constVars, decoderVars
  <2>2. outcome = "none"
    BY <2>1 DEF IInv, TypeInv
  <2>3. CASE UNCHANGED outcome
    <3>1. Phase' = Phase
      BY <2>1, <2>3 DEF Phase
    <3> QED
      BY <2>1, <3>1, StreamStutters
  <2>4. CASE response.broken /\ outcome' = "threw"
    <3>1. ~Intact
      BY <2>4 DEF Intact
    <3> QED
      BY <2>1, <2>2, <2>4, <3>1, ThrowFails
  <2> QED
    BY <2>1, <2>3, <2>4
<1>2. CASE \E n \in 1..Len(body) : Receive(n)
  <2>1. PICK n \in 1..Len(body) : Receive(n)
    BY <1>2
  <2>2. UNCHANGED <<response, given, state, outcome>>
    BY <2>1 DEF Receive, ReceiveError, ReceiveContent, WriteToFile, constVars, decoderVars
  <2>3. Phase' = Phase
    BY <2>2 DEF Phase
  <2> QED
    BY <2>2, <2>3, StreamStutters
<1>3. CASE ResponseEnds
  <2>1. /\ pc = "receiving" /\ UNCHANGED <<response, given, state>>
        /\ \/ outcome' = IF response.error \/ response.broken THEN "threw" ELSE "returned"
           \/ target = "file" /\ UNCHANGED outcome
    BY <1>3 DEF ResponseEnds, EndCall, CheckStatusAndStreamRes, IsErrorStatus, constVars, decoderVars
  <2>2. outcome = "none"
    BY <2>1 DEF IInv, TypeInv
  <2>3. CASE outcome' = "threw" /\ (response.error \/ response.broken)
    <3>1. ~Intact
      BY <2>3 DEF Intact
    <3> QED
      BY <2>1, <2>2, <2>3, <3>1, ThrowFails
  <2>4. CASE outcome' = "returned"
    <3>1. outcome' = "returned"
      BY <2>4
    <3>2. CASE state = "Records"
      <4>1. Stream!End
        BY <1>3, <3>1, <3>2, ReturnEnds
      <4> QED
        BY <2>1, <4>1, SameInput DEF Stream!Next
    <3>3. CASE state # "Records"
      <4>1. Phase' = Phase
        BY <2>1, <2>2, <3>1, <3>3, PhaseFacts, PhaseAfter
      <4> QED
        BY <2>1, <4>1, StreamStutters
    <3> QED
      BY <3>2, <3>3
  <2>5. CASE UNCHANGED outcome
    <3>1. Phase' = Phase
      BY <2>1, <2>5 DEF Phase
    <3> QED
      BY <2>1, <3>1, StreamStutters
  <2> QED
    BY <2>1, <2>3, <2>4, <2>5
<1>4. CASE OpenStore
  <2>1. /\ UNCHANGED <<response, given, state>> /\ outcome = "none" /\ state = "Init"
        /\ outcome' \in {"returned", "store threw"}
    BY <1>4, OpenStoreStep DEF OpenStore, constVars, decoderVars
  <2>2. Phase' = Phase
    BY <2>1, PhaseFacts, PhaseAfter
  <2> QED
    BY <2>1, <2>2, StreamStutters
<1> QED
  BY <1>1, <1>2, <1>3, <1>4

\* The steps of Process: metadata and records are handed over, or the stream fails.
LEMMA StreamOfProcess ==
  ASSUME IInv, ReadSome \/ DecodePrelude \/ DecodeMetadata \/ DecodeRecord
  PROVE  [Stream!Next]_(Stream!vars)
<1>1. /\ pc \in {"reading", "decoding"} /\ UNCHANGED response
  BY DEF ReadSome, DecodePrelude, DecodeMetadata, DecodeRecord, constVars
<1>2. outcome = "none" /\ Phase = IF state = "Records" THEN "records" ELSE "opened"
  BY <1>1, InsideFacts, PhaseFacts
<1>3. CASE ReadSome
  <2>1. UNCHANGED <<state, given>> /\ outcome' \in {"none", "threw"}
    BY <1>2, <1>3 DEF ReadSome, EndCall
  <2>2. CASE outcome' = "threw"
    <3>1. ~Intact
      BY <1>3, <2>2, RoundStep DEF Intact
    <3> QED
      BY <1>1, <1>2, <2>1, <2>2, <3>1, ThrowFails
  <2>3. CASE outcome' = "none"
    <3>1. Phase' = Phase
      BY <1>2, <2>1, <2>3, PhaseAfter
    <3> QED
      BY <1>1, <2>1, <3>1, StreamStutters
  <2> QED
    BY <2>1, <2>2, <2>3
<1>4. CASE DecodePrelude
  <2>1. /\ state = "Init" /\ state' \in {"Init", "Metadata"} /\ UNCHANGED given /\ outcome' \in {"none", "threw"}
    BY <1>2, <1>4 DEF DecodePrelude, EndCall, ReadOn
  <2>2. CASE outcome' = "threw"
    <3>1. ~Intact
      BY <1>4, <2>2, PreludeStep DEF Intact
    <3> QED
      BY <1>1, <1>2, <2>1, <2>2, <3>1, ThrowFails
  <2>3. CASE outcome' = "none"
    <3>1. Phase' = Phase
      BY <1>2, <2>1, <2>3, PhaseAfter
    <3> QED
      BY <1>1, <2>1, <3>1, StreamStutters
  <2> QED
    BY <2>1, <2>2, <2>3
<1>5. CASE DecodeMetadata
  <2>1. /\ state = "Metadata" /\ UNCHANGED given
        /\ \/ state' = "Metadata" /\ outcome' \in {"none", "threw", "callback threw"}
           \/ state' = "Records" /\ outcome' = "none"
    BY <1>2, <1>5 DEF DecodeMetadata, EndCall, ReadOn
  <2>2. CASE outcome' = "threw"
    <3>1. ~Intact
      BY <1>5, <2>2, MetadataStep DEF Intact
    <3> QED
      BY <1>1, <1>2, <2>1, <2>2, <3>1, ThrowFails
  <2>3. CASE state' = "Metadata" /\ outcome' \in {"none", "callback threw"}
    <3>1. Phase' = Phase
      BY <1>2, <2>1, <2>3, PhaseAfter
    <3> QED
      BY <1>1, <2>1, <3>1, StreamStutters
  <2>4. CASE state' = "Records" /\ outcome' = "none"
    <3>1. Phase = "opened" /\ Phase' = "records"
      BY <1>2, <2>1, <2>4, PhaseAfter
    <3>2. Stream!GiveMetadata
      BY <2>1, <3>1 DEF Stream!GiveMetadata
    <3> QED
      BY <1>1, <3>2, SameInput DEF Stream!Next
  <2> QED
    BY <2>1, <2>2, <2>3, <2>4
<1>6. CASE DecodeRecord
  <2>1. /\ pc = "decoding" /\ state = "Records" /\ UNCHANGED state
        /\ \/ UNCHANGED given /\ outcome' = "none"
           \/ /\ HasRecord /\ given' = Append(given, buf.mem[buf.rd].rec)
              /\ outcome' \in {"none", "stopped", "callback threw"}
    BY <1>2, <1>6 DEF DecodeRecord, EndCall, ReadOn
  <2>2. Phase = "records" /\ Phase' = "records"
    BY <1>2, <2>1, PhaseAfter
  <2>3. CASE UNCHANGED given
    BY <1>1, <2>2, <2>3, StreamStutters
  <2>4. CASE HasRecord /\ given' = Append(given, buf.mem[buf.rd].rec)
    <3>1. buf.mem[buf.rd].rec = Len(given) + 1 /\ Len(given) < Cardinality(WholeRecords)
      BY <2>1, <2>4, NextRecord
    <3>2. Stream!GiveRecord
      BY <2>2, <2>4, <3>1 DEF Stream!GiveRecord
    <3> QED
      BY <1>1, <3>2, SameInput DEF Stream!Next
  <2> QED
    BY <2>1, <2>3, <2>4
<1> QED
  BY <1>3, <1>4, <1>5, <1>6

\* DbnBufferDecoder hands over a record stream, however the response was cut into chunks,
\* blocks and frames: metadata, each record once and in order, a return only when none
\* is left of a response that came to its end, an exception only for a broken one.
THEOREM ImplementsRecordStreamHolds == Spec => ImplementsRecordStream
<1>1. Init => Stream!Init
  <2> SUFFICES ASSUME Init PROVE Stream!Init
    OBVIOUS
  <2>1. outcome = "none" /\ state = "Init" /\ given = << >>
    BY DEF Init
  <2>2. Phase = "opened"
    BY <2>1, PhaseFacts
  <2>3. Intact \in BOOLEAN /\ (EndsWithFrame /\ Uncorrupted /\ ~EmptyFrameInside) \in BOOLEAN
    BY DEF Intact
  <2>4. Cardinality(WholeRecords) \in Nat
    BY WholeFinite
  <2> QED
    BY <2>1, <2>2, <2>3, <2>4 DEF Stream!Init
<1>2. IInv /\ [Next]_vars => [Stream!Next]_(Stream!vars)
  <2> SUFFICES ASSUME IInv, [Next]_vars PROVE [Stream!Next]_(Stream!vars)
    OBVIOUS
  <2>1. CASE UNCHANGED vars
    <3>1. UNCHANGED <<response, given, state, outcome>>
      BY <2>1 DEF vars, constVars, decoderVars
    <3>2. Phase' = Phase
      BY <3>1 DEF Phase
    <3> QED
      BY <3>1, <3>2, StreamStutters
  <2>2. CASE Step
    BY <2>1, <2>2, StreamOfResponse, StreamOfProcess DEF Step, OpenStoreLoops
  <2> QED
    BY <2>1, <2>2 DEF Next, Done
<1> QED
  BY IInvHolds, <1>1, <1>2, PTL DEF Spec, ImplementsRecordStream, Stream!Spec

============================================================================
