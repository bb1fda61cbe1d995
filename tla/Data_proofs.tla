------------------------------ MODULE Data_proofs ------------------------------
(***************************************************************************)
(* The components that hold data and have no connection.  Buffer           *)
(* implements ByteFifo for every capacity and every length of write; what  *)
(* ZstdCompressStream has forwarded after a Flush is what was written, for *)
(* all sizes of its buffers and all writes; the symbol maps of all         *)
(* metadata agree; metadata that is written to a file and read from it,    *)
(* any number of times, reads back as what was written; and records keep   *)
(* what they hold through every sequence of upgrades.                      *)
(***************************************************************************)
EXTENDS Buffer, ZstdCompress, SymbolMaps, Files, StreamLemmas

\* The lemmas about buffers apply with S = Byte.
LEMMA BufferOfBytes ==
  ASSUME NEW b
  PROVE  (IsBuffer(b) <=> BufferOf(b, Byte)) /\ (Initialised(b) <=> Holds(b, Byte))
  BY DEF IsBuffer, BufferOf, Initialised, Holds, Cell

-----------------------------------------------------------------------------

\* What a call may be given to write.
LEMMA DataSeq == ASSUME NEW data \in Data PROVE data \in Seq(Byte) /\ Len(data) \in Nat
<1>1. PICK n \in 0..MaxWrite : data \in [1..n -> Byte]
  BY DEF Data
<1>2. n \in Nat
  BY BufferAssumption
<1> QED
  BY <1>1, <1>2, FunctionSeq

Inv == TypeOK /\ UnreadIsInitialised

\* The empty buffer satisfies the invariant and is the empty queue.
LEMMA InitLemma == BufInit => Inv /\ Fifo!Init
<1> SUFFICES ASSUME BufInit PROVE Inv /\ Fifo!Init
  OBVIOUS
<1>1. /\ buf.cap = InitCapacity /\ buf.rd = 0 /\ buf.wr = 0
      /\ buf.mem = [i \in 0..(InitCapacity - 1) |-> Uninit]
      /\ buf = [cap |-> buf.cap, rd |-> buf.rd, wr |-> buf.wr, mem |-> buf.mem]
  BY DEF BufInit, NewBuffer
<1>2. IsBuffer(buf) /\ Initialised(buf)
  BY <1>1, BufferAssumption DEF IsBuffer, Initialised
<1>3. Unread(buf) \in Seq(Cell(Byte)) /\ Len(Unread(buf)) = 0
  BY <1>1, <1>2, UnreadSeq, BufferOfBytes
<1>4. Unread(buf) = << >>
  BY <1>3, EmptySeq
<1> QED
  BY <1>1, <1>2, <1>4
  DEF BufInit, Inv, TypeOK, UnreadIsInitialised, Fifo!Init, Fifo!Nothing, Fifo!Returned,
      Nothing, Returned

\* Every call keeps the invariant and is a call of the same name on the queue;
\* Shift and ShiftForSpace leave it alone.
LEMMA NextLemma == Inv /\ BufNext => Inv' /\ Fifo!Next
<1> SUFFICES ASSUME Inv, BufNext PROVE Inv' /\ Fifo!Next
  OBVIOUS
<1>1. IsBuffer(buf) /\ Initialised(buf)
  BY DEF Inv, TypeOK, UnreadIsInitialised
<1>2. /\ ReadCapacity(buf) \in Nat /\ buf.cap \in Nat
      /\ Len(Unread(buf)) = ReadCapacity(buf)
      /\ Unread(buf) \in Seq(Cell(Byte))
  BY <1>1, UnreadSeq, BufferOfBytes DEF IsBuffer, ReadCapacity
<1>3. Unread(buf)' = Unread(buf')
  BY DEF Unread, ReadCapacity
<1>4. IsBuffer(buf') /\ Initialised(buf') => Inv'
  BY DEF Inv, TypeOK, UnreadIsInitialised, IsBuffer, Initialised
<1> USE DEF Fifo!Room, Fifo!Nothing, Fifo!Returned, Fifo!Threw, Nothing, Returned, Threw
<1>5. ASSUME NEW data \in Data, DoFill(data) PROVE Inv' /\ Fifo!Fill(data)
  <2>1. data \in Seq(Byte) /\ Len(data) <= WriteCapacity(buf) /\ Len(data) \in Nat
    BY <1>5, DataSeq DEF DoFill
  <2>2. buf' = Fill(buf, data)
    BY <1>5 DEF DoFill
  <2>3. /\ IsBuffer(buf') /\ Initialised(buf')
        /\ buf'.cap = buf.cap /\ Unread(buf') = Unread(buf) \o data
    BY <1>1, <2>1, <2>2, FillLemma, BufferOfBytes
  <2>4. Len(data) <= buf.cap - Len(Unread(buf))
    BY <1>1, <1>2, <2>1 DEF IsBuffer, WriteCapacity, ReadCapacity
  <2> QED
    BY <1>3, <1>4, <1>5, <2>3, <2>4 DEF DoFill, Fifo!Fill, Fifo!Put
<1>6. ASSUME NEW data \in Data, DoWrite(data) PROVE Inv' /\ Fifo!Write(data)
  <2>1. data \in Seq(Byte)
    BY DataSeq
  <2>2. buf' = Write(buf, data) /\ ret' = Returned(WriteSize(buf, Len(data)), << >>)
    BY <1>6 DEF DoWrite
  <2> DEFINE room == buf.cap - ReadCapacity(buf)
             n == IF room < Len(data) THEN room ELSE Len(data)
  <2>3. /\ WriteSize(buf, Len(data)) = n
        /\ IsBuffer(buf') /\ Initialised(buf')
        /\ buf'.cap = buf.cap /\ Unread(buf') = Unread(buf) \o SubSeq(data, 1, n)
    BY <1>1, <2>1, <2>2, WriteLemma, BufferOfBytes
  <2> QED
    BY <1>2, <1>3, <1>4, <2>2, <2>3 DEF Fifo!Write
<1>7. ASSUME NEW data \in Data, DoWriteAll(data) PROVE Inv' /\ Fifo!WriteAll(data)
  <2>1. data \in Seq(Byte)
    BY DataSeq
  <2>2. buf' = WriteAll(buf, data) /\ ret' = Nothing
    BY <1>7 DEF DoWriteAll
  <2>3. /\ IsBuffer(buf') /\ Initialised(buf')
        /\ buf'.cap = IF Len(data) > buf.cap - ReadCapacity(buf)
                        THEN ReadCapacity(buf) + Len(data) ELSE buf.cap
        /\ Unread(buf') = Unread(buf) \o data
    BY <1>1, <2>1, <2>2, WriteAllLemma, BufferOfBytes
  <2> QED
    BY <1>2, <1>3, <1>4, <2>2, <2>3 DEF Fifo!WriteAll
<1>8. ASSUME NEW n \in Nat, n <= ReadCapacity(buf), buf' = Consume(buf, n)
      PROVE  /\ Inv' /\ buf'.cap = buf.cap
             /\ Unread(buf)' = SubSeq(Unread(buf), n + 1, Len(Unread(buf)))
  BY <1>1, <1>3, <1>4, <1>8, ConsumeLemma, BufferOfBytes
<1>9. ASSUME NEW n \in 0..MaxCapacity, DoConsume(n) PROVE Inv' /\ Fifo!Consume(n)
  BY <1>2, <1>8, <1>9, BufferAssumption DEF DoConsume, Fifo!Consume
<1>10. ASSUME NEW n \in 0..MaxCapacity, ReadSome(n) PROVE Inv' /\ Fifo!ReadSome(n)
  <2>1. ReadSize(buf, n) \in Nat /\ ReadSize(buf, n) <= ReadCapacity(buf)
    BY <1>2, BufferAssumption DEF ReadSize
  <2>2. /\ buf' = Consume(buf, ReadSize(buf, n))
        /\ ret' = Returned(ReadSize(buf, n), SubSeq(Unread(buf), 1, ReadSize(buf, n)))
    BY <1>10 DEF ReadSome
  <2>3. ReadSize(buf, n) = IF Len(Unread(buf)) < n THEN Len(Unread(buf)) ELSE n
    BY <1>2 DEF ReadSize
  <2> QED
    BY <1>8, <2>1, <2>2, <2>3 DEF Fifo!ReadSome, Fifo!Take
<1>11. ASSUME NEW n \in 0..MaxCapacity, ReadExact(n) PROVE Inv' /\ Fifo!ReadExact(n)
  <2>1. CASE n > ReadCapacity(buf)
    BY <1>1, <1>2, <1>3, <1>4, <1>11, <2>1 DEF ReadExact, Fifo!ReadExact
  <2>2. CASE ~(n > ReadCapacity(buf))
    <3>1. n \in Nat /\ n <= ReadCapacity(buf) /\ ReadSize(buf, n) = n
      BY <1>2, <2>2, BufferAssumption DEF ReadSize
    <3>2. /\ buf' = Consume(buf, n)
          /\ ret' = Returned(n, SubSeq(Unread(buf), 1, n))
      BY <1>11, <2>2, <3>1 DEF ReadExact, ReadSome
    <3> QED
      BY <1>2, <1>8, <3>1, <3>2 DEF Fifo!ReadExact, Fifo!Take
  <2> QED
    BY <2>1, <2>2
<1>12. ASSUME NEW n \in 0..MaxCapacity, DoReserve(n) PROVE Inv' /\ Fifo!Reserve(n)
  <2>1. n \in Nat
    BY BufferAssumption
  <2>2. /\ IsBuffer(buf') /\ Initialised(buf')
        /\ buf'.cap = IF n <= buf.cap THEN buf.cap ELSE n
        /\ Unread(buf') = Unread(buf)
    BY <1>1, <1>12, <2>1, ReserveLemma, BufferOfBytes DEF DoReserve
  <2> QED
    BY <1>3, <1>4, <1>12, <2>2 DEF DoReserve, Fifo!Reserve
<1>13. ASSUME NEW n \in 0..MaxCapacity, DoShiftForSpace(n) PROVE Inv' /\ Fifo!Rearrange
  <2>1. n \in Nat
    BY BufferAssumption
  <2>2. /\ IsBuffer(buf') /\ Initialised(buf')
        /\ buf'.cap = buf.cap /\ Unread(buf') = Unread(buf)
    BY <1>1, <1>13, <2>1, ShiftForSpaceLemma, BufferOfBytes DEF DoShiftForSpace
  <2> QED
    BY <1>3, <1>4, <1>13, <2>2 DEF DoShiftForSpace, Fifo!Rearrange
<1>14. CASE DoShift
  <2>1. /\ IsBuffer(buf') /\ Initialised(buf')
        /\ buf'.cap = buf.cap /\ Unread(buf') = Unread(buf)
    BY <1>1, <1>14, ShiftLemma, BufferOfBytes DEF DoShift
  <2> QED
    BY <1>3, <1>4, <1>14, <2>1 DEF DoShift, Fifo!Rearrange, Fifo!Next
<1>15. CASE DoClear
  <2>1. /\ IsBuffer(buf') /\ Initialised(buf')
        /\ buf'.cap = buf.cap /\ Unread(buf') = << >>
    BY <1>1, <1>15, ClearLemma, BufferOfBytes DEF DoClear
  <2> QED
    BY <1>3, <1>4, <1>15, <2>1 DEF DoClear, Fifo!Clear, Fifo!Next
<1>16. Data = Fifo!Data
  BY DEF Data, Fifo!Data
<1> QED
  BY <1>5, <1>6, <1>7, <1>9, <1>10, <1>11, <1>12, <1>13, <1>14, <1>15, <1>16, Zenon
  DEF BufNext, Fifo!Next

\* A step that leaves the buffer alone leaves the queue alone.
LEMMA StutterLemma == Inv /\ UNCHANGED bufVars => Inv' /\ UNCHANGED Fifo!vars
  BY DEF bufVars, Fifo!vars, Inv, TypeOK, UnreadIsInitialised, IsBuffer, Initialised, Unread,
         ReadCapacity

\* The invariant holds in every reachable state.
LEMMA InvHolds == BufSpec => []Inv
<1>1. Inv /\ [BufNext]_bufVars => Inv'
  BY NextLemma, StutterLemma
<1> QED
  BY InitLemma, <1>1, PTL DEF BufSpec

\* The cursors stay ordered and inside the allocation, for every capacity, and no
\* uninitialised byte is ever handed to a reader.
THEOREM UnreadInitialised == BufSpec => []UnreadIsInitialised
<1>1. Inv => UnreadIsInitialised
  BY DEF Inv
<1> QED
  BY <1>1, InvHolds, PTL

\* ShiftForSpace makes contiguous room whenever the buffer holds that much free space.
THEOREM MakesRoom == BufSpec => []ShiftForSpaceMakesRoom
<1>1. Inv => ShiftForSpaceMakesRoom
  BY ShiftForSpaceLemma, BufferOfBytes, BufferAssumption DEF Inv, TypeOK, ShiftForSpaceMakesRoom
<1> QED
  BY <1>1, InvHolds, PTL

\* Buffer implements the byte queue: every call sequence returns what a queue would.
THEOREM Refinement == BufSpec => ImplementsFifo
<1>1. Inv /\ [BufNext]_bufVars => [Fifo!Next]_(Fifo!vars)
  BY NextLemma, StutterLemma
<1> QED
  BY InitLemma, InvHolds, <1>1, PTL DEF BufSpec, ImplementsFifo, Fifo!Spec

-----------------------------------------------------------------------------
(* ZstdCompressStream.                                                     *)

\* What was written is what the frames forwarded hold, what libzstd has taken of the current
\* frame and what waits in in_buffer_, in this order, as long as nothing has failed.
ZcTypes ==
  /\ mem \in Seq(ZcByte) /\ in_size \in 0..Len(mem)
  /\ z_in.size \in 0..Len(mem) /\ z_in.pos \in 0..z_in.size
  /\ frame \in Seq(ZcByte) /\ sent \in Seq(Seq(ZcByte)) /\ written \in Seq(ZcByte)
ZcFlow == lost \/ failed \/ written = Cat(Cat(FlattenSeq(sent), frame), InBuffer)
ZcGone == flushing = "gone" => failed \/ (frame = << >> /\ in_size = 0)
ZcInv == ZcTypes /\ ZcFlow /\ ZcGone

\* The bytes in in_buffer_, and the input libzstd is shown.
LEMMA ZcParts ==
  ASSUME ZcTypes
  PROVE  /\ InBuffer \in Seq(ZcByte) /\ Len(InBuffer) = in_size /\ Pending \in Seq(ZcByte)
         /\ FlattenSeq(sent) \in Seq(ZcByte)
<1>1. InBuffer \in Seq(ZcByte) /\ Len(InBuffer) = in_size
  BY TakeDrop DEF ZcTypes, InBuffer
<1>2. Pending \in Seq(ZcByte)
  <2>1. \A i \in (z_in.pos + 1)..z_in.size : i \in 1..Len(mem)
    BY DEF ZcTypes
  <2>2. /\ mem \in Seq(ZcByte) /\ z_in.pos + 1 \in 1..(Len(mem) + 1)
        /\ z_in.size \in (z_in.pos + 1 - 1)..Len(mem)
    BY DEF ZcTypes
  <2> QED
    BY <2>2, SubSeqProperties DEF Pending
<1>3. FlattenSeq(sent) \in Seq(ZcByte)
  <2>1. << >> \in Seq(Seq(ZcByte)) /\ sent \in Seq(Seq(ZcByte))
    BY DEF ZcTypes
  <2> QED
    BY <2>1, FlattenParts
<1> QED
  BY <1>1, <1>2, <1>3

\* The input that was not taken is moved to the front.
LEMMA ShiftedFront ==
  ASSUME NEW all \in Seq(ZcByte), NEW pos \in 0..Len(all)
  PROVE  /\ Shifted(all, pos) \in Seq(ZcByte) /\ Len(Shifted(all, pos)) = Len(all)
         /\ SubSeq(Shifted(all, pos), 1, Len(all) - pos) = SubSeq(all, pos + 1, Len(all))
<1> DEFINE n == Len(all)
           s == Shifted(all, pos)
           a == SubSeq(s, 1, n - pos)
           b == SubSeq(all, pos + 1, n)
<1>1. n \in Nat /\ pos \in Nat /\ \A i \in 1..n : all[i] \in ZcByte
  BY ElementOfSeq
<1>2. \A i \in 1..n : i <= n - pos => i + pos \in 1..n
  BY <1>1
<1>3. s \in [1..n -> ZcByte]
  BY <1>1, <1>2 DEF Shifted
<1>4. s \in Seq(ZcByte) /\ Len(s) = n
  BY <1>1, <1>3, FunctionSeq
<1>5. \A i \in 1..(n - pos) : s[i] = all[i + pos]
  BY <1>1 DEF Shifted
<1> HIDE DEF s
<1>6. a \in Seq(ZcByte) /\ Len(a) = n - pos /\ \A i \in 1..(n - pos) : a[i] = s[i]
  <2>1. n - pos \in 0..Len(s)
    BY <1>1, <1>4
  <2> QED
    BY <1>4, <2>1, TakeDrop
<1>7. b \in Seq(ZcByte) /\ Len(b) = n - pos /\ \A i \in 1..(n - pos) : b[i] = all[pos + i]
  BY TakeDrop
<1>8. \A i \in 1..(n - pos) : a[i] = b[i]
  BY <1>1, <1>5, <1>6, <1>7
<1> HIDE DEF a, b
<1>9. a = b
  BY <1>6, <1>7, <1>8, SeqEqual
<1> QED
  BY <1>4, <1>9 DEF a, b, s

\* WriteAll keeps the order of the bytes.
LEMMA ZcWriteStep ==
  ASSUME ZcInv, NEW data \in Writes, ZcWriteAll(data)
  PROVE  ZcInv'
<1> DEFINE all == InBuffer \o data
           f == FlattenSeq(sent)
           w == InBuffer
<1>0. ZcTypes /\ ZcFlow /\ ZcGone
  BY DEF ZcInv
<1>1. data \in Seq(ZcByte)
  BY ZcAssumption
<1>2. w \in Seq(ZcByte) /\ Len(w) = in_size /\ f \in Seq(ZcByte)
  BY <1>0, ZcParts
<1>3. all \in Seq(ZcByte) /\ Len(all) = in_size + Len(data) /\ Len(all) \in Nat
  <2>1. all = w \o data
    OBVIOUS
  <2> HIDE DEF all, w
  <2>2. all \in Seq(ZcByte) /\ Len(all) = Len(w) + Len(data)
    BY <1>1, <1>2, <2>1, ConcatParts
  <2> QED
    BY <1>2, <2>2
<1>4. flushing = "no" /\ written' = written \o data /\ UNCHANGED <<sent, flushing, lost>>
  BY DEF ZcWriteAll, MayCall
<1>5. frame \in Seq(ZcByte) /\ written \in Seq(ZcByte)
  BY <1>0 DEF ZcTypes
<1>6. written' \in Seq(ZcByte) /\ ZcGone'
  BY <1>1, <1>4, <1>5 DEF ZcGone
<1>7. lost \/ failed \/ written' = Cat(Cat(f, frame), all)
  <2> SUFFICES ASSUME ~lost, ~failed PROVE written' = Cat(Cat(f, frame), all)
    OBVIOUS
  <2>1. written = Cat(Cat(f, frame), w)
    BY <1>0 DEF ZcFlow
  <2> HIDE DEF f, w
  <2>2. Cat(f, frame) \in Seq(ZcByte)
    BY <1>2, <1>5, CatFacts
  <2>3. Cat(Cat(f, frame), Cat(w, data)) = Cat(Cat(Cat(f, frame), w), data)
    BY <1>1, <1>2, <2>2, CatFacts
  <2>4. all = Cat(w, data) /\ written' = Cat(written, data)
    BY <1>4 DEF Cat, w
  <2> QED
    BY <2>1, <2>3, <2>4
<1> HIDE DEF all, w
<1>8. CASE WriteWaits(data)
  <2>1. /\ mem' = all /\ in_size' = Len(all) /\ z_in' = [size |-> Len(all), pos |-> 0]
        /\ frame' = frame /\ failed' = failed
    BY <1>8 DEF WriteWaits, all
  <2>2. ZcTypes'
    BY <1>0, <1>3, <1>4, <1>6, <2>1 DEF ZcTypes
  <2>3. InBuffer' = all
    BY <1>3, <2>1 DEF InBuffer
  <2>4. ZcFlow'
    BY <1>4, <1>7, <2>1, <2>3 DEF ZcFlow
  <2> QED
    BY <1>6, <2>2, <2>4 DEF ZcInv
<1>9. ASSUME NEW pos \in 0..(in_size + Len(data)), NEW out \in 0..OutSize, WriteCompresses(data, pos, out)
      PROVE  ZcInv'
  <2>1. pos \in 0..Len(all)
    BY <1>3, <1>9
  <2> DEFINE x == SubSeq(all, 1, pos)
             y == SubSeq(all, pos + 1, Len(all))
             s == Shifted(all, pos)
  <2>2. /\ mem' = s /\ in_size' = Len(all) - pos /\ z_in' = [size |-> Len(all), pos |-> pos]
        /\ frame' = frame \o x
    BY <1>9 DEF WriteCompresses, all
  <2>a. failed => failed'
    BY <1>9, Zenon DEF WriteCompresses
  <2>3. s \in Seq(ZcByte) /\ Len(s) = Len(all) /\ SubSeq(s, 1, Len(all) - pos) = y
    BY <1>3, <2>1, ShiftedFront
  <2>4. x \in Seq(ZcByte) /\ y \in Seq(ZcByte) /\ Cat(x, y) = all
    BY <1>3, <2>1, TakeDrop, Rejoined DEF Cat
  <2> HIDE DEF s, x, y
  <2>5. frame' = Cat(frame, x) /\ frame' \in Seq(ZcByte)
    BY <1>5, <2>2, <2>4 DEF Cat
  <2>6. ZcTypes'
    BY <1>0, <1>3, <1>4, <1>6, <2>1, <2>2, <2>3, <2>5 DEF ZcTypes
  <2>7. InBuffer' = y
    BY <2>2, <2>3 DEF InBuffer
  <2>8. Cat(Cat(f, frame), all) = Cat(Cat(f, frame'), y)
    <3> HIDE DEF f
    <3>1. Cat(f, frame) \in Seq(ZcByte)
      BY <1>2, <1>5, CatFacts
    <3>2. Cat(Cat(f, frame), Cat(x, y)) = Cat(Cat(Cat(f, frame), x), y)
      BY <2>4, <3>1, CatFacts
    <3>3. Cat(f, Cat(frame, x)) = Cat(Cat(f, frame), x)
      BY <1>2, <1>5, <2>4, CatFacts
    <3> QED
      BY <2>4, <2>5, <3>2, <3>3
  <2>9. ZcFlow'
    BY <1>4, <1>7, <2>a, <2>7, <2>8 DEF ZcFlow
  <2> QED
    BY <1>6, <2>6, <2>9 DEF ZcInv
<1>10. ASSUME NEW pos \in 0..(in_size + Len(data)), WriteThrows(data, pos) PROVE ZcInv'
  <2> DEFINE x == SubSeq(all, 1, pos)
  <2>1. /\ mem' = all /\ in_size' = Len(all) /\ z_in' = [size |-> Len(all), pos |-> pos]
        /\ frame' = frame \o x /\ failed'
    BY <1>10 DEF WriteThrows, all
  <2>2. pos \in 0..Len(all) /\ x \in Seq(ZcByte)
    BY <1>3, <1>10, TakeDrop
  <2> HIDE DEF x
  <2>3. frame' \in Seq(ZcByte)
    BY <1>5, <2>1, <2>2
  <2>4. ZcTypes'
    BY <1>0, <1>3, <1>4, <1>6, <2>1, <2>2, <2>3 DEF ZcTypes
  <2>5. ZcFlow'
    BY <2>1 DEF ZcFlow
  <2> QED
    BY <1>6, <2>4, <2>5 DEF ZcInv
<1> QED
  BY <1>8, <1>9, <1>10 DEF ZcWriteAll

\* Flush forwards the frame with all that waits, unless what waits was overwritten.
LEMMA ZcFlushStep ==
  ASSUME ZcInv, FlushEnds
  PROVE  ZcInv'
<1> DEFINE x == Cat(frame, Pending)
           e == << >>
<1>0. ZcTypes /\ ZcFlow /\ ZcGone
  BY DEF ZcInv
<1>1. /\ sent' = Append(sent, x) /\ frame' = e /\ mem' = e /\ in_size' = 0
      /\ z_in' = [size |-> 0, pos |-> 0] /\ written' = written
      /\ lost' = (lost \/ Pending # InBuffer) /\ failed' = failed
  BY DEF FlushEnds, Cat
<1>2. /\ InBuffer \in Seq(ZcByte) /\ Pending \in Seq(ZcByte) /\ FlattenSeq(sent) \in Seq(ZcByte)
      /\ frame \in Seq(ZcByte) /\ sent \in Seq(Seq(ZcByte))
  BY <1>0, ZcParts DEF ZcTypes
<1>3. x \in Seq(ZcByte)
  BY <1>2, CatFacts
<1> HIDE DEF x
<1>4. sent' \in Seq(Seq(ZcByte)) /\ sent' = sent \o <<x>> /\ <<x>> \in Seq(Seq(ZcByte))
  BY <1>1, <1>2, <1>3
<1>5. FlattenSeq(sent') = Cat(FlattenSeq(sent), x)
  <2>1. FlattenSeq(sent \o <<x>>) = FlattenSeq(sent) \o FlattenSeq(<<x>>)
    BY <1>2, <1>4, FlattenParts
  <2>2. FlattenSeq(<<x>>) = x
    BY <1>3, FlattenFew
  <2> QED
    BY <1>4, <2>1, <2>2 DEF Cat
<1>6. ZcTypes'
  BY <1>0, <1>1, <1>4 DEF ZcTypes
<1>7. ZcGone'
  BY <1>1 DEF ZcGone
<1>8. InBuffer' = e
  BY <1>1 DEF InBuffer
<1>9. ASSUME ~lost', ~failed PROVE written' = Cat(Cat(FlattenSeq(sent'), frame'), InBuffer')
  <2> DEFINE f == FlattenSeq(sent)
             w == InBuffer
  <2>1. ~lost /\ Pending = w
    BY <1>1, <1>9
  <2>2. written = Cat(Cat(f, frame), w)
    BY <1>0, <1>9, <2>1 DEF ZcFlow
  <2>3. x = Cat(frame, w)
    BY <2>1 DEF x
  <2>4. f \in Seq(ZcByte) /\ w \in Seq(ZcByte)
    BY <1>2
  <2> HIDE DEF f, w
  <2>5. Cat(f, Cat(frame, w)) = Cat(Cat(f, frame), w)
    BY <1>2, <2>4, CatFacts
  <2>6. Cat(f, x) \in Seq(ZcByte)
    BY <1>3, <2>4, CatFacts
  <2>7. Cat(Cat(Cat(f, x), e), e) = Cat(f, x)
    BY <2>6, CatEmpty
  <2>8. FlattenSeq(sent') = Cat(f, x)
    BY <1>5 DEF f
  <2> QED
    BY <1>1, <1>8, <2>2, <2>3, <2>5, <2>7, <2>8
<1>10. ZcFlow'
  BY <1>1, <1>9 DEF ZcFlow
<1> QED
  BY <1>6, <1>7, <1>10 DEF ZcInv

\* A Flush that fails leaves the stream's state in order, if not its content.
LEMMA ZcFailStep ==
  ASSUME ZcInv, FlushGivesUp \/ FlushThrows
  PROVE  ZcInv'
<1>0. ZcTypes /\ failed'
  BY DEF ZcInv, FlushGivesUp, FlushThrows
<1>1. CASE FlushGivesUp
  <2>1. /\ sent' = Append(sent, frame) /\ frame' = << >> /\ mem' = << >> /\ in_size' = 0
        /\ z_in' = [size |-> 0, pos |-> 0] /\ written' = written
    BY <1>1 DEF FlushGivesUp
  <2>2. sent' \in Seq(Seq(ZcByte))
    BY <1>0, <2>1 DEF ZcTypes
  <2>3. ZcTypes'
    BY <1>0, <2>1, <2>2 DEF ZcTypes
  <2> QED
    BY <1>0, <2>3 DEF ZcInv, ZcFlow, ZcGone
<1>2. CASE FlushThrows
  <2>1. /\ frame' = << >> /\ z_in'.size = z_in.size /\ z_in'.pos = z_in.size
        /\ UNCHANGED <<mem, in_size, sent, written>>
    BY <1>0, <1>2 DEF FlushThrows, ZcTypes
  <2>2. ZcTypes'
    BY <1>0, <2>1 DEF ZcTypes
  <2> QED
    BY <1>0, <2>2 DEF ZcInv, ZcFlow, ZcGone
<1> QED
  BY <1>1, <1>2

\* Once Flush has returned, the frames ZstdCompressStream has forwarded decompress to every
\* byte written, in order and once: for all sizes of its buffers, all writes and whatever
\* libzstd takes of them and puts out.
THEOREM FlushedReadsBackHolds == ZcSpec => []FlushedReadsBack
<1>1. ZcInit => ZcInv
  <2> SUFFICES ASSUME ZcInit PROVE ZcInv
    OBVIOUS
  <2>1. FlattenSeq(<< >>) = << >>
    BY DEF FlattenSeq
  <2>2. ZcTypes /\ ZcGone
    BY DEF ZcInit, ZcTypes, ZcGone
  <2>3. InBuffer = << >>
    BY DEF ZcInit, InBuffer
  <2>4. ZcFlow
    BY <2>1, <2>3 DEF ZcInit, ZcFlow, Cat
  <2> QED
    BY <2>2, <2>4 DEF ZcInv
<1>2. ZcInv /\ [ZcNext]_zcVars => ZcInv'
  <2> SUFFICES ASSUME ZcInv, [ZcNext]_zcVars PROVE ZcInv'
    OBVIOUS
  <2>1. ASSUME NEW data \in Writes, ZcWriteAll(data) PROVE ZcInv'
    BY <2>1, ZcWriteStep
  <2>2. CASE FlushEnds
    BY <2>2, ZcFlushStep
  <2>3. CASE Flush \/ UNCHANGED zcVars
    <3>1. /\ UNCHANGED <<mem, in_size, z_in, frame, sent, written, failed, lost>>
          /\ flushing' = "gone" => flushing = "gone"
      BY <2>3 DEF Flush, zcVars
    <3>2. InBuffer' = InBuffer
      BY <3>1 DEF InBuffer
    <3> QED
      BY <3>1, <3>2 DEF ZcInv, ZcTypes, ZcFlow, ZcGone
  <2>4. CASE FlushGivesUp \/ FlushThrows
    BY <2>4, ZcFailStep
  <2> QED
    BY <2>1, <2>2, <2>3, <2>4 DEF ZcNext, FlushLoops
<1>3. ZcInv => FlushedReadsBack
  <2> SUFFICES ASSUME ZcInv, ~lost, ~failed, frame = << >>, in_size = 0 PROVE FlattenSeq(sent) = written
    BY DEF FlushedReadsBack, ZcInv, ZcGone
  <2>1. InBuffer \in Seq(ZcByte) /\ Len(InBuffer) = 0 /\ FlattenSeq(sent) \in Seq(ZcByte)
    BY ZcParts DEF ZcInv
  <2>2. InBuffer = << >>
    BY <2>1, EmptySeq
  <2>3. Cat(Cat(FlattenSeq(sent), << >>), << >>) = FlattenSeq(sent)
    BY <2>1, CatEmpty
  <2>4. written = Cat(Cat(FlattenSeq(sent), frame), InBuffer)
    BY DEF ZcInv, ZcFlow
  <2> QED
    BY <2>2, <2>3, <2>4
<1> QED
  BY <1>1, <1>2, <1>3, PTL DEF ZcSpec

-----------------------------------------------------------------------------
(* The symbol maps.                                                        *)

\* Maps to symbols, of days and instruments or of instruments, and what a loop gives.
MapsOn(K) == UNION {[D -> STRING] : D \in SUBSET K}
Keys == Int \X Nat
DayMaps == MapsOn(Keys)
IdMaps == MapsOn(Nat)
Results(T) == [map : T, throws : BOOLEAN]

\* A map is known by its domain and its values.
LEMMA MapIs ==
  ASSUME NEW K, NEW m
  PROVE  m \in MapsOn(K) <=> /\ DOMAIN m \subseteq K /\ m = [k \in DOMAIN m |-> m[k]]
                             /\ \A k \in DOMAIN m : m[k] \in STRING
<1>1. ASSUME m \in MapsOn(K)
      PROVE  /\ DOMAIN m \subseteq K /\ m = [k \in DOMAIN m |-> m[k]]
             /\ \A k \in DOMAIN m : m[k] \in STRING
  <2>1. PICK D \in SUBSET K : m \in [D -> STRING]
    BY <1>1 DEF MapsOn
  <2> QED
    BY <2>1
<1>2. ASSUME DOMAIN m \subseteq K, m = [k \in DOMAIN m |-> m[k]],
             \A k \in DOMAIN m : m[k] \in STRING
      PROVE  m \in MapsOn(K)
  <2>1. m \in [DOMAIN m -> STRING]
    BY <1>2
  <2> QED
    BY <1>2, <2>1 DEF MapsOn
<1> QED
  BY <1>1, <1>2

\* What emplacing gives.
LEMMA EmplacedMap ==
  ASSUME NEW K, NEW f \in MapsOn(K), NEW g \in MapsOn(K)
  PROVE  Emplaced(f, g) \in MapsOn(K)
<1> DEFINE e == Emplaced(f, g)
<1>1. DOMAIN e = DOMAIN f \cup DOMAIN g /\ e = [k \in DOMAIN e |-> e[k]]
  BY DEF Emplaced
<1>2. \A k \in DOMAIN e : e[k] = IF k \in DOMAIN f THEN f[k] ELSE g[k]
  BY DEF Emplaced
<1>3. /\ DOMAIN f \subseteq K /\ \A k \in DOMAIN f : f[k] \in STRING
      /\ DOMAIN g \subseteq K /\ \A k \in DOMAIN g : g[k] \in STRING
  BY MapIs
<1> HIDE DEF e
<1>4. DOMAIN e \subseteq K /\ \A k \in DOMAIN e : e[k] \in STRING
  BY <1>1, <1>2, <1>3
<1> QED
  BY <1>1, <1>4, MapIs DEF e

\* A constant map, and the empty one.
LEMMA ConstantMap ==
  ASSUME NEW K, NEW D \in SUBSET K, NEW s \in STRING
  PROVE  [k \in D |-> s] \in MapsOn(K)
<1>1. [k \in D |-> s] \in [D -> STRING]
  OBVIOUS
<1> QED
  BY <1>1 DEF MapsOn

\* The empty map is a map, and so is the result that holds it.
LEMMA EmptyMap ==
  ASSUME NEW K
  PROVE  Empty \in MapsOn(K) /\ Result(Empty) \in Results(MapsOn(K)) /\ Thrown \in Results(MapsOn(K))
<1>1. Empty \in [{} -> STRING]
  BY DEF Empty
<1>2. Empty \in MapsOn(K)
  BY <1>1 DEF MapsOn
<1> QED
  BY <1>2 DEF Results, Result, Thrown

-----------------------------------------------------------------------------
(* Loops that may throw.                                                   *)

\* g holds the results of the first k steps.
Runs(g, T, n, res, steps) ==
  /\ g[0] = res
  /\ \A k \in 0..n : g[k] \in Results(T)
  /\ \A k \in 1..n : g[k] = IF g[k - 1].throws THEN g[k - 1] ELSE steps[k][g[k - 1].map]

\* There are such results.
LEMMA RunExists ==
  ASSUME NEW T, NEW n \in Nat, NEW res \in Results(T), NEW steps \in [1..n -> [T -> Results(T)]]
  PROVE  \E g \in [0..n -> Results(T)] : Runs(g, T, n, res, steps)
<1> DEFINE R == Results(T)
           step == [k \in 1..n |-> [r \in R |-> IF r.throws THEN r ELSE steps[k][r.map]]]
<1>1. step \in [1..n -> [R -> R]]
  <2>1. ASSUME NEW k \in 1..n, NEW r \in R PROVE (IF r.throws THEN r ELSE steps[k][r.map]) \in R
    BY <2>1 DEF Results
  <2> QED
    BY <2>1
<1> HIDE DEF R
<1>2. PICK g : Recurs(g, R, n, res, step)
  BY <1>1, RecursionExists DEF R
<1>3. g \in [0..n -> R] /\ g[0] = res /\ \A k \in 1..n : g[k] = step[k][g[k - 1]]
  BY <1>2 DEF Recurs
<1>4. ASSUME NEW k \in 1..n
      PROVE  g[k] = IF g[k - 1].throws THEN g[k - 1] ELSE steps[k][g[k - 1].map]
  <2>1. k - 1 \in 0..n /\ g[k - 1] \in R
    BY <1>3
  <2> QED
    BY <1>3, <2>1
<1> QED
  BY <1>3, <1>4 DEF Runs, R

\* So does g as long as its results are such.
Follows(g, T, n, res, steps) ==
  /\ g[0] = res
  /\ \A k \in 1..n : g[k - 1] \in Results(T) =>
       g[k] = IF g[k - 1].throws THEN g[k - 1] ELSE steps[k][g[k - 1].map]

\* There is one way to run.
LEMMA RunsOnce ==
  ASSUME NEW T, NEW n \in Nat, NEW res, NEW steps, NEW f, Runs(f, T, n, res, steps),
         NEW g, Follows(g, T, n, res, steps)
  PROVE  Runs(g, T, n, res, steps) /\ g[n] = f[n]
<1> DEFINE S == {k \in Nat : k <= n => g[k] = f[k]}
<1>1. 0 \in S
  BY DEF Runs, Follows
<1>2. ASSUME NEW k \in S PROVE k + 1 \in S
  <2> SUFFICES ASSUME k + 1 <= n PROVE g[k + 1] = f[k + 1]
    BY <1>2
  <2>1. k + 1 \in 1..n /\ (k + 1) - 1 = k /\ g[k] = f[k] /\ k \in 0..n
    BY <1>2
  <2>2. f[k] \in Results(T)
    BY <2>1 DEF Runs
  <2>3. f[k + 1] = IF f[k].throws THEN f[k] ELSE steps[k + 1][f[k].map]
    BY <2>1 DEF Runs
  <2>4. g[k + 1] = IF g[k].throws THEN g[k] ELSE steps[k + 1][g[k].map]
    BY <2>1, <2>2 DEF Follows
  <2> QED
    BY <2>1, <2>3, <2>4
<1>3. S = Nat
  <2> HIDE DEF S
  <2>1. S \in SUBSET Nat
    BY DEF S
  <2> QED
    BY <1>1, <1>2, <2>1, SetInduction
<1>4. \A k \in 0..n : g[k] = f[k]
  BY <1>3
<1>5. \A k \in 1..n : k - 1 \in 0..n /\ k \in 0..n
  OBVIOUS
<1> QED
  BY <1>4, <1>5 DEF Runs

\* Two runs of the same steps end alike.
LEMMA RunsAlike ==
  ASSUME NEW T, NEW n \in Nat, NEW res, NEW steps, NEW f, Runs(f, T, n, res, steps),
         NEW g, Runs(g, T, n, res, steps)
  PROVE  g[n] = f[n]
<1>1. Follows(g, T, n, res, steps)
  BY DEF Runs, Follows
<1> QED
  BY <1>1, RunsOnce

-----------------------------------------------------------------------------
(* The loops over intervals and mappings.                                  *)

\* A number is one of an instrument, a name is a text.
LEMMA NumberAndName ==
  ASSUME NEW x \in SymbolMapping, NEW i \in MappingInterval, NEW inverse \in BOOLEAN
  PROVE  /\ NumberOf(x, i, inverse) \in DOMAIN Numbers => Numbers[NumberOf(x, i, inverse)] \in Nat
         /\ NameOf(x, i, inverse) \in STRING
  BY SymbolsAssumption DEF NumberOf, NameOf, SymbolMapping, MappingInterval

\* The days of an interval, for one instrument.
DaysOf(i, id) == (i.start_date .. (i.end_date - 1)) \X {id}

\* Inserting an interval gives a map or throws.
LEMMA InsertIntervalType ==
  ASSUME NEW map \in DayMaps, NEW x \in SymbolMapping, NEW i \in MappingInterval,
         NEW inverse \in BOOLEAN, NEW skip \in BOOLEAN
  PROVE  InsertInterval(map, x, i, inverse, skip) \in Results(DayMaps)
<1> DEFINE number == NumberOf(x, i, inverse)
           name == NameOf(x, i, inverse)
           more == [k \in DaysOf(i, Numbers[number]) |-> name]
<1>1. Result(map) \in Results(DayMaps) /\ Thrown \in Results(DayMaps)
  BY EmptyMap DEF Results, Result, DayMaps
<1>2. ASSUME number \in DOMAIN Numbers
      PROVE  Result(Emplaced(map, more)) \in Results(DayMaps)
  <2>1. Numbers[number] \in Nat /\ name \in STRING /\ i.start_date \in Int /\ i.end_date \in Int
    BY <1>2, NumberAndName DEF MappingInterval
  <2> HIDE DEF number, name
  <2>2. DaysOf(i, Numbers[number]) \in SUBSET Keys
    BY <2>1 DEF DaysOf, Keys
  <2>3. more \in DayMaps
    BY <2>1, <2>2, ConstantMap DEF DayMaps
  <2> HIDE DEF more
  <2>4. Emplaced(map, more) \in DayMaps
    BY <2>3, EmplacedMap DEF DayMaps
  <2> QED
    BY <2>4 DEF Results, Result
<1>3. CASE skip /\ i.symbol = ""
  BY <1>1, <1>3 DEF InsertInterval
<1>4. CASE ~(skip /\ i.symbol = "") /\ number \notin DOMAIN Numbers
  BY <1>1, <1>4 DEF InsertInterval
<1>5. CASE ~(skip /\ i.symbol = "") /\ number \in DOMAIN Numbers
  <2>1. InsertInterval(map, x, i, inverse, skip) = Insert(map, Numbers[number], i, name)
    BY <1>5 DEF InsertInterval
  <2> QED
    BY <1>1, <1>2, <1>5, <2>1 DEF Insert, DaysOf
<1> QED
  BY <1>3, <1>4, <1>5

\* The steps of the loop over the intervals of a mapping.
IntervalSteps(x, inverse, skip) ==
  [k \in 1..Len(x.intervals) |->
     [r \in DayMaps |-> InsertInterval(r, x, x.intervals[k], inverse, skip)]]

\* Inserting a mapping is a run over its intervals,
LEMMA IntervalsRun ==
  ASSUME NEW map \in DayMaps, NEW x \in SymbolMapping,
         NEW inverse \in BOOLEAN, NEW skip \in BOOLEAN,
         ~(inverse /\ x.raw_symbol \notin DOMAIN Numbers)
  PROVE  \E g : /\ Runs(g, DayMaps, Len(x.intervals), Result(map), IntervalSteps(x, inverse, skip))
                /\ InsertMapping(map, x, inverse, skip) = g[Len(x.intervals)]
<1> DEFINE s == x.intervals
           n == Len(s)
           steps == IntervalSteps(x, inverse, skip)
           Next1(r, k) == IF r.throws THEN r ELSE InsertInterval(r.map, x, s[k], inverse, skip)
           Is(g) == g = [k \in 0..n |-> IF k = 0 THEN Result(map) ELSE Next1(g[k - 1], k)]
           run == CHOOSE g : Is(g)
<1>1. n \in Nat /\ \A k \in 1..n : s[k] \in MappingInterval
  BY ElementOfSeq DEF SymbolMapping
<1>2. Result(map) \in Results(DayMaps)
  BY DEF Results, Result
<1>3. steps \in [1..n -> [DayMaps -> Results(DayMaps)]]
  BY <1>1, InsertIntervalType DEF IntervalSteps
<1>4. \A r \in Results(DayMaps), k \in 1..n :
        (IF r.throws THEN r ELSE steps[k][r.map]) = Next1(r, k)
  BY DEF Results, IntervalSteps
<1> HIDE DEF steps, Next1
<1>5. PICK f \in [0..n -> Results(DayMaps)] : Runs(f, DayMaps, n, Result(map), steps)
  BY <1>1, <1>2, <1>3, RunExists
<1>6. Is(f)
  <2>1. ASSUME NEW k \in 1..n PROVE f[k] = Next1(f[k - 1], k)
    <3>1. k - 1 \in 0..n /\ f[k - 1] \in Results(DayMaps)
      BY <1>1, <1>5
    <3> QED
      BY <1>4, <1>5, <3>1 DEF Runs
  <2>2. \A k \in 0..n : k = 0 \/ k \in 1..n
    BY <1>1
  <2>3. f[0] = Result(map)
    BY <1>5 DEF Runs
  <2>4. \A k \in 0..n : f[k] = IF k = 0 THEN Result(map) ELSE Next1(f[k - 1], k)
    BY <2>1, <2>2, <2>3
  <2>5. f = [k \in 0..n |-> f[k]]
    BY <1>5
  <2> QED
    BY <2>4, <2>5
<1>7. Is(run)
  <2> HIDE DEF Is
  <2> QED
    BY <1>6
<1>8. InsertMapping(map, x, inverse, skip) = run[n]
  BY DEF InsertMapping, Throwing, Next1
<1> HIDE DEF run
<1>9. run[0] = Result(map) /\ \A k \in 1..n : run[k] = Next1(run[k - 1], k)
  <2>1. \A k \in 0..n : run[k] = IF k = 0 THEN Result(map) ELSE Next1(run[k - 1], k)
    BY <1>7
  <2> QED
    BY <1>1, <2>1
<1>10. Runs(run, DayMaps, n, Result(map), steps)
  <2>1. Follows(run, DayMaps, n, Result(map), steps)
    BY <1>4, <1>9 DEF Follows
  <2> QED
    BY <1>1, <1>5, <2>1, RunsOnce
<1> QED
  BY <1>8, <1>10 DEF steps
\* So does the loop over the mappings, whose steps are such loops.
LEMMA InsertMappingType ==
  ASSUME NEW map \in DayMaps, NEW x \in SymbolMapping,
         NEW inverse \in BOOLEAN, NEW skip \in BOOLEAN
  PROVE  InsertMapping(map, x, inverse, skip) \in Results(DayMaps)
<1>1. CASE inverse /\ x.raw_symbol \notin DOMAIN Numbers
  BY <1>1, EmptyMap DEF InsertMapping, DayMaps
<1>2. CASE ~(inverse /\ x.raw_symbol \notin DOMAIN Numbers)
  <2>1. PICK g : /\ Runs(g, DayMaps, Len(x.intervals), Result(map), IntervalSteps(x, inverse, skip))
                 /\ InsertMapping(map, x, inverse, skip) = g[Len(x.intervals)]
    BY <1>2, IntervalsRun
  <2>2. Len(x.intervals) \in Nat
    BY DEF SymbolMapping
  <2> QED
    BY <2>1, <2>2 DEF Runs
<1> QED
  BY <1>1, <1>2

MappingSteps(s, inverse, skip) ==
  [k \in 1..Len(s) |-> [r \in DayMaps |-> InsertMapping(r, s[k], inverse, skip)]]

\* and inserting the mappings one over the mappings.
LEMMA MappingsRun ==
  ASSUME NEW s \in Seq(SymbolMapping), NEW inverse \in BOOLEAN, NEW skip \in BOOLEAN
  PROVE  \E g : /\ Runs(g, DayMaps, Len(s), Result(Empty), MappingSteps(s, inverse, skip))
                /\ InsertMappings(s, inverse, skip) = g[Len(s)]
<1> DEFINE n == Len(s)
           steps == MappingSteps(s, inverse, skip)
           Next1(r, k) == IF r.throws THEN r ELSE InsertMapping(r.map, s[k], inverse, skip)
           Is(g) == g = [k \in 0..n |-> IF k = 0 THEN Result(Empty) ELSE Next1(g[k - 1], k)]
           run == CHOOSE g : Is(g)
<1>1. n \in Nat /\ \A k \in 1..n : s[k] \in SymbolMapping
  BY ElementOfSeq
<1>2. Result(Empty) \in Results(DayMaps)
  BY EmptyMap DEF DayMaps
<1>3. steps \in [1..n -> [DayMaps -> Results(DayMaps)]]
  BY <1>1, InsertMappingType DEF MappingSteps
<1>4. \A r \in Results(DayMaps), k \in 1..n :
        (IF r.throws THEN r ELSE steps[k][r.map]) = Next1(r, k)
  BY DEF Results, MappingSteps
<1> HIDE DEF steps, Next1
<1>5. PICK f \in [0..n -> Results(DayMaps)] : Runs(f, DayMaps, n, Result(Empty), steps)
  BY <1>1, <1>2, <1>3, RunExists
<1>6. Is(f)
  <2>1. ASSUME NEW k \in 1..n PROVE f[k] = Next1(f[k - 1], k)
    <3>1. k - 1 \in 0..n /\ f[k - 1] \in Results(DayMaps)
      BY <1>1, <1>5
    <3> QED
      BY <1>4, <1>5, <3>1 DEF Runs
  <2>2. \A k \in 0..n : k = 0 \/ k \in 1..n
    BY <1>1
  <2>3. f[0] = Result(Empty)
    BY <1>5 DEF Runs
  <2>4. \A k \in 0..n : f[k] = IF k = 0 THEN Result(Empty) ELSE Next1(f[k - 1], k)
    BY <2>1, <2>2, <2>3
  <2>5. f = [k \in 0..n |-> f[k]]
    BY <1>5
  <2> QED
    BY <2>4, <2>5
<1>7. Is(run)
  <2> HIDE DEF Is
  <2> QED
    BY <1>6
<1>8. InsertMappings(s, inverse, skip) = run[n]
  BY DEF InsertMappings, Throwing, Next1
<1> HIDE DEF run
<1>9. run[0] = Result(Empty) /\ \A k \in 1..n : run[k] = Next1(run[k - 1], k)
  <2>1. \A k \in 0..n : run[k] = IF k = 0 THEN Result(Empty) ELSE Next1(run[k - 1], k)
    BY <1>7
  <2> QED
    BY <1>1, <2>1
<1>10. Runs(run, DayMaps, n, Result(Empty), steps)
  <2>1. Follows(run, DayMaps, n, Result(Empty), steps)
    BY <1>4, <1>9 DEF Follows
  <2> QED
    BY <1>1, <1>5, <2>1, RunsOnce
<1> QED
  BY <1>8, <1>10 DEF steps

-----------------------------------------------------------------------------
(* The map of a day.                                                       *)

\* std::find_if finds one of the intervals that cover the day, if there are any.
FirstAt(x, d) == x.intervals[Min(IntervalsAt(x.intervals, d))]

\* It is an interval, at the first place where one covers the day.
LEMMA FirstCovers ==
  ASSUME NEW x \in SymbolMapping, NEW d \in Nat, IntervalsAt(x.intervals, d) # {}
  PROVE  /\ Min(IntervalsAt(x.intervals, d)) \in IntervalsAt(x.intervals, d)
         /\ FirstAt(x, d) \in MappingInterval
<1> DEFINE C == IntervalsAt(x.intervals, d)
<1>1. C \in SUBSET Nat /\ C \subseteq 1..Len(x.intervals)
  BY DEF IntervalsAt, SymbolMapping
<1> HIDE DEF C
<1>2. \E i \in C : \A j \in C : i <= j
  BY <1>1, NatMin DEF C
<1>3. Min(C) \in C
  BY <1>2 DEF Min
<1>4. x.intervals[Min(C)] \in MappingInterval
  BY <1>1, <1>3, ElementOfSeq DEF SymbolMapping
<1> QED
  BY <1>3, <1>4 DEF C, FirstAt

\* Looking a mapping up gives a map or throws,
LEMMA FindMappingType ==
  ASSUME NEW map \in IdMaps, NEW x \in SymbolMapping, NEW inverse \in BOOLEAN, NEW d \in Nat
  PROVE  FindMapping(map, x, inverse, d) \in Results(IdMaps)
<1> DEFINE found == IntervalsAt(x.intervals, d)
           first == FirstAt(x, d)
           number == NumberOf(x, first, inverse)
           name == NameOf(x, first, inverse)
           more == [id \in {Numbers[number]} |-> name]
<1>1. Result(map) \in Results(IdMaps) /\ Thrown \in Results(IdMaps)
  BY EmptyMap DEF Results, Result, IdMaps
<1>2. ASSUME found # {}, number \in DOMAIN Numbers
      PROVE  Result(Emplaced(map, more)) \in Results(IdMaps)
  <2>1. first \in MappingInterval
    BY <1>2, FirstCovers
  <2> HIDE DEF first
  <2>2. Numbers[number] \in Nat /\ name \in STRING
    BY <1>2, <2>1, NumberAndName
  <2> HIDE DEF number, name
  <2>3. more \in IdMaps
    BY <2>2, ConstantMap DEF IdMaps
  <2> HIDE DEF more
  <2>4. Emplaced(map, more) \in IdMaps
    BY <2>3, EmplacedMap DEF IdMaps
  <2> QED
    BY <2>4 DEF Results, Result
<1>3. \/ FindMapping(map, x, inverse, d) \in {Result(map), Thrown}
      \/ /\ found # {} /\ number \in DOMAIN Numbers
         /\ FindMapping(map, x, inverse, d) = Result(Emplaced(map, more))
  BY DEF FindMapping, FirstAt
<1> HIDE DEF more, number, found
<1> QED
  BY <1>1, <1>2, <1>3

FindSteps(s, inverse, d) ==
  [k \in 1..Len(s) |-> [r \in IdMaps |-> FindMapping(r, s[k], inverse, d)]]

\* and the lookup of all of them is a run over the mappings.
LEMMA FindRun ==
  ASSUME NEW s \in Seq(SymbolMapping), NEW inverse \in BOOLEAN, NEW d \in Nat
  PROVE  \E g : /\ Runs(g, IdMaps, Len(s), Result(Empty), FindSteps(s, inverse, d))
                /\ FindMappings(s, inverse, d) = g[Len(s)]
<1> DEFINE n == Len(s)
           steps == FindSteps(s, inverse, d)
           Next1(r, k) == IF r.throws THEN r ELSE FindMapping(r.map, s[k], inverse, d)
           Is(g) == g = [k \in 0..n |-> IF k = 0 THEN Result(Empty) ELSE Next1(g[k - 1], k)]
           run == CHOOSE g : Is(g)
<1>1. n \in Nat /\ \A k \in 1..n : s[k] \in SymbolMapping
  BY ElementOfSeq
<1>2. Result(Empty) \in Results(IdMaps)
  BY EmptyMap DEF IdMaps
<1>3. steps \in [1..n -> [IdMaps -> Results(IdMaps)]]
  BY <1>1, FindMappingType DEF FindSteps
<1>4. \A r \in Results(IdMaps), k \in 1..n :
        (IF r.throws THEN r ELSE steps[k][r.map]) = Next1(r, k)
  BY DEF Results, FindSteps
<1> HIDE DEF steps, Next1
<1>5. PICK f \in [0..n -> Results(IdMaps)] : Runs(f, IdMaps, n, Result(Empty), steps)
  BY <1>1, <1>2, <1>3, RunExists
<1>6. Is(f)
  <2>1. ASSUME NEW k \in 1..n PROVE f[k] = Next1(f[k - 1], k)
    <3>1. k - 1 \in 0..n /\ f[k - 1] \in Results(IdMaps)
      BY <1>1, <1>5
    <3> QED
      BY <1>4, <1>5, <3>1 DEF Runs
  <2>2. \A k \in 0..n : k = 0 \/ k \in 1..n
    BY <1>1
  <2>3. f[0] = Result(Empty)
    BY <1>5 DEF Runs
  <2>4. \A k \in 0..n : f[k] = IF k = 0 THEN Result(Empty) ELSE Next1(f[k - 1], k)
    BY <2>1, <2>2, <2>3
  <2>5. f = [k \in 0..n |-> f[k]]
    BY <1>5
  <2> QED
    BY <2>4, <2>5
<1>7. Is(run)
  <2> HIDE DEF Is
  <2> QED
    BY <1>6
<1>8. FindMappings(s, inverse, d) = run[n]
  BY DEF FindMappings, Throwing, Next1
<1> HIDE DEF run
<1>9. run[0] = Result(Empty) /\ \A k \in 1..n : run[k] = Next1(run[k - 1], k)
  <2>1. \A k \in 0..n : run[k] = IF k = 0 THEN Result(Empty) ELSE Next1(run[k - 1], k)
    BY <1>7
  <2> QED
    BY <1>1, <2>1
<1>10. Runs(run, IdMaps, n, Result(Empty), steps)
  <2>1. Follows(run, IdMaps, n, Result(Empty), steps)
    BY <1>4, <1>9 DEF Follows
  <2> QED
    BY <1>1, <1>5, <2>1, RunsOnce
<1> QED
  BY <1>8, <1>10 DEF steps
-----------------------------------------------------------------------------
(* The map over time at a day.                                             *)

\* What a slice holds.
LEMMA SliceIs ==
  ASSUME NEW map \in DayMaps, NEW d \in Nat
  PROVE  /\ Slice(map, d) = [id \in DOMAIN Slice(map, d) |-> map[<<d, id>>]]
         /\ \A id : id \in DOMAIN Slice(map, d) <=> <<d, id>> \in DOMAIN map
<1> DEFINE D == {k[2] : k \in {k \in DOMAIN map : k[1] = d}}
<1>1. DOMAIN map \subseteq Keys
  BY MapIs DEF DayMaps
<1>2. \A k \in DOMAIN map : k = <<k[1], k[2]>>
  BY <1>1 DEF Keys
<1>3. ASSUME NEW id PROVE id \in D <=> <<d, id>> \in DOMAIN map
  <2>1. ASSUME id \in D PROVE <<d, id>> \in DOMAIN map
    <3>1. PICK k \in DOMAIN map : k[1] = d /\ k[2] = id
      BY <2>1
    <3> QED
      BY <1>2, <3>1
  <2>2. ASSUME <<d, id>> \in DOMAIN map PROVE id \in D
    <3>1. <<d, id>>[1] = d /\ <<d, id>>[2] = id
      OBVIOUS
    <3> QED
      BY <2>2, <3>1
  <2> QED
    BY <2>1, <2>2
<1>4. Slice(map, d) = [id \in D |-> map[<<d, id>>]]
  BY DEF Slice
<1> HIDE DEF D
<1>5. DOMAIN Slice(map, d) = D
  BY <1>4
<1> QED
  BY <1>3, <1>4, <1>5

\* Days emplaced for an instrument appear in the slice of a day among them, and in no other.
LEMMA SliceInsert ==
  ASSUME NEW map \in DayMaps, NEW d \in Nat, NEW i \in MappingInterval, NEW id \in Nat,
         NEW name \in STRING
  PROVE  LET e == Emplaced(map, [k \in DaysOf(i, id) |-> name])
         IN  Slice(e, d) = IF d >= i.start_date /\ d < i.end_date
                             THEN Emplaced(Slice(map, d), [j \in {id} |-> name])
                             ELSE Slice(map, d)
<1> DEFINE more == [k \in DaysOf(i, id) |-> name]
           e == Emplaced(map, more)
           one == [j \in {id} |-> name]
           covered == d >= i.start_date /\ d < i.end_date
           a == Slice(map, d)
           b == Slice(e, d)
<1>1. i.start_date \in Int /\ i.end_date \in Int
  BY DEF MappingInterval
<1>2. \A j : <<d, j>> \in DaysOf(i, id) <=> covered /\ j = id
  BY <1>1 DEF DaysOf
<1>3. more \in DayMaps
  <2>1. DaysOf(i, id) \in SUBSET Keys
    BY <1>1 DEF DaysOf, Keys
  <2> QED
    BY <2>1, ConstantMap DEF DayMaps
<1>4. e \in DayMaps
  BY <1>3, EmplacedMap DEF DayMaps
<1>5. /\ DOMAIN e = DOMAIN map \cup DaysOf(i, id)
      /\ \A k \in DOMAIN e : e[k] = IF k \in DOMAIN map THEN map[k] ELSE name
  BY DEF Emplaced
<1> HIDE DEF e
<1>6. /\ a = [j \in DOMAIN a |-> map[<<d, j>>]]
      /\ \A j : j \in DOMAIN a <=> <<d, j>> \in DOMAIN map
  BY SliceIs
<1>7. /\ b = [j \in DOMAIN b |-> e[<<d, j>>]]
      /\ \A j : j \in DOMAIN b <=> <<d, j>> \in DOMAIN e
  BY <1>4, SliceIs
<1> HIDE DEF a, b
<1>8. \A j : j \in DOMAIN b <=> j \in DOMAIN a \/ (covered /\ j = id)
  BY <1>2, <1>5, <1>6, <1>7
<1>9. \A j \in DOMAIN b : b[j] = IF j \in DOMAIN a THEN a[j] ELSE name
  <2> TAKE j \in DOMAIN b
  <2>1. b[j] = e[<<d, j>>] /\ <<d, j>> \in DOMAIN e
    BY <1>7
  <2>2. j \in DOMAIN a => a[j] = map[<<d, j>>] /\ <<d, j>> \in DOMAIN map
    BY <1>6
  <2>3. j \notin DOMAIN a => <<d, j>> \notin DOMAIN map
    BY <1>6
  <2> QED
    BY <1>5, <2>1, <2>2, <2>3
<1>10. CASE covered
  <2> DEFINE c == Emplaced(a, one)
  <2>1. DOMAIN c = DOMAIN a \cup {id} /\ c = [j \in DOMAIN c |-> c[j]]
        /\ \A j \in DOMAIN c : c[j] = IF j \in DOMAIN a THEN a[j] ELSE name
    BY DEF Emplaced
  <2> HIDE DEF c
  <2>2. DOMAIN b = DOMAIN c
    BY <1>8, <1>10, <2>1
  <2>3. b = [j \in DOMAIN b |-> b[j]]
    BY <1>7
  <2>4. \A j \in DOMAIN b : b[j] = c[j]
    BY <1>9, <2>1, <2>2
  <2>5. b = c
    BY <2>1, <2>2, <2>3, <2>4
  <2> QED
    BY <1>10, <2>5 DEF a, b, c, e
<1>11. CASE ~covered
  <2>1. DOMAIN b = DOMAIN a
    BY <1>8, <1>11
  <2>2. a = [j \in DOMAIN a |-> a[j]] /\ b = [j \in DOMAIN b |-> b[j]]
    BY <1>6, <1>7
  <2>3. \A j \in DOMAIN b : b[j] = a[j]
    BY <1>9, <2>1
  <2>4. b = a
    BY <2>1, <2>2, <2>3
  <2> QED
    BY <1>11, <2>4 DEF a, b, e
<1> QED
  BY <1>10, <1>11
\* The entry for a day that interval i makes, and intervals that share no day.
Entry(x, i, inverse) == [id \in {Numbers[NumberOf(x, i, inverse)]} |-> NameOf(x, i, inverse)]
Apart(x) ==
  \A i, j \in 1..Len(x.intervals) :
    i < j => \/ x.intervals[i].end_date <= x.intervals[j].start_date
             \/ x.intervals[j].end_date <= x.intervals[i].start_date

\* One interval of a mapping.
LEMMA IntervalInserted ==
  ASSUME NEW map \in DayMaps, NEW x \in SymbolMapping, NEW v \in MappingInterval,
         NEW inverse \in BOOLEAN, NEW d \in Nat, ~InsertInterval(map, x, v, inverse, TRUE).throws
  PROVE  LET r == InsertInterval(map, x, v, inverse, TRUE).map
         IN  \/ v.symbol = "" /\ r = map
             \/ /\ v.symbol # "" /\ NumberOf(x, v, inverse) \in DOMAIN Numbers
                /\ Slice(r, d) = IF d >= v.start_date /\ d < v.end_date
                                   THEN Emplaced(Slice(map, d), Entry(x, v, inverse))
                                   ELSE Slice(map, d)
<1> DEFINE number == NumberOf(x, v, inverse)
           name == NameOf(x, v, inverse)
           e == Emplaced(map, [k \in DaysOf(v, Numbers[number]) |-> name])
<1>1. CASE v.symbol = ""
  BY <1>1 DEF InsertInterval, Result
<1>2. CASE v.symbol # ""
  <2>1. number \in DOMAIN Numbers
    BY <1>2 DEF InsertInterval, Thrown
  <2>2. Numbers[number] \in Nat /\ name \in STRING
    BY <2>1, NumberAndName
  <2>3. InsertInterval(map, x, v, inverse, TRUE) = Insert(map, Numbers[number], v, name)
    BY <1>2, <2>1 DEF InsertInterval
  <2> HIDE DEF number, name
  <2>4. Insert(map, Numbers[number], v, name) = IF v.start_date > v.end_date THEN Thrown ELSE Result(e)
    BY DEF Insert, DaysOf
  <2> HIDE DEF e
  <2>a. Thrown.throws /\ Result(e).map = e
    BY DEF Thrown, Result
  <2>5. InsertInterval(map, x, v, inverse, TRUE).map = e
    BY <2>3, <2>4, <2>a
  <2>6. Slice(e, d) = IF d >= v.start_date /\ d < v.end_date
                        THEN Emplaced(Slice(map, d), [j \in {Numbers[number]} |-> name])
                        ELSE Slice(map, d)
    BY <2>2, SliceInsert DEF e
  <2> QED
    BY <1>2, <2>1, <2>5, <2>6 DEF Entry, e, number, name
<1> QED
  BY <1>1, <1>2

\* The intervals of a mapping: TsSymbolMap has read as a number what PitSymbolMap would, and
\* the day has the entry of an interval that covers it.
Shows(t, map, x, d, inverse, j) ==
  LET C == {i \in IntervalsAt(x.intervals, d) : x.intervals[i].symbol # ""}
  IN  /\ \A i \in 1..j : x.intervals[i].symbol # "" =>
           NumberOf(x, x.intervals[i], inverse) \in DOMAIN Numbers
      /\ Apart(x) => /\ (\A i \in 1..j : i \notin C) => Slice(t, d) = Slice(map, d)
                     /\ \A i \in 1..j : i \in C =>
                          Slice(t, d) = Emplaced(Slice(map, d), Entry(x, x.intervals[i], inverse))

\* One more interval of a mapping keeps the comparison.
LEMMA IntervalShown ==
  ASSUME NEW map \in DayMaps, NEW x \in SymbolMapping, NEW inverse \in BOOLEAN, NEW d \in Nat,
         NEW t \in DayMaps, NEW j \in Nat, j + 1 \in 1..Len(x.intervals),
         Shows(t, map, x, d, inverse, j),
         ~InsertInterval(t, x, x.intervals[j + 1], inverse, TRUE).throws
  PROVE  Shows(InsertInterval(t, x, x.intervals[j + 1], inverse, TRUE).map, map, x, d, inverse, j + 1)
<1> DEFINE s == x.intervals
           v == s[j + 1]
           r == InsertInterval(t, x, v, inverse, TRUE).map
           C == {i \in IntervalsAt(s, d) : s[i].symbol # ""}
           Made(i) == Entry(x, s[i], inverse)
           Named(i) == s[i].symbol # "" => NumberOf(x, s[i], inverse) \in DOMAIN Numbers
           covered == d >= v.start_date /\ d < v.end_date
<1>1. Len(s) \in Nat /\ \A i \in 1..Len(s) : s[i] \in MappingInterval
  BY ElementOfSeq DEF SymbolMapping
<1>2. \/ v.symbol = "" /\ r = t
      \/ /\ v.symbol # "" /\ NumberOf(x, v, inverse) \in DOMAIN Numbers
         /\ Slice(r, d) = IF covered THEN Emplaced(Slice(t, d), Made(j + 1)) ELSE Slice(t, d)
  BY <1>1, IntervalInserted
<1>3. j + 1 \in C <=> v.symbol # "" /\ covered
  BY DEF IntervalsAt
<1>a. \A i \in 1..j : i < j + 1 /\ i \in 1..Len(s)
  <2>1. j + 1 \in 1..Len(s)
    OBVIOUS
  <2> HIDE DEF s
  <2> QED
    BY <1>1, <2>1
<1>4. Apart(x) => \A i \in 1..j : j + 1 \in C => i \notin C
  <2> SUFFICES ASSUME Apart(x), NEW i \in 1..j, j + 1 \in C, i \in C PROVE FALSE
    OBVIOUS
  <2>1. i < j + 1 /\ i \in 1..Len(s) /\ s[i] \in MappingInterval /\ v \in MappingInterval
    BY <1>1, <1>a, Zenon
  <2>2. s[i].end_date <= v.start_date \/ v.end_date <= s[i].start_date
    BY <2>1 DEF Apart
  <2>3. d >= s[i].start_date /\ d < s[i].end_date /\ d >= v.start_date /\ d < v.end_date
    BY DEF IntervalsAt
  <2>4. s[i].start_date \in Int /\ s[i].end_date \in Int /\ v.start_date \in Int /\ v.end_date \in Int
    BY <2>1 DEF MappingInterval
  <2> DEFINE a == s[i].start_date
             b == s[i].end_date
             p == v.start_date
             q == v.end_date
  <2>5. /\ b <= p \/ q <= a
        /\ d >= a /\ d < b /\ d >= p /\ d < q /\ a \in Int /\ b \in Int /\ p \in Int /\ q \in Int
    BY <2>2, <2>3, <2>4
  <2> HIDE DEF a, b, p, q, C
  <2> QED
    BY <2>5
<1>5. /\ \A i \in 1..j : Named(i)
      /\ Apart(x) => /\ (\A i \in 1..j : i \notin C) => Slice(t, d) = Slice(map, d)
                     /\ \A i \in 1..j : i \in C => Slice(t, d) = Emplaced(Slice(map, d), Made(i))
  BY DEF Shows
<1>6. \A i \in 1..(j + 1) : i \in 1..j \/ i = j + 1
  OBVIOUS
<1>7. j + 1 \in 1..(j + 1) /\ \A i \in 1..j : i \in 1..(j + 1)
  OBVIOUS
<1>8. Named(j + 1)
  BY <1>2
<1>9. \A i \in 1..(j + 1) : Named(i)
  BY <1>5, <1>6, <1>8
<1> HIDE DEF C, Made
<1>10. ASSUME Apart(x), \A i \in 1..(j + 1) : i \notin C PROVE Slice(r, d) = Slice(map, d)
  <2>1. Slice(t, d) = Slice(map, d)
    BY <1>5, <1>7, <1>10
  <2>2. v.symbol = "" \/ ~covered
    BY <1>3, <1>7, <1>10
  <2> HIDE DEF r, v, covered
  <2> QED
    BY <1>2, <2>1, <2>2
<1>11. ASSUME Apart(x), NEW i \in 1..(j + 1), i \in C
       PROVE  Slice(r, d) = Emplaced(Slice(map, d), Made(i))
  <2>1. CASE i = j + 1
    <3>1. v.symbol # "" /\ covered
      BY <1>3, <1>11, <2>1
    <3>2. Slice(t, d) = Slice(map, d)
      BY <1>4, <1>5, <1>11, <2>1
    <3> HIDE DEF r, v, covered
    <3> QED
      BY <1>2, <2>1, <3>1, <3>2
  <2>2. CASE i \in 1..j
    <3>1. Slice(t, d) = Emplaced(Slice(map, d), Made(i))
      BY <1>5, <1>11, <2>2
    <3>2. v.symbol = "" \/ ~covered
      BY <1>3, <1>4, <1>11, <2>2
    <3> HIDE DEF r, v, covered
    <3> QED
      BY <1>2, <3>1, <3>2
  <2> QED
    BY <1>6, <2>1, <2>2
<1> QED
  BY <1>9, <1>10, <1>11 DEF Shows, C, Made
\* All intervals of a mapping.
LEMMA MappingShown ==
  ASSUME NEW map \in DayMaps, NEW x \in SymbolMapping, NEW inverse \in BOOLEAN, NEW d \in Nat,
         ~InsertMapping(map, x, inverse, TRUE).throws
  PROVE  Shows(InsertMapping(map, x, inverse, TRUE).map, map, x, d, inverse, Len(x.intervals))
<1> DEFINE n == Len(x.intervals)
           steps == IntervalSteps(x, inverse, TRUE)
<1>1. n \in Nat
  BY DEF SymbolMapping
<1>2. ~(inverse /\ x.raw_symbol \notin DOMAIN Numbers)
  BY DEF InsertMapping, Thrown
<1>3. PICK g : /\ Runs(g, DayMaps, n, Result(map), steps)
               /\ InsertMapping(map, x, inverse, TRUE) = g[n]
  BY <1>2, IntervalsRun
<1>4. \A k \in 1..n, r \in DayMaps : steps[k][r] = InsertInterval(r, x, x.intervals[k], inverse, TRUE)
  BY DEF IntervalSteps
<1> HIDE DEF n, steps
<1> DEFINE S == {k \in Nat : k <= n /\ ~g[k].throws => Shows(g[k].map, map, x, d, inverse, k)}
<1>5. 0 \in S
  <2>1. g[0].map = map
    BY <1>3 DEF Runs, Result
  <2>2. \A i \in 1..0 : FALSE
    OBVIOUS
  <2>3. Shows(g[0].map, map, x, d, inverse, 0)
    BY <2>1, <2>2, Zenon DEF Shows
  <2> QED
    BY <2>3
<1>6. ASSUME NEW k \in S PROVE k + 1 \in S
  <2> SUFFICES ASSUME k + 1 <= n, ~g[k + 1].throws
               PROVE  Shows(g[k + 1].map, map, x, d, inverse, k + 1)
    BY <1>6
  <2>1. k \in Nat /\ k <= n /\ k \in 0..n /\ k + 1 \in 1..n /\ (k + 1) - 1 = k
    BY <1>1, <1>6
  <2>2. g[k + 1] = (IF g[k].throws THEN g[k] ELSE steps[k + 1][g[k].map]) /\ g[k] \in Results(DayMaps)
    BY <1>3, <2>1 DEF Runs
  <2>3. ~g[k].throws /\ g[k].map \in DayMaps
    BY <2>2 DEF Results
  <2>4. g[k + 1] = InsertInterval(g[k].map, x, x.intervals[k + 1], inverse, TRUE)
    BY <1>4, <2>1, <2>2, <2>3
  <2>5. Shows(g[k].map, map, x, d, inverse, k)
    BY <1>6, <2>1, <2>3
  <2> QED
    BY <2>1, <2>3, <2>4, <2>5, IntervalShown DEF n
<1>7. S = Nat
  <2> HIDE DEF S
  <2>1. S \in SUBSET Nat
    BY DEF S
  <2> QED
    BY <1>5, <1>6, <2>1, SetInduction
<1>8. n \in S /\ n <= n
  BY <1>1, <1>7
<1>9. Shows(g[n].map, map, x, d, inverse, n)
  BY <1>3, <1>8
<1> QED
  BY <1>3, <1>9 DEF n

\* PitSymbolMap makes of a mapping what TsSymbolMap makes of it for the day.
LEMMA MappingFound ==
  ASSUME NEW map \in DayMaps, NEW x \in SymbolMapping, NEW inverse \in BOOLEAN, NEW d \in Nat,
         ~InsertMapping(map, x, inverse, TRUE).throws, NEW q \in IdMaps
  PROVE  /\ ~FindMapping(q, x, inverse, d).throws
         /\ Apart(x) /\ q = Slice(map, d) =>
              FindMapping(q, x, inverse, d).map = Slice(InsertMapping(map, x, inverse, TRUE).map, d)
<1> DEFINE s == x.intervals
           A == IntervalsAt(s, d)
           C == {i \in A : s[i].symbol # ""}
           r == InsertMapping(map, x, inverse, TRUE).map
           m == Min(A)
           first == s[m]
           e == Entry(x, first, inverse)
<1>1. Shows(r, map, x, d, inverse, Len(s))
  BY MappingShown
<1>2. /\ \A i \in 1..Len(s) : s[i].symbol # "" => NumberOf(x, s[i], inverse) \in DOMAIN Numbers
      /\ Apart(x) => /\ (\A i \in 1..Len(s) : i \notin C) => Slice(r, d) = Slice(map, d)
                     /\ \A i \in 1..Len(s) : i \in C =>
                          Slice(r, d) = Emplaced(Slice(map, d), Entry(x, s[i], inverse))
  BY <1>1 DEF Shows
<1>3. A \subseteq 1..Len(s) /\ Len(s) \in Nat /\ (A # {} => m \in A)
  <2>1. A # {} => m \in A
    BY FirstCovers
  <2> QED
    BY <2>1 DEF IntervalsAt, SymbolMapping
<1>4. FindMapping(q, x, inverse, d) = IF A = {} \/ first.symbol = "" THEN Result(q)
        ELSE IF NumberOf(x, first, inverse) \notin DOMAIN Numbers THEN Thrown
        ELSE Result(Emplaced(q, e))
  BY DEF FindMapping, Entry
<1>5. \A u : ~Result(u).throws /\ Result(u).map = u
  BY DEF Result
<1>6. Apart(x) => \A i \in C : m = i
  <2> SUFFICES ASSUME Apart(x), NEW i \in C, m # i PROVE FALSE
    OBVIOUS
  <2>1. i \in A /\ m \in A /\ i \in 1..Len(s) /\ m \in 1..Len(s)
    BY <1>3
  <2>2. i < m \/ m < i
    <3> HIDE DEF s, A, C, m
    <3> QED
      BY <1>3, <2>1
  <2> DEFINE a == s[i].start_date
             b == s[i].end_date
             p == s[m].start_date
             z == s[m].end_date
  <2>3. s[i] \in MappingInterval /\ s[m] \in MappingInterval
    BY <2>1, ElementOfSeq DEF SymbolMapping
  <2>4. a \in Int /\ b \in Int /\ p \in Int /\ z \in Int
    BY <2>3 DEF MappingInterval
  <2>5. d >= a /\ d < b /\ d >= p /\ d < z
    BY <2>1 DEF IntervalsAt
  <2>6. b <= p \/ z <= a
    BY <2>1, <2>2 DEF Apart
  <2> HIDE DEF a, b, p, z, s, A, C, m
  <2> QED
    BY <2>4, <2>5, <2>6
<1> HIDE DEF r, m, s, A
<1>7. CASE A = {} \/ first.symbol = ""
  <2>1. FindMapping(q, x, inverse, d) = Result(q)
    BY <1>4, <1>7
  <2>2. Apart(x) => \A i \in 1..Len(s) : i \notin C
    BY <1>6, <1>7
  <2> QED
    BY <1>2, <1>5, <2>1, <2>2 DEF r
<1>8. CASE A # {} /\ first.symbol # ""
  <2>1. m \in C /\ m \in 1..Len(s)
    BY <1>3, <1>8
  <2>2. NumberOf(x, first, inverse) \in DOMAIN Numbers
    BY <1>2, <1>8, <2>1
  <2>3. FindMapping(q, x, inverse, d) = Result(Emplaced(q, e))
    BY <1>4, <1>8, <2>2
  <2>4. Apart(x) => Slice(r, d) = Emplaced(Slice(map, d), e)
    BY <1>2, <2>1
  <2> QED
    BY <1>5, <2>3, <2>4 DEF r
<1> QED
  BY <1>7, <1>8

\* The two loops over the mappings, side by side.
LEMMA MappingsAgree ==
  ASSUME NEW s \in Seq(SymbolMapping), NEW inverse \in BOOLEAN, NEW d \in Nat,
         ~InsertMappings(s, inverse, TRUE).throws
  PROVE  /\ ~FindMappings(s, inverse, d).throws
         /\ (\A k \in 1..Len(s) : Apart(s[k])) =>
              FindMappings(s, inverse, d).map = Slice(InsertMappings(s, inverse, TRUE).map, d)
<1> DEFINE n == Len(s)
           steps == MappingSteps(s, inverse, TRUE)
           finds == FindSteps(s, inverse, d)
           apart == \A k \in 1..n : Apart(s[k])
<1>1. n \in Nat /\ \A k \in 1..n : s[k] \in SymbolMapping
  BY ElementOfSeq
<1>2. PICK g : Runs(g, DayMaps, n, Result(Empty), steps) /\ InsertMappings(s, inverse, TRUE) = g[n]
  BY MappingsRun
<1>3. PICK f : Runs(f, IdMaps, n, Result(Empty), finds) /\ FindMappings(s, inverse, d) = f[n]
  BY FindRun
<1>4. /\ \A k \in 1..n, r \in DayMaps : steps[k][r] = InsertMapping(r, s[k], inverse, TRUE)
      /\ \A k \in 1..n, r \in IdMaps : finds[k][r] = FindMapping(r, s[k], inverse, d)
  BY DEF MappingSteps, FindSteps
<1> HIDE DEF n, steps, finds
<1> DEFINE Same(k) == ~f[k].throws /\ (apart => f[k].map = Slice(g[k].map, d))
           S == {k \in Nat : k <= n /\ ~g[k].throws => Same(k)}
<1>5. 0 \in S
  <2>1. g[0] = Result(Empty) /\ f[0] = Result(Empty)
    BY <1>2, <1>3 DEF Runs
  <2>2. Slice(Empty, d) = Empty
    <3>1. {k[2] : k \in {k \in DOMAIN Empty : k[1] = d}} = {}
      BY DEF Empty
    <3> QED
      BY <3>1 DEF Slice, Empty
  <2> HIDE DEF apart
  <2> QED
    BY <2>1, <2>2 DEF Result
<1>6. ASSUME NEW k \in S PROVE k + 1 \in S
  <2> SUFFICES ASSUME k + 1 <= n, ~g[k + 1].throws PROVE Same(k + 1)
    BY <1>6
  <2> DEFINE x == s[k + 1]
  <2>1. k \in Nat /\ k <= n /\ k \in 0..n /\ k + 1 \in 1..n /\ (k + 1) - 1 = k
    BY <1>1, <1>6
  <2>2. g[k + 1] = (IF g[k].throws THEN g[k] ELSE steps[k + 1][g[k].map]) /\ g[k] \in Results(DayMaps)
    BY <1>2, <2>1 DEF Runs
  <2>3. f[k + 1] = (IF f[k].throws THEN f[k] ELSE finds[k + 1][f[k].map]) /\ f[k] \in Results(IdMaps)
    BY <1>3, <2>1 DEF Runs
  <2>4. ~g[k].throws /\ g[k].map \in DayMaps /\ f[k].map \in IdMaps
    BY <2>2, <2>3 DEF Results
  <2>5. Same(k)
    BY <1>6, <2>1, <2>4
  <2>6. g[k + 1] = InsertMapping(g[k].map, x, inverse, TRUE)
    BY <1>4, <2>1, <2>2, <2>4
  <2>7. f[k + 1] = FindMapping(f[k].map, x, inverse, d)
    BY <1>4, <2>1, <2>3, <2>4, <2>5
  <2>8. x \in SymbolMapping /\ (apart => Apart(x))
    BY <1>1, <2>1
  <2> HIDE DEF x, apart
  <2>9. /\ ~FindMapping(f[k].map, x, inverse, d).throws
        /\ Apart(x) /\ f[k].map = Slice(g[k].map, d) =>
             FindMapping(f[k].map, x, inverse, d).map = Slice(InsertMapping(g[k].map, x, inverse, TRUE).map, d)
    BY <2>4, <2>6, <2>8, MappingFound
  <2> QED
    BY <2>5, <2>6, <2>7, <2>8, <2>9
<1>7. S = Nat
  <2> HIDE DEF S
  <2>1. S \in SUBSET Nat
    BY DEF S
  <2> QED
    BY <1>5, <1>6, <2>1, SetInduction
<1>8. n \in S /\ n <= n
  BY <1>1, <1>7
<1>9. Same(n)
  BY <1>2, <1>8
<1> QED
  BY <1>2, <1>3, <1>9 DEF n
-----------------------------------------------------------------------------
(* The map of a symbology request.                                         *)

Named(x) == \A k \in 1..Len(x.intervals) : x.intervals[k].symbol # ""

\* Without empty symbols there is nothing to skip, in a mapping
LEMMA NoneSkipped ==
  ASSUME NEW map \in DayMaps, NEW x \in SymbolMapping, NEW inverse \in BOOLEAN, Named(x)
  PROVE  InsertMapping(map, x, inverse, FALSE) = InsertMapping(map, x, inverse, TRUE)
<1> DEFINE n == Len(x.intervals)
           a == IntervalSteps(x, inverse, FALSE)
           b == IntervalSteps(x, inverse, TRUE)
<1>1. CASE inverse /\ x.raw_symbol \notin DOMAIN Numbers
  BY <1>1 DEF InsertMapping
<1>2. CASE ~(inverse /\ x.raw_symbol \notin DOMAIN Numbers)
  <2>1. n \in Nat
    BY DEF SymbolMapping
  <2>2. \A k \in 1..n, r \in DayMaps : InsertInterval(r, x, x.intervals[k], inverse, FALSE)
                                      = InsertInterval(r, x, x.intervals[k], inverse, TRUE)
    BY DEF InsertInterval, Named
  <2>3. a = b
    BY <2>2 DEF IntervalSteps
  <2>4. PICK f : Runs(f, DayMaps, n, Result(map), a) /\ InsertMapping(map, x, inverse, FALSE) = f[n]
    BY <1>2, IntervalsRun
  <2>5. PICK g : Runs(g, DayMaps, n, Result(map), b) /\ InsertMapping(map, x, inverse, TRUE) = g[n]
    BY <1>2, IntervalsRun
  <2> HIDE DEF a, b, n
  <2>6. g[n] = f[n]
    BY <2>1, <2>3, <2>4, <2>5, RunsAlike
  <2> QED
    BY <2>4, <2>5, <2>6
<1> QED
  BY <1>1, <1>2

\* and in all.
LEMMA NoneSkippedInAll ==
  ASSUME NEW s \in Seq(SymbolMapping), NEW inverse \in BOOLEAN, \A k \in 1..Len(s) : Named(s[k])
  PROVE  InsertMappings(s, inverse, FALSE) = InsertMappings(s, inverse, TRUE)
<1> DEFINE n == Len(s)
           a == MappingSteps(s, inverse, FALSE)
           b == MappingSteps(s, inverse, TRUE)
<1>1. n \in Nat /\ \A k \in 1..n : s[k] \in SymbolMapping
  BY ElementOfSeq
<1>2. \A k \in 1..n, r \in DayMaps : InsertMapping(r, s[k], inverse, FALSE)
                                    = InsertMapping(r, s[k], inverse, TRUE)
  BY <1>1, NoneSkipped
<1>3. a = b
  BY <1>2 DEF MappingSteps
<1>4. PICK f : Runs(f, DayMaps, n, Result(Empty), a) /\ InsertMappings(s, inverse, FALSE) = f[n]
  BY MappingsRun
<1>5. PICK g : Runs(g, DayMaps, n, Result(Empty), b) /\ InsertMappings(s, inverse, TRUE) = g[n]
  BY MappingsRun
<1> HIDE DEF a, b, n
<1>6. g[n] = f[n]
  BY <1>1, <1>3, <1>4, <1>5, RunsAlike
<1> QED
  BY <1>4, <1>5, <1>6

\* The mappings are inverse when they lead from ids to symbols.
LEMMA InverseIs ==
  ASSUME NEW m, IsInverse(m) # "throws"
  PROVE  (m.stype_in = "InstrumentId") <=> (IsInverse(m) = "inverse")
  BY DEF IsInverse

\* The order of an unordered_map may be that of the metadata.
LEMMA ResolutionAgrees ==
  ASSUME NEW m \in Mapped, Unambiguous(m)
  PROVE  CreateSymbolMap(m) = {TsSymbolMap(m)}
<1> DEFINE s == m.mappings
           n == Len(s)
           inverse == m.stype_in = "InstrumentId"
           Ordered(p) == [i \in 1..n |-> s[p[i]]]
           same == [i \in 1..n |-> i]
<1>1. s \in Seq(SymbolMapping) /\ n \in Nat
  BY SymbolsAssumption
<1>2. /\ \A x \in ToSet(s) : \A i \in ToSet(x.intervals) : i.symbol # ""
      /\ \A a, b \in CreateSymbolMap(m) : a = b
      /\ IsInverse(m) # "throws"
  BY DEF Unambiguous
<1>3. \A k \in 1..n : s[k] \in SymbolMapping /\ s[k] \in ToSet(s)
  BY <1>1, ElementOfSeq DEF ToSet
<1>4. \A k \in 1..n : Named(s[k])
  <2> SUFFICES ASSUME NEW k \in 1..n, NEW j \in 1..Len(s[k].intervals)
               PROVE  s[k].intervals[j].symbol # ""
    BY DEF Named
  <2> DEFINE x == s[k]
  <2>1. x \in SymbolMapping /\ x \in ToSet(s)
    BY <1>3
  <2> HIDE DEF x
  <2>2. x.intervals \in Seq(MappingInterval)
    BY <2>1 DEF SymbolMapping
  <2>3. j \in 1..Len(x.intervals) => x.intervals[j] \in ToSet(x.intervals)
    BY <2>2 DEF ToSet
  <2> QED
    BY <1>2, <2>1, <2>3 DEF x
<1>5. same \in Orders(n)
  BY DEF Orders
<1>6. Ordered(same) = s
  <2>1. Ordered(same) = [i \in 1..n |-> s[i]]
    OBVIOUS
  <2>2. s = [i \in 1..Len(s) |-> s[i]]
    BY <1>1
  <2> QED
    BY <2>1, <2>2
<1>7. InsertMappings(s, inverse, FALSE) \in CreateSymbolMap(m)
  <2>0. \A p \in Orders(n) : InsertMappings(Ordered(p), inverse, FALSE) \in CreateSymbolMap(m)
    BY DEF CreateSymbolMap
  <2> HIDE DEF same, Ordered
  <2>1. InsertMappings(Ordered(same), inverse, FALSE) \in CreateSymbolMap(m)
    BY <1>5, <2>0
  <2> QED
    BY <1>6, <2>1
<1>8. inverse <=> IsInverse(m) = "inverse"
  BY <1>2, InverseIs
<1> HIDE DEF inverse
<1>9. TsSymbolMap(m) = InsertMappings(s, inverse, TRUE)
  <2>1. inverse = (IsInverse(m) = "inverse")
    BY <1>8 DEF inverse
  <2> QED
    BY <1>2, <2>1 DEF TsSymbolMap
<1>10. InsertMappings(s, inverse, FALSE) = InsertMappings(s, inverse, TRUE)
  BY <1>1, <1>4, NoneSkippedInAll DEF inverse
<1>11. TsSymbolMap(m) \in CreateSymbolMap(m)
  BY <1>7, <1>9, <1>10
<1> QED
  BY <1>2, <1>11

-----------------------------------------------------------------------------
(* Announcements and lookups.                                              *)

\* The map of the day is the one constructed, under what was announced and over what was
\* looked up.
SmInv ==
  /\ mapped \in Mapped
  /\ date = NoDate => heard = Empty /\ asked = {}
  /\ date # NoDate =>
       LET p == PitSymbolMap(mapped, date)
       IN  /\ date \in Nat /\ pit.throws = p.throws
           /\ ~pit.throws => pit.map = Emplaced(Emplaced(heard, p.map), [id \in asked |-> ""])

\* Emplacing is associative.
LEMMA EmplacedThree ==
  ASSUME NEW a, NEW b, NEW c
  PROVE  Emplaced(Emplaced(a, b), c) = Emplaced(a, Emplaced(b, c))
  BY DEF Emplaced

\* Read by its size, a symbol mapping record is read as the struct it is.
LEMMA AnnouncedSymbol ==
  ASSUME NEW format \in Formats, NEW name
  PROVE  LET r == RecordOf("SymbolMapping", format[1], format[2], name)
         IN  MappingVersion(r) = r.version /\ r.f = name
<1> DEFINE sizes == SizeOfStruct["SymbolMapping"]
           v == format[1]
           r == RecordOf("SymbolMapping", v, format[2], name)
           extra == IF format[2] THEN 8 ELSE 0
<1>1. sizes = <<80, 176, 176>>
  BY DEF SizeOfStruct
<1>2. v \in {1, 2} /\ extra \in {0, 8}
  BY SymbolsAssumption
<1>3. r.words = (sizes[v] + extra) \div 4 /\ r.version = v /\ r.f = name
  BY DEF RecordOf, kLengthMultiplier
<1>4. MappingVersion(r) = IF r.words * 4 >= sizes[2] THEN 2 ELSE 1
  BY DEF MappingVersion, kLengthMultiplier
<1> HIDE DEF r, v, extra, sizes
<1>5. sizes[1] = 80 /\ sizes[2] = 176
  BY <1>1
<1>6. MappingVersion(r) = v
  <2>1. CASE v = 1
    BY <1>2, <1>3, <1>4, <1>5, <2>1
  <2>2. CASE v = 2
    BY <1>2, <1>3, <1>4, <1>5, <2>2
  <2> QED
    BY <1>2, <2>1, <2>2
<1> QED
  BY <1>3, <1>6 DEF r, v

\* A session starts with the invariant.
LEMMA SmBegins ==
  ASSUME SmInit
  PROVE  SmInv
  BY DEF SmInit, SmInv

\* PitSymbolMap gives a map or throws.
LEMMA PitMap ==
  ASSUME NEW m \in Mapped, NEW d \in Nat
  PROVE  PitSymbolMap(m, d) \in Results(IdMaps)
<1> DEFINE inverse == IsInverse(m) = "inverse"
<1>1. m.mappings \in Seq(SymbolMapping) /\ inverse \in BOOLEAN
  BY SymbolsAssumption
<1>2. FindMappings(m.mappings, inverse, d) \in Results(IdMaps)
  <2> HIDE DEF inverse
  <2>1. PICK f : /\ Runs(f, IdMaps, Len(m.mappings), Result(Empty), FindSteps(m.mappings, inverse, d))
                 /\ FindMappings(m.mappings, inverse, d) = f[Len(m.mappings)]
    BY <1>1, FindRun
  <2>2. Len(m.mappings) \in 0..Len(m.mappings)
    BY <1>1
  <2> QED
    BY <2>1, <2>2 DEF Runs
<1>3. Thrown \in Results(IdMaps)
  BY EmptyMap DEF IdMaps
<1> QED
  BY <1>2, <1>3 DEF PitSymbolMap

\* The construction of the map of a day keeps the invariant,
LEMMA CreateStep ==
  ASSUME SmInv, NEW d \in Dates, CreateSymbolMapForDate(d)
  PROVE  SmInv'
<1> DEFINE p == PitSymbolMap(mapped, d)
<1>1. /\ date = NoDate /\ pit' = p /\ date' = d /\ mapped \in Mapped /\ heard = Empty /\ asked = {}
      /\ mapped' = mapped /\ heard' = heard /\ asked' = asked
  BY DEF CreateSymbolMapForDate, SmInv
<1>2. d \in Nat /\ d # NoDate
  BY SymbolsAssumption DEF NoDate
<1>3. p \in Results(IdMaps)
  BY <1>1, <1>2, PitMap
<1> HIDE DEF p
<1>4. p.map = [k \in DOMAIN p.map |-> p.map[k]]
  <2>1. p.map \in MapsOn(Nat)
    BY <1>3 DEF Results, IdMaps
  <2> QED
    BY <2>1, MapIs
<1>5. Emplaced(Emplaced(Empty, p.map), [id \in {} |-> ""]) = p.map
  BY <1>4 DEF Emplaced, Empty
<1> QED
  BY <1>1, <1>2, <1>5 DEF SmInv, p

\* the lookup of an instrument keeps it,
LEMMA IndexStep ==
  ASSUME SmInv, NEW id \in Ids, Index(id)
  PROVE  SmInv'
<1> DEFINE p == PitSymbolMap(mapped, date)
           b == Emplaced(heard, p.map)
           blank == [k \in {id} |-> ""]
<1>1. /\ date # NoDate /\ ~pit.throws /\ pit' = Result(Emplaced(pit.map, blank))
      /\ asked' = asked \cup {id} /\ mapped' = mapped /\ date' = date /\ heard' = heard
  BY DEF Index
<1>2. /\ mapped \in Mapped /\ date \in Nat /\ pit.throws = p.throws
      /\ pit.map = Emplaced(b, [k \in asked |-> ""])
  BY <1>1 DEF SmInv
<1>3. Emplaced([k \in asked |-> ""], blank) = [k \in asked \cup {id} |-> ""]
  BY DEF Emplaced
<1> HIDE DEF b
<1>4. Emplaced(pit.map, blank) = Emplaced(b, [k \in asked \cup {id} |-> ""])
  <2> DEFINE old == [k \in asked |-> ""]
  <2>1. Emplaced(old, blank) = [k \in asked \cup {id} |-> ""] /\ pit.map = Emplaced(b, old)
    BY <1>2, <1>3
  <2> HIDE DEF blank, old
  <2>2. Emplaced(Emplaced(b, old), blank) = Emplaced(b, Emplaced(old, blank))
    BY EmplacedThree
  <2> QED
    BY <2>1, <2>2
<1>5. pit'.map = Emplaced(pit.map, blank) /\ pit'.throws = FALSE
  BY <1>1 DEF Result
<1>6. p.throws = FALSE
  <2>1. p \in Results(IdMaps)
    BY <1>2, PitMap
  <2> QED
    BY <1>1, <1>2, <2>1 DEF Results
<1> QED
  BY <1>1, <1>2, <1>4, <1>5, <1>6 DEF SmInv, b

\* and so does a symbol mapping record.
LEMMA RecordStep ==
  ASSUME SmInv, NEW id \in Ids, NEW name \in Names, NEW format \in Formats,
         OnRecord(id, name, format)
  PROVE  SmInv'
<1> DEFINE p == PitSymbolMap(mapped, date)
           said == [k \in {id} |-> name]
           blank == [k \in asked |-> ""]
<1>1. /\ date # NoDate /\ ~pit.throws /\ pit' = Result(Emplaced(said, pit.map))
      /\ heard' = Emplaced(said, heard) /\ mapped' = mapped /\ date' = date /\ asked' = asked
  BY AnnouncedSymbol DEF OnRecord
<1>2. /\ mapped \in Mapped /\ date \in Nat /\ pit.throws = p.throws
      /\ pit.map = Emplaced(Emplaced(heard, p.map), blank)
  BY <1>1 DEF SmInv
<1> HIDE DEF said, blank
<1>3. Emplaced(said, pit.map) = Emplaced(Emplaced(heard', p.map), blank)
  BY <1>1, <1>2, EmplacedThree
<1>4. pit'.map = Emplaced(said, pit.map) /\ pit'.throws = FALSE
  BY <1>1 DEF Result
<1>5. p.throws = FALSE
  <2>1. p \in Results(IdMaps)
    BY <1>2, PitMap
  <2> QED
    BY <1>1, <1>2, <2>1 DEF Results
<1> QED
  BY <1>1, <1>2, <1>3, <1>4, <1>5 DEF SmInv, blank

\* In every reachable state the maps agree.
LEMMA InvAgrees ==
  ASSUME SmInv
  PROVE  SymbolMapsAgree
<1> SUFFICES ASSUME date # NoDate, ~TsSymbolMap(mapped).throws
             PROVE  /\ (mapped.start < 2 * (date + 1) /\ 2 * date < mapped.end) => ~pit.throws
                    /\ (~pit.throws /\ Disjoint(mapped)) =>
                         pit.map = Emplaced(Emplaced(heard, Slice(TsSymbolMap(mapped).map, date)),
                                            [id \in asked |-> ""])
                    /\ Unambiguous(mapped) => CreateSymbolMap(mapped) = {TsSymbolMap(mapped)}
  BY DEF SymbolMapsAgree
<1> DEFINE s == mapped.mappings
           inverse == IsInverse(mapped) = "inverse"
           p == PitSymbolMap(mapped, date)
           t == TsSymbolMap(mapped)
<1>1. /\ mapped \in Mapped /\ date \in Nat /\ pit.throws = p.throws
      /\ ~pit.throws => pit.map = Emplaced(Emplaced(heard, p.map), [id \in asked |-> ""])
  BY DEF SmInv
<1>2. s \in Seq(SymbolMapping) /\ mapped.start \in Int /\ mapped.end \in Int /\ inverse \in BOOLEAN
  BY <1>1, SymbolsAssumption
<1>3. IsInverse(mapped) # "throws"
  BY DEF TsSymbolMap, Thrown
<1>4. t = InsertMappings(s, inverse, TRUE)
  BY <1>3 DEF TsSymbolMap
<1>5. p = IF ~InQueryRange(mapped, date) THEN Thrown ELSE FindMappings(s, inverse, date)
  BY <1>3 DEF PitSymbolMap
<1> HIDE DEF inverse
<1>6. /\ ~FindMappings(s, inverse, date).throws
      /\ (\A k \in 1..Len(s) : Apart(s[k])) => FindMappings(s, inverse, date).map = Slice(t.map, date)
  BY <1>1, <1>2, <1>4, MappingsAgree
<1>7. Disjoint(mapped) => \A k \in 1..Len(s) : Apart(s[k])
  <2>1. \A k \in 1..Len(s) : s[k] \in ToSet(s)
    BY <1>2 DEF ToSet
  <2> QED
    BY <2>1 DEF Disjoint, Apart
<1>8. (mapped.start < 2 * (date + 1) /\ 2 * date < mapped.end) => InQueryRange(mapped, date)
  <2>1. \A a \in Int, d \in Nat : a < 2 * (d + 1) => d >= a \div 2
    OBVIOUS
  <2> QED
    BY <1>1, <1>2, <2>1 DEF InQueryRange
<1>9. Unambiguous(mapped) => CreateSymbolMap(mapped) = {t}
  BY <1>1, ResolutionAgrees
<1>10. Thrown.throws
  BY DEF Thrown
<1> HIDE DEF p, t, s
<1>11. ~pit.throws => p = FindMappings(s, inverse, date)
  BY <1>1, <1>5, <1>10
<1> QED
  BY <1>1, <1>5, <1>6, <1>7, <1>8, <1>9, <1>11 DEF t

\* For all metadata, dates and announcements, the symbol maps agree: PitSymbolMap is the slice
\* of TsSymbolMap, with what the session has announced, and the map of a symbology request is
\* TsSymbolMap.
THEOREM SymbolMapsAgreeHolds == SmSpec => []SymbolMapsAgree
<1>1. SmInit => SmInv
  BY SmBegins
<1>2. SmInv /\ [SmNext]_smVars => SmInv'
  <2> SUFFICES ASSUME SmInv, [SmNext]_smVars PROVE SmInv'
    OBVIOUS
  <2>1. ASSUME NEW d \in Dates, CreateSymbolMapForDate(d) PROVE SmInv'
    BY <2>1, CreateStep
  <2>2. ASSUME NEW id \in Ids, NEW name \in Names, NEW format \in Formats,
               OnRecord(id, name, format)
        PROVE  SmInv'
    BY <2>2, RecordStep
  <2>3. ASSUME NEW id \in Ids, Index(id) PROVE SmInv'
    BY <2>3, IndexStep
  <2>4. CASE UNCHANGED smVars
    BY <2>4 DEF SmInv, smVars
  <2> QED
    BY <2>1, <2>2, <2>3, <2>4 DEF SmNext
<1>3. SmInv => SymbolMapsAgree
  BY InvAgrees
<1> QED
  BY <1>1, <1>2, <1>3, PTL DEF SmSpec

-----------------------------------------------------------------------------

(* Totals.                                                                 *)

\* f holds the sums of the first k numbers.
Adds(f, s) == f[0] = 0 /\ \A k \in 1..Len(s) : f[k] = f[k - 1] + s[k]

\* Total is the last of the sums.
LEMMA TotalIs ==
  ASSUME NEW s \in Seq(Nat)
  PROVE  \E f \in [0..Len(s) -> Nat] : Adds(f, s) /\ Total(s) = f[Len(s)]
<1> DEFINE n == Len(s)
           step == [k \in 1..n |-> [t \in Nat |-> t + s[k]]]
           Is(g) == g = [k \in 0..n |-> IF k = 0 THEN 0 ELSE g[k - 1] + s[k]]
           upTo == CHOOSE g : Is(g)
<1>1. n \in Nat /\ \A k \in 1..n : s[k] \in Nat
  BY ElementOfSeq
<1>2. step \in [1..n -> [Nat -> Nat]]
  BY <1>1
<1> HIDE DEF n
<1>3. PICK f : Recurs(f, Nat, n, 0, step)
  BY <1>1, <1>2, RecursionExists
<1>4. f \in [0..n -> Nat] /\ f[0] = 0 /\ \A k \in 1..n : f[k] = f[k - 1] + s[k]
  <2>1. f \in [0..n -> Nat] /\ f[0] = 0 /\ \A k \in 1..n : f[k] = step[k][f[k - 1]]
    BY <1>3 DEF Recurs
  <2>2. ASSUME NEW k \in 1..n PROVE f[k] = f[k - 1] + s[k]
    <3>1. k - 1 \in 0..n /\ f[k - 1] \in Nat
      BY <1>1, <2>1
    <3> QED
      BY <2>1, <3>1
  <2> QED
    BY <2>1, <2>2
<1>5. Is(f)
  <2>1. ASSUME NEW k \in 0..n PROVE f[k] = IF k = 0 THEN 0 ELSE f[k - 1] + s[k]
    BY <1>1, <1>4
  <2>2. f = [k \in 0..n |-> f[k]]
    BY <1>4
  <2> QED
    BY <2>1, <2>2
<1>6. Is(upTo)
  BY <1>5, Zenon
<1>7. Total(s) = upTo[n]
  BY Zenon DEF Total, n
<1> HIDE DEF upTo
<1>8. \A k \in 0..n : upTo[k] = IF k = 0 THEN 0 ELSE upTo[k - 1] + s[k]
  BY <1>6, Zenon
<1> DEFINE S == {k \in Nat : k <= n => upTo[k] = f[k]}
<1>9. S = Nat
  <2>1. 0 \in S
    BY <1>1, <1>4, <1>8
  <2>2. ASSUME NEW k \in S PROVE k + 1 \in S
    <3> SUFFICES ASSUME k + 1 <= n PROVE upTo[k + 1] = f[k + 1]
      BY <2>2
    <3>1. k + 1 \in 1..n /\ k + 1 \in 0..n /\ (k + 1) - 1 = k /\ k + 1 # 0 /\ upTo[k] = f[k]
      BY <1>1, <2>2
    <3>2. upTo[k + 1] = upTo[k] + s[k + 1]
      BY <1>8, <3>1
    <3> QED
      BY <1>4, <3>1, <3>2
  <2> QED
    BY <2>1, <2>2, SetInduction
<1>10. upTo[n] = f[n]
  BY <1>1, <1>9
<1> QED
  BY <1>4, <1>7, <1>10 DEF Adds, n

\* There is one way to add.
LEMMA TotalBy ==
  ASSUME NEW s \in Seq(Nat), NEW g, Adds(g, s)
  PROVE  Total(s) \in Nat /\ Total(s) = g[Len(s)]
<1> DEFINE n == Len(s)
<1>0. n \in Nat
  BY LenProperties
<1>1. PICK f \in [0..n -> Nat] : Adds(f, s) /\ Total(s) = f[n]
  BY TotalIs
<1> DEFINE S == {k \in Nat : k <= n => g[k] = f[k]}
<1>2. S = Nat
  <2>1. 0 \in S
    BY <1>1 DEF Adds
  <2>2. ASSUME NEW k \in S PROVE k + 1 \in S
    <3> SUFFICES ASSUME k + 1 <= n PROVE g[k + 1] = f[k + 1]
      BY <2>2
    <3>1. k + 1 \in 1..n /\ (k + 1) - 1 = k /\ g[k] = f[k]
      BY <1>0, <2>2
    <3>2. g[k + 1] = g[k] + s[k + 1] /\ f[k + 1] = f[k] + s[k + 1]
      BY <1>1, <3>1 DEF Adds
    <3> QED
      BY <3>1, <3>2
  <2> QED
    BY <2>1, <2>2, SetInduction
<1>3. g[n] = f[n] /\ f[n] \in Nat
  BY <1>0, <1>1, <1>2
<1> QED
  BY <1>1, <1>3

-----------------------------------------------------------------------------
(* Chunks.                                                                 *)

ChunkOf(V) == [val : V, len : Nat]
LensOf(c) == [i \in 1..Len(c) |-> c[i].len]

\* The part is in c, from its place i on.
Stands(part, c, i) ==
  \A k \in 1..Len(part) : i + k - 1 \in 1..Len(c) /\ c[i + k - 1] = part[k]

\* The lengths of chunks are a sequence of numbers, which Lengths adds.
LEMMA LensSeq ==
  ASSUME NEW V, NEW c \in Seq(ChunkOf(V))
  PROVE  /\ LensOf(c) \in Seq(Nat) /\ Len(LensOf(c)) = Len(c) /\ Len(c) \in Nat
         /\ \A k \in 1..Len(c) : LensOf(c)[k] = c[k].len /\ c[k].len \in Nat
         /\ Lengths(c) = Total(LensOf(c))
<1>1. Len(c) \in Nat /\ \A k \in 1..Len(c) : c[k].len \in Nat
  <2>1. Len(c) \in Nat /\ \A k \in 1..Len(c) : c[k] \in ChunkOf(V)
    BY ElementOfSeq
  <2> QED
    BY <2>1 DEF ChunkOf
<1>2. LensOf(c) \in [1..Len(c) -> Nat] /\ \A k \in 1..Len(c) : LensOf(c)[k] = c[k].len
  BY <1>1 DEF LensOf
<1>3. LensOf(c) \in Seq(Nat) /\ Len(LensOf(c)) = Len(c)
  BY <1>1, <1>2, FunctionSeq
<1> QED
  BY <1>1, <1>2, <1>3 DEF Lengths, LensOf

\* g holds the lengths of the first k chunks of c.
SumsOf(g, c) == g \in [0..Len(c) -> Nat] /\ Adds(g, LensOf(c))

\* The sums of the lengths exist, and the last is Lengths.
LEMMA SumsExist ==
  ASSUME NEW V, NEW c \in Seq(ChunkOf(V))
  PROVE  \E g : SumsOf(g, c) /\ g[0] = 0 /\ Lengths(c) = g[Len(c)]
<1>1. LensOf(c) \in Seq(Nat) /\ Len(LensOf(c)) = Len(c) /\ Lengths(c) = Total(LensOf(c))
  BY LensSeq
<1>2. PICK g \in [0..Len(c) -> Nat] : Adds(g, LensOf(c)) /\ Total(LensOf(c)) = g[Len(c)]
  BY <1>1, TotalIs
<1> QED
  BY <1>1, <1>2 DEF SumsOf, Adds

\* The length of a part is the difference of the sums at its ends.
LEMMA StandsLengths ==
  ASSUME NEW V, NEW c \in Seq(ChunkOf(V)), NEW g, SumsOf(g, c),
         NEW part \in Seq(ChunkOf(V)), NEW i \in Nat \ {0}, i <= Len(c) + 1, Stands(part, c, i)
  PROVE  /\ i + Len(part) - 1 \in 0..Len(c) /\ Lengths(part) \in Nat
         /\ g[i + Len(part) - 1] = g[i - 1] + Lengths(part)
<1> DEFINE p == Len(part)
           n == Len(c)
<1>1. /\ LensOf(part) \in Seq(Nat) /\ Len(LensOf(part)) = p /\ p \in Nat
      /\ \A k \in 1..p : LensOf(part)[k] = part[k].len
      /\ Lengths(part) = Total(LensOf(part))
  BY LensSeq
<1>2. n \in Nat /\ Len(LensOf(c)) = n /\ \A k \in 1..n : LensOf(c)[k] = c[k].len /\ c[k].len \in Nat
  BY LensSeq
<1>3. PICK h \in [0..p -> Nat] : Adds(h, LensOf(part)) /\ Total(LensOf(part)) = h[p]
  BY <1>1, TotalIs
<1>4. h[0] = 0 /\ \A k \in 1..p : h[k] = h[k - 1] + part[k].len
  BY <1>1, <1>3 DEF Adds
<1>0. (\A k \in 0..n : g[k] \in Nat) /\ (\A k \in 0..p : h[k] \in Nat) /\ i <= n + 1
  BY DEF SumsOf
<1>5. \A k \in 1..n : g[k] = g[k - 1] + c[k].len
  BY <1>2 DEF SumsOf, Adds
<1> HIDE DEF p, n
<1>6. \A k \in 1..p : i + k - 1 \in 1..n /\ c[i + k - 1] = part[k]
  BY DEF Stands, p, n
<1> DEFINE S == {k \in Nat : k <= p => g[i - 1 + k] = g[i - 1] + h[k]}
<1>7. S = Nat
  <2>1. 0 \in S
    <3>1. i - 1 \in 0..n /\ i - 1 + 0 = i - 1
      BY <1>0, <1>2
    <3>2. g[i - 1] \in Nat
      BY <1>0, <3>1
    <3> QED
      BY <1>4, <3>1, <3>2
  <2>2. ASSUME NEW k \in S PROVE k + 1 \in S
    <3> SUFFICES ASSUME k + 1 <= p PROVE g[i - 1 + (k + 1)] = g[i - 1] + h[k + 1]
      BY <2>2
    <3>1. k \in Nat /\ k + 1 \in 1..p /\ (k + 1) - 1 = k /\ g[i - 1 + k] = g[i - 1] + h[k]
      BY <1>1, <2>2
    <3>2. i + (k + 1) - 1 \in 1..n /\ c[i + (k + 1) - 1] = part[k + 1]
      BY <1>6, <3>1
    <3>3. i + (k + 1) - 1 = i - 1 + (k + 1) /\ (i - 1 + (k + 1)) - 1 = i - 1 + k
      BY <3>1
    <3>4. g[i - 1 + (k + 1)] = g[i - 1 + k] + part[k + 1].len
      BY <1>5, <3>2, <3>3
    <3>5. h[k + 1] = h[k] + part[k + 1].len
      BY <1>4, <3>1
    <3>6. /\ k \in 0..p /\ i - 1 \in 0..n /\ h[k] \in Nat /\ g[i - 1] \in Nat
      BY <1>0, <1>1, <1>2, <3>1
    <3>7. part[k + 1].len \in Nat
      BY <1>2, <3>2 DEF n
    <3> QED
      BY <3>1, <3>4, <3>5, <3>6, <3>7
  <2> QED
    BY <2>1, <2>2, SetInduction
<1>8. g[i - 1 + p] = g[i - 1] + h[p] /\ i - 1 + p = i + p - 1 /\ h[p] \in Nat
  <2>1. p \in 0..p /\ p <= p
    BY <1>1
  <2>2. p \in S
    <3> HIDE DEF S
    <3> QED
      BY <1>1, <1>7
  <2>3. g[i - 1 + p] = g[i - 1] + h[p]
    BY <2>1, <2>2
  <2> QED
    BY <1>0, <1>1, <2>1, <2>3
<1>9. i + p - 1 \in 0..n
  <2>1. CASE p = 0
    BY <1>2, <2>1 DEF n
  <2>2. CASE p # 0
    <3>1. p \in 1..p
      BY <1>1, <2>2
    <3> QED
      BY <1>6, <3>1
  <2> QED
    BY <2>1, <2>2
<1> QED
  BY <1>1, <1>3, <1>8, <1>9 DEF p, n

\* A concatenation stands where its parts do.
LEMMA StandsCat ==
  ASSUME NEW B, NEW a \in Seq(B), NEW b \in Seq(B), NEW c, NEW i \in Nat, Stands(a \o b, c, i)
  PROVE  Stands(a, c, i) /\ Stands(b, c, i + Len(a))
<1> DEFINE ab == a \o b
<1>1. /\ Len(ab) = Len(a) + Len(b) /\ Len(a) \in Nat /\ Len(b) \in Nat
      /\ \A k \in 1..Len(a) : ab[k] = a[k]
      /\ \A k \in 1..Len(b) : ab[Len(a) + k] = b[k]
  BY ConcatParts, LenProperties
<1>2. \A k \in 1..Len(ab) : i + k - 1 \in 1..Len(c) /\ c[i + k - 1] = ab[k]
  BY DEF Stands
<1> HIDE DEF ab
<1>3. ASSUME NEW k \in 1..Len(a) PROVE i + k - 1 \in 1..Len(c) /\ c[i + k - 1] = a[k]
  <2>1. k \in 1..Len(ab)
    BY <1>1
  <2> QED
    BY <1>1, <1>2, <2>1
<1>4. ASSUME NEW k \in 1..Len(b)
      PROVE  (i + Len(a)) + k - 1 \in 1..Len(c) /\ c[(i + Len(a)) + k - 1] = b[k]
  <2>1. Len(a) + k \in 1..Len(ab) /\ i + (Len(a) + k) - 1 = (i + Len(a)) + k - 1
    BY <1>1
  <2> QED
    BY <1>1, <1>2, <2>1
<1> QED
  BY <1>3, <1>4 DEF Stands

\* The length of a concatenation.
LEMMA LengthsCat ==
  ASSUME NEW V, NEW a \in Seq(ChunkOf(V)), NEW b \in Seq(ChunkOf(V))
  PROVE  /\ Lengths(a) \in Nat /\ Lengths(b) \in Nat
         /\ Lengths(a \o b) = Lengths(a) + Lengths(b)
<1> DEFINE c == a \o b
<1>1. /\ c \in Seq(ChunkOf(V)) /\ Len(c) = Len(a) + Len(b) /\ Len(a) \in Nat /\ Len(b) \in Nat
  BY ConcatParts, LenProperties
<1>2. Stands(c, c, 1)
  BY <1>1 DEF Stands
<1>3. Stands(a, c, 1) /\ Stands(b, c, 1 + Len(a))
  BY <1>2, StandsCat
<1> HIDE DEF c
<1>5. PICK g : SumsOf(g, c) /\ g[0] = 0 /\ Lengths(c) = g[Len(c)]
  BY <1>1, SumsExist
<1> DEFINE Between(part, i) == /\ Lengths(part) \in Nat
                               /\ g[i + Len(part) - 1] = g[i - 1] + Lengths(part)
<1>11. ASSUME NEW part \in Seq(ChunkOf(V)), NEW i \in Nat \ {0}, i <= Len(c) + 1, Stands(part, c, i)
       PROVE  Between(part, i)
  BY <1>1, <1>5, <1>11, StandsLengths
<1>7. 1 + Len(a) \in Nat \ {0} /\ 1 + Len(a) <= Len(c) + 1 /\ 1 \in Nat \ {0} /\ 1 <= Len(c) + 1
  BY <1>1
<1>6. Lengths(a) \in Nat /\ g[1 + Len(a) - 1] = g[1 - 1] + Lengths(a)
  <2>1. Between(a, 1)
    BY <1>3, <1>7, <1>11
  <2> QED
    BY <2>1
<1>8. Lengths(b) \in Nat /\ g[(1 + Len(a)) + Len(b) - 1] = g[(1 + Len(a)) - 1] + Lengths(b)
  <2>1. Between(b, 1 + Len(a))
    BY <1>3, <1>7, <1>11
  <2> QED
    BY <2>1
<1>9. /\ 1 + Len(a) - 1 = Len(a) /\ (1 + Len(a)) + Len(b) - 1 = Len(c) /\ (1 + Len(a)) - 1 = Len(a)
      /\ 1 - 1 = 0
  BY <1>1
<1> QED
  BY <1>5, <1>6, <1>8, <1>9 DEF c

\* The parts of a flattened sequence stand behind each other.
LEMMA StandsParts ==
  ASSUME NEW B, NEW seqs \in Seq(Seq(B)), NEW f, f \in [0..Len(seqs) -> Seq(B)],
         Concatenates(f, seqs), NEW c, NEW i \in Nat, Stands(f[Len(seqs)], c, i)
  PROVE  \A k \in 1..Len(seqs) : Stands(seqs[k], c, i + Len(f[k - 1]))
<1> DEFINE n == Len(seqs)
<1>1. n \in Nat /\ \A k \in 1..n : seqs[k] \in Seq(B)
  BY ElementOfSeq
<1>2. \A k \in 1..n : f[k] = f[k - 1] \o seqs[k]
  BY DEF Concatenates
<1> HIDE DEF n
<1>3. \A k \in 1..n : f[k - 1] \in Seq(B)
  <2>1. \A k \in 1..n : k - 1 \in 0..n
    BY <1>1
  <2> QED
    BY <2>1 DEF n
<1> DEFINE S == {k \in Nat : k <= n => Stands(f[n - k], c, i)}
<1>4. ASSUME NEW k \in 1..n, Stands(f[k], c, i)
      PROVE  Stands(f[k - 1], c, i) /\ Stands(seqs[k], c, i + Len(f[k - 1]))
  BY <1>1, <1>2, <1>3, <1>4, StandsCat
<1>5. S = Nat
  <2>1. 0 \in S
    <3>1. n - 0 = n
      BY <1>1
    <3> QED
      BY <3>1 DEF n
  <2>2. ASSUME NEW k \in S PROVE k + 1 \in S
    <3> SUFFICES ASSUME k + 1 <= n PROVE Stands(f[n - (k + 1)], c, i)
      BY <2>2
    <3>1. n - k \in 1..n /\ (n - k) - 1 = n - (k + 1) /\ Stands(f[n - k], c, i)
      BY <1>1, <2>2
    <3>2. Stands(f[(n - k) - 1], c, i)
      BY <1>4, <3>1
    <3> QED
      BY <3>1, <3>2
  <2> HIDE DEF S
  <2>3. S \in SUBSET Nat
    BY DEF S
  <2> QED
    BY <2>1, <2>2, <2>3, SetInduction
<1>6. ASSUME NEW k \in 1..n PROVE Stands(f[k], c, i)
  <2>1. n - k \in Nat /\ n - k <= n /\ n - (n - k) = k
    BY <1>1
  <2>2. n - k \in S
    BY <1>5, <2>1
  <2> QED
    BY <2>1, <2>2
<1>7. \A k \in 1..n : Stands(seqs[k], c, i + Len(f[k - 1]))
  BY <1>4, <1>6
<1> QED
  BY <1>7 DEF n

-----------------------------------------------------------------------------
(* What the encoder's functions write, and what the decoder's read.        *)

FileValue == Nat \cup BOOLEAN \cup STRING \cup FixedString \cup {Zeros, "DBN", kNullRecordCount}
FileChunk == ChunkOf(FileValue)

\* A chunk of a value of the file.
LEMMA ChunkType ==
  ASSUME NEW v \in FileValue, NEW n \in Nat
  PROVE  Chunk(v, n) \in FileChunk /\ Chunk(v, n).val = v /\ Chunk(v, n).len = n
  BY DEF Chunk, FileChunk, ChunkOf

\* Multiplication, one step at a time.
LEMMA Times ==
  ASSUME NEW k \in Nat, NEW l \in Nat
  PROVE  k * l \in Nat /\ 0 * l = 0 /\ (k + 1) * l = k * l + l
  OBVIOUS

\* A chunk is read as what it is.
LEMMA ReadsStanding ==
  ASSUME NEW part, NEW c, Len(c) \in Nat, NEW i \in Nat, Stands(part, c, i),
         NEW k \in 1..Len(part), Len(part) \in Nat
  PROVE  /\ ConsumeAs(c, i + k - 1, part[k].len) = part[k].val
         /\ part[k].len = 4 /\ part[k].val \in Nat => Count(c, i + k - 1) = part[k].val
<1>1. i + k - 1 \in 1..Len(c) /\ c[i + k - 1] = part[k]
  BY DEF Stands
<1>2. i + k - 1 <= Len(c)
  BY <1>1
<1>3. ConsumeAs(c, i + k - 1, part[k].len) = part[k].val
  BY <1>1, <1>2 DEF ConsumeAs
<1>4. Garbled \notin Nat
  BY FilesAssumption
<1>5. ASSUME part[k].len = 4, part[k].val \in Nat PROVE Count(c, i + k - 1) = part[k].val
  BY <1>3, <1>4, <1>5 DEF Count
<1> QED
  BY <1>3, <1>5

\* A list of symbols.
LEMMA RepeatedParts ==
  ASSUME NEW s \in Seq(FixedString), NEW len \in Nat
  PROVE  LET e == EncodeRepeatedSymbolCStr(len, s)
         IN  /\ e \in Seq(FileChunk) /\ Len(e) = 1 + Len(s) /\ e[1] = Chunk(Len(s), 4)
             /\ \A k \in 1..Len(s) : e[1 + k] = Chunk(s[k], len)
             /\ Lengths(e) = 4 + Len(s) * len
<1> DEFINE e == EncodeRepeatedSymbolCStr(len, s)
           n == Len(s)
           a == <<Chunk(n, 4)>>
           b == [i \in 1..n |-> Chunk(s[i], len)]
<1>1. n \in Nat /\ \A k \in 1..n : s[k] \in FixedString
  BY ElementOfSeq
<1>2. \A k \in 1..n : Chunk(s[k], len) \in FileChunk
  BY <1>1, ChunkType DEF FileValue
<1>3. Chunk(n, 4) \in FileChunk
  BY <1>1, ChunkType DEF FileValue
<1>4. a \in Seq(FileChunk) /\ Len(a) = 1 /\ a[1] = Chunk(n, 4)
  BY <1>3
<1>5. b \in Seq(FileChunk) /\ Len(b) = n /\ \A k \in 1..n : b[k] = Chunk(s[k], len)
  <2>1. b \in [1..n -> FileChunk]
    BY <1>2
  <2> QED
    BY <1>1, <2>1, FunctionSeq
<1>6. e = a \o b
  BY DEF EncodeRepeatedSymbolCStr
<1> HIDE DEF a, b, e, n
<1>7. /\ e \in Seq(FileChunk) /\ Len(e) = 1 + n /\ e[1] = Chunk(n, 4)
      /\ \A k \in 1..n : e[1 + k] = Chunk(s[k], len)
  <2>1. /\ e \in Seq(FileChunk) /\ Len(e) = Len(a) + Len(b)
        /\ \A k \in 1..Len(a) : e[k] = a[k]
        /\ \A k \in 1..Len(b) : e[Len(a) + k] = b[k]
    <3>1. /\ a \o b \in Seq(FileChunk) /\ Len(a \o b) = Len(a) + Len(b)
          /\ \A k \in 1..Len(a) : (a \o b)[k] = a[k]
          /\ \A k \in 1..Len(b) : (a \o b)[Len(a) + k] = b[k]
      <4>1. a \in Seq(FileChunk) /\ b \in Seq(FileChunk)
        BY <1>4, <1>5
      <4> QED
        BY <4>1, ConcatParts
    <3> QED
      BY <1>6, <3>1, Zenon
  <2> QED
    BY <1>4, <1>5, <2>1
<1>8. Lengths(e) = 4 + n * len
  <2> DEFINE g == [k \in 0..(1 + n) |-> IF k = 0 THEN 0 ELSE 4 + (k - 1) * len]
             l == LensOf(e)
  <2>1. /\ l \in Seq(Nat) /\ Len(l) = 1 + n /\ Lengths(e) = Total(l)
        /\ \A k \in 1..(1 + n) : l[k] = e[k].len
    <3>1. e \in Seq(ChunkOf(FileValue))
      BY <1>7 DEF FileChunk
    <3> QED
      BY <1>7, <3>1, LensSeq
  <2> HIDE DEF l
  <2>2. ASSUME NEW k \in 1..(1 + n) PROVE g[k] = g[k - 1] + l[k]
    <3>1. k \in Nat /\ k \in 0..(1 + n) /\ k - 1 \in 0..(1 + n) /\ k # 0 /\ g[k] = 4 + (k - 1) * len
      BY <1>1
    <3>2. CASE k = 1
      <4>1. l[k] = 4
        BY <1>1, <1>7, <2>1, <3>2 DEF Chunk
      <4>2. g[k - 1] = 0 /\ k - 1 = 0
        BY <3>1, <3>2
      <4>3. (k - 1) * len = 0
        BY <4>2, Times
      <4>4. g[k] = 4
        BY <3>1, <4>3
      <4> QED
        BY <4>1, <4>2, <4>4
    <3>3. CASE k # 1
      <4>1. k - 1 \in 1..n /\ 1 + (k - 1) = k /\ k - 1 # 0 /\ (k - 1) - 1 \in Nat
        BY <1>1, <3>1, <3>3
      <4>2. e[k] = Chunk(s[k - 1], len)
        BY <1>7, <4>1
      <4>3. l[k] = len
        BY <1>1, <2>1, <4>1, <4>2 DEF Chunk
      <4>4. g[k - 1] = 4 + ((k - 1) - 1) * len
        BY <3>1, <4>1
      <4>5. (((k - 1) - 1) + 1) * len = ((k - 1) - 1) * len + len /\ ((k - 1) - 1) * len \in Nat
        BY <4>1, Times
      <4>6. ((k - 1) - 1) + 1 = k - 1
        BY <4>1
      <4>7. (k - 1) * len = ((k - 1) - 1) * len + len
        BY <4>5, <4>6
      <4> DEFINE x == ((k - 1) - 1) * len
      <4>8. x \in Nat /\ g[k] = 4 + (x + len) /\ g[k - 1] = 4 + x
        BY <3>1, <4>4, <4>5, <4>7
      <4> HIDE DEF x, g
      <4> QED
        BY <4>3, <4>8
    <3> QED
      BY <3>2, <3>3
  <2>3. g[0] = 0 /\ g[1 + n] = 4 + n * len
    <3>1. 0 \in 0..(1 + n) /\ 1 + n \in 0..(1 + n) /\ 1 + n # 0 /\ (1 + n) - 1 = n
      BY <1>1
    <3> QED
      BY <3>1
  <2> HIDE DEF g
  <2>4. Adds(g, l)
    BY <2>1, <2>2, <2>3 DEF Adds
  <2> QED
    BY <2>1, <2>3, <2>4, TotalBy
<1> QED
  BY <1>7, <1>8 DEF e, n

\* DecodeRepeatedSymbol returns the list, for the right length or an empty list.
LEMMA RepeatedReads ==
  ASSUME NEW s \in Seq(FixedString), NEW len \in Nat, NEW l, l = len \/ s = << >>,
         NEW c, Len(c) \in Nat, NEW i \in Nat, Stands(EncodeRepeatedSymbolCStr(len, s), c, i)
  PROVE  DecodeRepeatedSymbol(l, c, i) = [val |-> s, next |-> i + 1 + Len(s)]
<1> DEFINE e == EncodeRepeatedSymbolCStr(len, s)
           n == Len(s)
           read == [k \in 1..n |-> ConsumeAs(c, i + k, l)]
<1>1. n \in Nat /\ s = [k \in 1..n |-> s[k]] /\ \A k \in 1..n : s[k] \in FixedString
  BY ElementOfSeq
<1>2. Len(e) = 1 + n /\ e[1] = Chunk(n, 4) /\ \A k \in 1..n : e[1 + k] = Chunk(s[k], len)
  BY RepeatedParts
<1> HIDE DEF e, n
<1>3. Stands(e, c, i)
  BY DEF e
<1>4. \A k \in 1..Len(e) : /\ ConsumeAs(c, i + k - 1, e[k].len) = e[k].val
                           /\ e[k].len = 4 /\ e[k].val \in Nat => Count(c, i + k - 1) = e[k].val
  BY <1>1, <1>2, <1>3, ReadsStanding
<1>5. Count(c, i) = n
  <2>1. 1 \in 1..Len(e) /\ i + 1 - 1 = i /\ e[1].len = 4 /\ e[1].val = n
    BY <1>1, <1>2 DEF Chunk
  <2> QED
    BY <1>1, <1>4, <2>1
<1>6. ASSUME NEW k \in 1..n PROVE ConsumeAs(c, i + k, l) = s[k]
  <2>1. 1 + k \in 1..Len(e) /\ i + (1 + k) - 1 = i + k
    BY <1>1, <1>2
  <2>2. e[1 + k].len = len /\ e[1 + k].val = s[k]
    <3>1. e[1 + k] = Chunk(s[k], len)
      BY <1>2
    <3> QED
      BY <3>1 DEF Chunk
  <2>3. l = len
    <3>1. s = << >> => Len(s) = 0
      BY EmptySeq
    <3> QED
      BY <1>1, <3>1 DEF n
  <2> QED
    BY <1>4, <2>1, <2>2, <2>3
<1>7. read = s
  BY <1>1, <1>6
<1> QED
  BY <1>5, <1>7 DEF DecodeRepeatedSymbol, n

\* The length of a few chunks.
LEMMA LengthsBy ==
  ASSUME NEW V, NEW c \in Seq(ChunkOf(V)), NEW g, g[0] = 0,
         \A k \in 1..Len(c) : g[k] = g[k - 1] + c[k].len
  PROVE  Lengths(c) \in Nat /\ Lengths(c) = g[Len(c)]
<1>1. /\ LensOf(c) \in Seq(Nat) /\ Len(LensOf(c)) = Len(c) /\ Lengths(c) = Total(LensOf(c))
      /\ \A k \in 1..Len(c) : LensOf(c)[k] = c[k].len
  BY LensSeq
<1>2. Adds(g, LensOf(c))
  BY <1>1 DEF Adds
<1> QED
  BY <1>1, <1>2, TotalBy

\* No chunk.
LEMMA LengthsNone == Lengths(<< >>) = 0
<1> DEFINE g == [k \in {0} |-> 0]
<1>1. << >> \in Seq(ChunkOf(Nat)) /\ Len(<< >>) = 0 /\ g[0] = 0
  BY EmptySeq
<1>2. \A k \in 1..Len(<< >>) : g[k] = g[k - 1] + << >>[k].len
  BY <1>1
<1> HIDE DEF g
<1> QED
  BY <1>1, <1>2, LengthsBy

\* One chunk.
LEMMA LengthsOne ==
  ASSUME NEW V, NEW x \in ChunkOf(V)
  PROVE  Lengths(<<x>>) = x.len
<1> DEFINE g == [k \in 0..1 |-> IF k = 0 THEN 0 ELSE x.len]
           t == <<x>>
<1>1. x.len \in Nat /\ g[0] = 0 /\ g[1] = x.len
  BY DEF ChunkOf
<1>2. t \in Seq(ChunkOf(V)) /\ Len(t) = 1 /\ t[1] = x
  OBVIOUS
<1> HIDE DEF g, t
<1>3. \A k \in 1..Len(t) : g[k] = g[k - 1] + t[k].len
  BY <1>1, <1>2
<1>4. Lengths(t) = g[Len(t)]
  BY <1>1, <1>2, <1>3, LengthsBy
<1> QED
  BY <1>1, <1>2, <1>4 DEF t

\* Two chunks.
LEMMA LengthsTwo ==
  ASSUME NEW V, NEW x \in ChunkOf(V), NEW y \in ChunkOf(V)
  PROVE  Lengths(<<x, y>>) = x.len + y.len
<1> DEFINE g == [k \in 0..2 |-> IF k = 0 THEN 0 ELSE IF k = 1 THEN x.len ELSE x.len + y.len]
           t == <<x, y>>
<1>1. x.len \in Nat /\ y.len \in Nat /\ g[0] = 0 /\ g[1] = x.len /\ g[2] = x.len + y.len
  BY DEF ChunkOf
<1>2. t \in Seq(ChunkOf(V)) /\ Len(t) = 2 /\ t[1] = x /\ t[2] = y
  OBVIOUS
<1> HIDE DEF g, t
<1>3. ASSUME NEW k \in 1..Len(t) PROVE g[k] = g[k - 1] + t[k].len
  <2>1. k = 1 \/ k = 2
    BY <1>2
  <2> QED
    BY <1>1, <1>2, <2>1
<1>4. Lengths(t) = g[Len(t)]
  BY <1>1, <1>2, <1>3, LengthsBy
<1> QED
  BY <1>1, <1>2, <1>4 DEF t

\* Three chunks.
LEMMA LengthsThree ==
  ASSUME NEW V, NEW x \in ChunkOf(V), NEW y \in ChunkOf(V), NEW z \in ChunkOf(V)
  PROVE  Lengths(<<x, y, z>>) = x.len + y.len + z.len
<1> DEFINE g == [k \in 0..3 |-> IF k = 0 THEN 0 ELSE IF k = 1 THEN x.len
                                ELSE IF k = 2 THEN x.len + y.len ELSE x.len + y.len + z.len]
           t == <<x, y, z>>
<1>1. /\ x.len \in Nat /\ y.len \in Nat /\ z.len \in Nat
      /\ g[0] = 0 /\ g[1] = x.len /\ g[2] = x.len + y.len /\ g[3] = x.len + y.len + z.len
  BY DEF ChunkOf
<1>2. t \in Seq(ChunkOf(V)) /\ Len(t) = 3 /\ t[1] = x /\ t[2] = y /\ t[3] = z
  OBVIOUS
<1> HIDE DEF g, t
<1>3. ASSUME NEW k \in 1..Len(t) PROVE g[k] = g[k - 1] + t[k].len
  <2>1. k = 1 \/ k = 2 \/ k = 3
    BY <1>2
  <2> QED
    BY <1>1, <1>2, <2>1
<1>4. Lengths(t) = g[Len(t)]
  BY <1>1, <1>2, <1>3, LengthsBy
<1> QED
  BY <1>1, <1>2, <1>4 DEF t

\* A date goes through its number.
LEMMA DateReads ==
  ASSUME NEW d \in CalendarDate
  PROVE  EncodeDate(d) \in Nat /\ DecodeIso8601Date(EncodeDate(d)) = d
<1>1. /\ d.year \in Nat /\ d.month \in 1..12 /\ d.day \in 1..31
      /\ d = [year |-> d.year, month |-> d.month, day |-> d.day]
  BY DEF CalendarDate
<1> DEFINE y == d.year
           m == d.month
           a == d.day
           n == EncodeDate(d)
<1>2. n = y * 10000 + m * 100 + a
  BY DEF EncodeDate
<1>3. y \in Nat /\ m \in 1..12 /\ a \in 1..31
  BY <1>1
<1> HIDE DEF y, m, a, n
<1>4. n \in Nat /\ n \div 10000 = y /\ (n % 10000) \div 100 = m /\ (n % 10000) % 100 = a
  BY <1>2, <1>3
<1>5. DecodeIso8601Date(n) = [year |-> y, month |-> m, day |-> a]
  BY <1>4 DEF DecodeIso8601Date
<1> QED
  BY <1>1, <1>4, <1>5 DEF y, m, a, n

\* An interval is two dates and a symbol.
LEMMA IntervalParts ==
  ASSUME NEW x \in DatedInterval, NEW len \in Nat
  PROVE  LET e == EncodeInterval(len, x)
         IN  /\ e \in Seq(FileChunk) /\ Len(e) = 3 /\ Lengths(e) = 8 + len
             /\ e[1] = Chunk(EncodeDate(x.start_date), 4)
             /\ e[2] = Chunk(EncodeDate(x.end_date), 4) /\ e[3] = Chunk(x.symbol, len)
<1> DEFINE a == Chunk(EncodeDate(x.start_date), 4)
           b == Chunk(EncodeDate(x.end_date), 4)
           d == Chunk(x.symbol, len)
<1>1. EncodeDate(x.start_date) \in Nat /\ EncodeDate(x.end_date) \in Nat /\ x.symbol \in FixedString
  <2>1. x.start_date \in CalendarDate /\ x.end_date \in CalendarDate /\ x.symbol \in FixedString
    BY DEF DatedInterval
  <2> QED
    BY <2>1, DateReads
<1>2. a \in FileChunk /\ b \in FileChunk /\ d \in FileChunk /\ a.len = 4 /\ b.len = 4 /\ d.len = len
  <2>1. /\ EncodeDate(x.start_date) \in FileValue /\ EncodeDate(x.end_date) \in FileValue
        /\ x.symbol \in FileValue
    BY <1>1 DEF FileValue
  <2> QED
    BY <2>1, ChunkType
<1>3. EncodeInterval(len, x) = <<a, b, d>>
  BY DEF EncodeInterval
<1> HIDE DEF a, b, d
<1>4. Lengths(<<a, b, d>>) = 8 + len
  <2>1. a \in ChunkOf(FileValue) /\ b \in ChunkOf(FileValue) /\ d \in ChunkOf(FileValue)
    BY <1>2 DEF FileChunk
  <2>2. Lengths(<<a, b, d>>) = a.len + b.len + d.len
    BY <2>1, LengthsThree
  <2> QED
    BY <1>2, <2>2
<1>5. <<a, b, d>> \in Seq(FileChunk) /\ Len(<<a, b, d>>) = 3
  BY <1>2
<1> QED
  BY <1>3, <1>4, <1>5 DEF a, b, d

\* DecodeInterval returns the interval.
LEMMA IntervalReads ==
  ASSUME NEW x \in DatedInterval, NEW len \in Nat, NEW c, Len(c) \in Nat, NEW i \in Nat,
         Stands(EncodeInterval(len, x), c, i)
  PROVE  DecodeInterval(len, c, i) = x
<1> DEFINE e == EncodeInterval(len, x)
<1>1. /\ x = [start_date |-> x.start_date, end_date |-> x.end_date, symbol |-> x.symbol]
      /\ x.start_date \in CalendarDate /\ x.end_date \in CalendarDate
  BY DEF DatedInterval
<1>2. /\ Len(e) = 3 /\ e[1] = Chunk(EncodeDate(x.start_date), 4)
      /\ e[2] = Chunk(EncodeDate(x.end_date), 4) /\ e[3] = Chunk(x.symbol, len)
  BY IntervalParts
<1>3. Stands(e, c, i)
  OBVIOUS
<1> HIDE DEF e
<1>4. \A k \in 1..3 : /\ ConsumeAs(c, i + k - 1, e[k].len) = e[k].val
                      /\ e[k].len = 4 /\ e[k].val \in Nat => Count(c, i + k - 1) = e[k].val
  <2>1. \A k \in 1..Len(e) : /\ ConsumeAs(c, i + k - 1, e[k].len) = e[k].val
                             /\ e[k].len = 4 /\ e[k].val \in Nat => Count(c, i + k - 1) = e[k].val
    <3>1. Len(e) \in Nat
      BY <1>2
    <3> QED
      BY <1>3, <3>1, ReadsStanding
  <2> QED
    BY <1>2, <2>1
<1>5. /\ EncodeDate(x.start_date) \in Nat /\ EncodeDate(x.end_date) \in Nat
      /\ DecodeIso8601Date(EncodeDate(x.start_date)) = x.start_date
      /\ DecodeIso8601Date(EncodeDate(x.end_date)) = x.end_date
  BY <1>1, DateReads
<1>6. i + 1 - 1 = i /\ i + 2 - 1 = i + 1 /\ i + 3 - 1 = i + 2 /\ 1 \in 1..3 /\ 2 \in 1..3 /\ 3 \in 1..3
  OBVIOUS
<1>7. /\ e[1].len = 4 /\ e[1].val = EncodeDate(x.start_date)
      /\ e[2].len = 4 /\ e[2].val = EncodeDate(x.end_date) /\ e[3].len = len /\ e[3].val = x.symbol
  BY <1>2 DEF Chunk
<1>8. Count(c, i) = EncodeDate(x.start_date)
  BY <1>4, <1>5, <1>6, <1>7
<1>9. Count(c, i + 1) = EncodeDate(x.end_date)
  BY <1>4, <1>5, <1>6, <1>7
<1>10. ConsumeAs(c, i + 2, len) = x.symbol
  BY <1>4, <1>6, <1>7
<1> QED
  BY <1>1, <1>5, <1>8, <1>9, <1>10 DEF DecodeInterval

\* The intervals of a mapping, one behind the other.
EncodedIntervals(len, s) == [i \in 1..Len(s) |-> EncodeInterval(len, s[i])]

\* f holds the concatenations of the first k sequences of M.
Flattens(f, M) ==
  f \in [0..Len(M) -> Seq(FileChunk)] /\ Concatenates(f, M) /\ FlattenSeq(M) = f[Len(M)]
IntervalSizes(f, len) ==
  \A k \in DOMAIN f : Len(f[k]) = 3 * k /\ Lengths(f[k]) = k * (8 + len)

\* Every sequence of sequences of chunks is flattened by such an f.
LEMMA Flattened ==
  ASSUME NEW M \in Seq(Seq(FileChunk))
  PROVE  \E f : Flattens(f, M)
  BY Flattening DEF Flattens

\* Each interval is three chunks, of 8 bytes and those of a symbol.
LEMMA IntervalsParts ==
  ASSUME NEW s \in Seq(DatedInterval), NEW len \in Nat
  PROVE  LET M == EncodedIntervals(len, s)
         IN  /\ M \in Seq(Seq(FileChunk)) /\ Len(M) = Len(s)
             /\ \A k \in 1..Len(s) : M[k] = EncodeInterval(len, s[k])
             /\ \E f : Flattens(f, M) /\ IntervalSizes(f, len)
<1> DEFINE n == Len(s)
           M == EncodedIntervals(len, s)
           l == 8 + len
<1>1. n \in Nat /\ \A k \in 1..n : s[k] \in DatedInterval
  BY ElementOfSeq
<1>2. /\ M \in Seq(Seq(FileChunk)) /\ Len(M) = n
      /\ \A k \in 1..n : M[k] = EncodeInterval(len, s[k])
  <2>1. \A k \in 1..n : EncodeInterval(len, s[k]) \in Seq(FileChunk)
    BY <1>1, IntervalParts
  <2>2. M \in [1..n -> Seq(FileChunk)] /\ \A k \in 1..n : M[k] = EncodeInterval(len, s[k])
    BY <2>1 DEF EncodedIntervals
  <2> QED
    BY <1>1, <2>2, FunctionSeq
<1> HIDE DEF M, n
<1>3. PICK f : Flattens(f, M)
  BY <1>2, Flattened
<1>10. f \in [0..n -> Seq(FileChunk)] /\ Concatenates(f, M)
  BY <1>2, <1>3 DEF Flattens
<1>4. l \in Nat
  OBVIOUS
<1> HIDE DEF l
<1>5. f[0] = << >> /\ \A k \in 1..n : f[k] = f[k - 1] \o M[k]
  BY <1>2, <1>10 DEF Concatenates
<1>6. ASSUME NEW k \in 1..n PROVE M[k] \in Seq(FileChunk) /\ Len(M[k]) = 3 /\ Lengths(M[k]) = l
  <2>1. s[k] \in DatedInterval /\ M[k] = EncodeInterval(len, s[k])
    BY <1>1, <1>2
  <2> DEFINE e == EncodeInterval(len, s[k])
  <2>2. e \in Seq(FileChunk) /\ Len(e) = 3 /\ Lengths(e) = 8 + len
    BY <2>1, IntervalParts
  <2> HIDE DEF e
  <2> QED
    BY <2>1, <2>2 DEF l, e
<1> DEFINE S == {k \in Nat : k <= n => Len(f[k]) = 3 * k /\ Lengths(f[k]) = k * l}
<1>7. 0 \in S
  <2>1. Len(f[0]) = 0 /\ Lengths(f[0]) = 0
    BY <1>5, LengthsNone
  <2>2. 0 * l = 0
    BY <1>4, Times
  <2> QED
    BY <2>1, <2>2
<1>8. ASSUME NEW k \in S PROVE k + 1 \in S
  <2> SUFFICES ASSUME k + 1 <= n
               PROVE  Len(f[k + 1]) = 3 * (k + 1) /\ Lengths(f[k + 1]) = (k + 1) * l
    BY <1>8
  <2>1. k \in Nat /\ k + 1 \in 1..n /\ k \in 0..n /\ Len(f[k]) = 3 * k /\ Lengths(f[k]) = k * l
    BY <1>1, <1>8
  <2>2. f[k + 1] = f[k] \o M[k + 1] /\ f[k] \in Seq(FileChunk) /\ M[k + 1] \in Seq(FileChunk)
    <3>1. (k + 1) - 1 = k
      BY <2>1
    <3>2. f[k + 1] = f[(k + 1) - 1] \o M[k + 1] /\ f[k] \in Seq(FileChunk)
      BY <1>5, <1>10, <2>1
    <3> QED
      BY <1>6, <2>1, <3>1, <3>2
  <2>3. Len(f[k] \o M[k + 1]) = Len(f[k]) + Len(M[k + 1])
    BY <2>2, ConcatParts
  <2>4. Lengths(f[k] \o M[k + 1]) = Lengths(f[k]) + Lengths(M[k + 1])
    <3>1. f[k] \in Seq(ChunkOf(FileValue)) /\ M[k + 1] \in Seq(ChunkOf(FileValue))
      BY <2>2 DEF FileChunk
    <3> QED
      BY <3>1, LengthsCat
  <2>5. Len(M[k + 1]) = 3 /\ Lengths(M[k + 1]) = l
    BY <1>6, <2>1
  <2>6. (k + 1) * l = k * l + l
    BY <1>4, <2>1, Times
  <2>7. Len(f[k + 1]) = 3 * (k + 1)
    BY <2>1, <2>2, <2>3, <2>5
  <2>8. Lengths(f[k + 1]) = (k + 1) * l
    BY <2>1, <2>2, <2>4, <2>5, <2>6
  <2> QED
    BY <2>7, <2>8
<1>9. \A k \in 0..n : Len(f[k]) = 3 * k /\ Lengths(f[k]) = k * l
  <2>1. S = Nat
    <3> HIDE DEF S
    <3>1. S \in SUBSET Nat
      BY DEF S
    <3> QED
      BY <1>7, <1>8, <3>1, SetInduction
  <2>2. \A k \in 0..n : k \in Nat /\ k <= n
    BY <1>1
  <2> QED
    BY <2>1, <2>2
<1>11. IntervalSizes(f, len)
  BY <1>9, <1>10 DEF IntervalSizes, l
<1> QED
  BY <1>2, <1>3, <1>11 DEF M, n

\* A mapping is its symbol, the count of its intervals and the intervals.
LEMMA MappingParts ==
  ASSUME NEW x \in DatedMapping, NEW len \in Nat
  PROVE  LET e == EncodeSymbolMapping(len, x)
             n == Len(x.intervals)
             a == <<Chunk(x.raw_symbol, len), Chunk(n, 4)>>
             b == FlattenSeq(EncodedIntervals(len, x.intervals))
         IN  /\ n \in Nat /\ a \in Seq(FileChunk) /\ b \in Seq(FileChunk) /\ e = a \o b
             /\ e \in Seq(FileChunk) /\ Len(e) = 2 + 3 * n
             /\ Lengths(e) = len + 4 + n * (8 + len)
<1> DEFINE e == EncodeSymbolMapping(len, x)
           s == x.intervals
           n == Len(s)
           u == Chunk(x.raw_symbol, len)
           v == Chunk(n, 4)
           a == <<u, v>>
           b == FlattenSeq(EncodedIntervals(len, s))
<1>1. x.raw_symbol \in FixedString /\ s \in Seq(DatedInterval)
  BY DEF DatedMapping
<1>2. n \in Nat
  BY <1>1, LenProperties
<1>3. u \in FileChunk /\ v \in FileChunk /\ u.len = len /\ v.len = 4
  <2>1. x.raw_symbol \in FileValue /\ n \in FileValue
    BY <1>1, <1>2 DEF FileValue
  <2> QED
    BY <2>1, ChunkType
<1>4. e = a \o b
  BY DEF EncodeSymbolMapping, EncodedIntervals
<1>5. b \in Seq(FileChunk) /\ Len(b) = 3 * n /\ Lengths(b) = n * (8 + len)
  <2> DEFINE M == EncodedIntervals(len, s)
  <2>1. Len(M) = n /\ \E f : Flattens(f, M) /\ IntervalSizes(f, len)
    BY <1>1, IntervalsParts
  <2>2. PICK f : Flattens(f, M) /\ IntervalSizes(f, len)
    BY <2>1
  <2>3. f \in [0..n -> Seq(FileChunk)] /\ b = f[n]
    BY <2>1, <2>2 DEF Flattens
  <2>4. n \in 0..n
    BY <1>2
  <2> HIDE DEF M, b, n
  <2> QED
    BY <2>2, <2>3, <2>4 DEF IntervalSizes
<1> HIDE DEF u, v, b, e, n
<1>6. a \in Seq(FileChunk) /\ Len(a) = 2
  BY <1>3
<1>7. Lengths(a) = len + 4
  <2>1. u \in ChunkOf(FileValue) /\ v \in ChunkOf(FileValue)
    BY <1>3 DEF FileChunk
  <2> QED
    BY <1>3, <2>1, LengthsTwo
<1> HIDE DEF a
<1>8. /\ a \o b \in Seq(FileChunk) /\ Len(a \o b) = Len(a) + Len(b)
      /\ Lengths(a \o b) = Lengths(a) + Lengths(b)
  <2>1. a \in Seq(ChunkOf(FileValue)) /\ b \in Seq(ChunkOf(FileValue))
    BY <1>5, <1>6 DEF FileChunk
  <2> QED
    BY <1>5, <1>6, <2>1, ConcatParts, LengthsCat
<1> DEFINE w == n * (8 + len)
<1>9. w = n * (8 + len)
  OBVIOUS
<1> HIDE DEF w
<1>10. Len(e) = 2 + 3 * n /\ Lengths(e) = len + 4 + w
  BY <1>2, <1>4, <1>5, <1>6, <1>7, <1>8, <1>9
<1>11. e \in Seq(FileChunk)
  BY <1>4, <1>8
<1> QED
  BY <1>2, <1>4, <1>5, <1>6, <1>9, <1>10, <1>11 DEF a, b, e, n, u, v

\* DecodeSymbolMapping returns the mapping and the place behind it.
LEMMA MappingReads ==
  ASSUME NEW x \in DatedMapping, NEW len \in Nat, NEW c, Len(c) \in Nat, NEW i \in Nat,
         Stands(EncodeSymbolMapping(len, x), c, i)
  PROVE  DecodeSymbolMapping(len, c, i)
           = [val |-> x, next |-> i + Len(EncodeSymbolMapping(len, x))]
<1> DEFINE e == EncodeSymbolMapping(len, x)
           s == x.intervals
           n == Len(s)
           a == <<Chunk(x.raw_symbol, len), Chunk(n, 4)>>
           M == EncodedIntervals(len, s)
           b == FlattenSeq(M)
<1>1. /\ x = [raw_symbol |-> x.raw_symbol, intervals |-> s] /\ s \in Seq(DatedInterval)
  BY DEF DatedMapping
<1>2. /\ n \in Nat /\ a \in Seq(FileChunk) /\ b \in Seq(FileChunk) /\ e = a \o b
      /\ Len(e) = 2 + 3 * n
  BY MappingParts
<1>3. Stands(a, c, i) /\ Stands(b, c, i + 2)
  <2>1. Len(a) = 2
    OBVIOUS
  <2>2. Stands(a \o b, c, i)
    BY <1>2
  <2> HIDE DEF a, b, e
  <2> QED
    BY <1>2, <2>1, <2>2, StandsCat
<1>4. ConsumeAs(c, i, len) = x.raw_symbol /\ Count(c, i + 1) = n
  <2>1. Len(a) = 2 /\ a[1].len = len /\ a[1].val = x.raw_symbol /\ a[2].len = 4 /\ a[2].val = n
    BY DEF Chunk
  <2> HIDE DEF a, n
  <2>2. Len(a) \in Nat /\ 1 \in 1..Len(a) /\ 2 \in 1..Len(a) /\ i + 1 - 1 = i /\ i + 2 - 1 = i + 1
    BY <2>1
  <2>3. \A k \in 1..Len(a) : /\ ConsumeAs(c, i + k - 1, a[k].len) = a[k].val
                             /\ a[k].len = 4 /\ a[k].val \in Nat => Count(c, i + k - 1) = a[k].val
    BY <1>3, <2>2, ReadsStanding
  <2>4. ConsumeAs(c, i + 1 - 1, a[1].len) = a[1].val
    BY <2>2, <2>3
  <2>5. Count(c, i + 2 - 1) = n
    BY <1>2, <2>1, <2>2, <2>3
  <2> QED
    BY <2>1, <2>2, <2>4, <2>5
<1>5. ASSUME NEW k \in 1..n PROVE DecodeInterval(len, c, i + 3 * k - 1) = s[k]
  <2>1. /\ M \in Seq(Seq(FileChunk)) /\ Len(M) = n
        /\ M[k] = EncodeInterval(len, s[k])
    BY <1>1, IntervalsParts
  <2>8. \E f : Flattens(f, M) /\ IntervalSizes(f, len)
    BY <1>1, IntervalsParts
  <2>9. PICK f : Flattens(f, M) /\ IntervalSizes(f, len)
    BY <2>8
  <2>10. f \in [0..n -> Seq(FileChunk)] /\ Concatenates(f, M) /\ b = f[n]
    BY <2>1, <2>9 DEF Flattens
  <2> HIDE DEF M, b, n
  <2>2. \A j \in 0..n : Len(f[j]) = 3 * j
    BY <2>9, <2>10 DEF IntervalSizes
  <2>3. \A j \in 1..n : Stands(M[j], c, (i + 2) + Len(f[j - 1]))
    <3>1. Stands(f[Len(M)], c, i + 2) /\ i + 2 \in Nat /\ f \in [0..Len(M) -> Seq(FileChunk)]
      BY <1>3, <2>1, <2>10
    <3> QED
      BY <2>1, <2>10, <3>1, StandsParts
  <2>7. k - 1 \in 0..n /\ (i + 2) + 3 * (k - 1) = i + 3 * k - 1 /\ i + 3 * k - 1 \in Nat
    <3>1. n \in Nat /\ k \in Nat /\ 1 <= k /\ k <= n
      BY <1>2
    <3> QED
      BY <3>1
  <2>4. Len(f[k - 1]) = 3 * (k - 1)
    BY <2>2, <2>7
  <2>5. Stands(EncodeInterval(len, s[k]), c, i + 3 * k - 1)
    <3>1. Stands(M[k], c, (i + 2) + Len(f[k - 1]))
      BY <2>3
    <3>2. (i + 2) + Len(f[k - 1]) = i + 3 * k - 1
      BY <2>4, <2>7
    <3> QED
      BY <2>1, <3>1, <3>2
  <2>6. s[k] \in DatedInterval
    <3>1. s \in Seq(DatedInterval) /\ k \in 1..Len(s)
      BY <1>1 DEF n
    <3> HIDE DEF s
    <3> QED
      BY <3>1, ElementOfSeq
  <2> QED
    BY <2>5, <2>6, <2>7, IntervalReads
<1>6. [k \in 1..n |-> DecodeInterval(len, c, i + 3 * k - 1)] = s
  <2>1. s = [k \in 1..n |-> s[k]]
    BY <1>1
  <2> QED
    BY <1>5, <2>1
<1> HIDE DEF e, n, s
<1>7. i + 2 + 3 * n = i + Len(e)
  BY <1>2
<1> QED
  BY <1>1, <1>4, <1>6, <1>7 DEF DecodeSymbolMapping, e

\* The mappings, one behind the other.
EncodedMappings(len, s) == [i \in 1..Len(s) |-> EncodeSymbolMapping(len, s[i])]
MappingLengths(len, s) == [i \in 1..Len(s) |-> len + 4 + Len(s[i].intervals) * (2 * 4 + len)]

\* Each mapping is encoded as it is alone.
LEMMA MappingSeqs ==
  ASSUME NEW s \in Seq(DatedMapping), NEW len \in Nat
  PROVE  LET M == EncodedMappings(len, s)
         IN  /\ M \in Seq(Seq(FileChunk)) /\ Len(M) = Len(s) /\ Len(s) \in Nat
             /\ \A k \in 1..Len(s) : s[k] \in DatedMapping /\ M[k] = EncodeSymbolMapping(len, s[k])
<1> DEFINE n == Len(s)
           M == EncodedMappings(len, s)
<1>1. n \in Nat /\ \A k \in 1..n : s[k] \in DatedMapping
  BY ElementOfSeq
<1>2. \A k \in 1..n : EncodeSymbolMapping(len, s[k]) \in Seq(FileChunk)
  BY <1>1, MappingParts
<1>3. M \in [1..n -> Seq(FileChunk)] /\ \A k \in 1..n : M[k] = EncodeSymbolMapping(len, s[k])
  BY <1>2 DEF EncodedMappings
<1> QED
  BY <1>1, <1>3, FunctionSeq

\* The mappings are their count and what each is encoded as.
LEMMA MappingsParts ==
  ASSUME NEW s \in Seq(DatedMapping), NEW len \in Nat
  PROVE  LET e == EncodeSymbolMappings(len, s)
             a == <<Chunk(Len(s), 4)>>
             b == FlattenSeq(EncodedMappings(len, s))
         IN  /\ e = a \o b /\ a \in Seq(FileChunk) /\ Lengths(a) = 4 /\ b \in Seq(FileChunk)
             /\ e \in Seq(FileChunk) /\ Len(e) = 1 + Len(b)
             /\ Lengths(e) = 4 + Lengths(b)
<1> DEFINE e == EncodeSymbolMappings(len, s)
           v == Chunk(Len(s), 4)
           a == <<v>>
           M == EncodedMappings(len, s)
           b == FlattenSeq(M)
<1>1. M \in Seq(Seq(FileChunk)) /\ Len(s) \in Nat
  BY MappingSeqs
<1>2. b \in Seq(FileChunk)
  BY <1>1, FlattenParts
<1>3. v \in FileChunk /\ v.len = 4
  <2>1. Len(s) \in FileValue
    BY <1>1 DEF FileValue
  <2> QED
    BY <2>1, ChunkType
<1>4. e = a \o b
  BY DEF EncodeSymbolMappings, EncodedMappings
<1> HIDE DEF v, b, e
<1>5. a \in Seq(FileChunk) /\ Len(a) = 1
  BY <1>3
<1>6. Lengths(a) = 4
  <2>1. v \in ChunkOf(FileValue)
    BY <1>3 DEF FileChunk
  <2> QED
    BY <1>3, <2>1, LengthsOne
<1> HIDE DEF a
<1>7. a \o b \in Seq(FileChunk) /\ Len(a \o b) = Len(a) + Len(b)
  <2>1. a \in Seq(FileChunk) /\ b \in Seq(FileChunk)
    BY <1>2, <1>5
  <2> QED
    BY <2>1, ConcatParts
<1>8. Lengths(a \o b) = Lengths(a) + Lengths(b)
  <2>1. a \in Seq(ChunkOf(FileValue)) /\ b \in Seq(ChunkOf(FileValue))
    BY <1>2, <1>5 DEF FileChunk
  <2> QED
    BY <2>1, LengthsCat
<1>9. e \in Seq(FileChunk) /\ Len(e) = 1 + Len(b) /\ Lengths(e) = 4 + Lengths(b)
  BY <1>4, <1>5, <1>6, <1>7, <1>8
<1> QED
  BY <1>2, <1>4, <1>5, <1>6, <1>9 DEF a, b, e, v

\* The length CalcLength adds up for the mappings is what they take.
LEMMA MappingsLength ==
  ASSUME NEW s \in Seq(DatedMapping), NEW len \in Nat
  PROVE  /\ Total(MappingLengths(len, s)) \in Nat
         /\ Lengths(EncodeSymbolMappings(len, s)) = 4 + Total(MappingLengths(len, s))
<1> DEFINE n == Len(s)
           M == EncodedMappings(len, s)
           b == FlattenSeq(M)
           l == MappingLengths(len, s)
<1>1. /\ M \in Seq(Seq(FileChunk)) /\ Len(M) = n /\ n \in Nat
      /\ \A k \in 1..n : s[k] \in DatedMapping /\ M[k] = EncodeSymbolMapping(len, s[k])
  BY MappingSeqs
<1>2. PICK f : Flattens(f, M)
  BY <1>1, Flattened
<1>3. /\ f \in [0..n -> Seq(FileChunk)] /\ b = f[n]
      /\ f[0] = << >> /\ \A k \in 1..n : f[k] = f[k - 1] \o M[k]
  BY <1>1, <1>2 DEF Flattens, Concatenates
<1>4. ASSUME NEW k \in 1..n
      PROVE  l[k] \in Nat /\ M[k] \in Seq(FileChunk) /\ Lengths(M[k]) = l[k]
  <2> DEFINE x == s[k]
             e == EncodeSymbolMapping(len, x)
             i == Len(x.intervals)
  <2>1. x \in DatedMapping /\ M[k] = e
    BY <1>1
  <2>2. i \in Nat /\ e \in Seq(FileChunk) /\ Lengths(e) = len + 4 + i * (8 + len)
    BY <2>1, MappingParts
  <2>3. l[k] = len + 4 + i * (2 * 4 + len)
    BY DEF MappingLengths
  <2> HIDE DEF e, i, l, M
  <2>4. i * (8 + len) \in Nat /\ 2 * 4 + len = 8 + len
    BY <2>2
  <2> QED
    BY <2>1, <2>2, <2>3, <2>4
<1>5. l \in Seq(Nat) /\ Len(l) = n
  <2>1. \A k \in 1..n : l[k] \in Nat
    BY <1>4
  <2>2. l \in [1..n -> Nat]
    BY <2>1 DEF MappingLengths
  <2> HIDE DEF l
  <2> QED
    BY <1>1, <2>2, FunctionSeq
<1> HIDE DEF l, M, b, n
<1> DEFINE g == [k \in 0..n |-> Lengths(f[k])]
<1>6. \A k \in 0..n : f[k] \in Seq(FileChunk) /\ g[k] = Lengths(f[k])
  BY <1>3
<1>7. ASSUME NEW k \in 1..n PROVE g[k] = g[k - 1] + l[k]
  <2>1. k \in 0..n /\ k - 1 \in 0..n
    BY <1>1
  <2>2. f[k] = f[k - 1] \o M[k] /\ f[k - 1] \in Seq(FileChunk) /\ M[k] \in Seq(FileChunk)
    BY <1>3, <1>4, <1>6, <2>1
  <2>3. Lengths(f[k - 1] \o M[k]) = Lengths(f[k - 1]) + Lengths(M[k])
    <3>1. f[k - 1] \in Seq(ChunkOf(FileValue)) /\ M[k] \in Seq(ChunkOf(FileValue))
      BY <2>2 DEF FileChunk
    <3> QED
      BY <3>1, LengthsCat
  <2>4. g[k] = Lengths(f[k]) /\ g[k - 1] = Lengths(f[k - 1])
    BY <1>6, <2>1
  <2> HIDE DEF g
  <2> QED
    BY <1>4, <2>2, <2>3, <2>4
<1>8. g[0] = 0 /\ g[n] = Lengths(b)
  BY <1>1, <1>3, <1>6, LengthsNone
<1> HIDE DEF g
<1>9. Adds(g, l)
  BY <1>5, <1>7, <1>8 DEF Adds
<1>10. Total(l) \in Nat /\ Total(l) = g[n]
  BY <1>5, <1>9, TotalBy
<1>11. Lengths(EncodeSymbolMappings(len, s)) = 4 + Lengths(b)
  BY MappingsParts DEF b, M
<1> QED
  BY <1>8, <1>10, <1>11 DEF l

\* The mappings are read one behind the other.
LEMMA MappingsReads ==
  ASSUME NEW s \in Seq(DatedMapping), NEW len \in Nat, NEW l, l = len \/ s = << >>,
         NEW c, Len(c) \in Nat, NEW i \in Nat, Stands(EncodeSymbolMappings(len, s), c, i)
  PROVE  DecodeSymbolMappings(l, c, i).val = s
<1> DEFINE n == Len(s)
           M == EncodedMappings(len, s)
           a == <<Chunk(n, 4)>>
           b == FlattenSeq(M)
<1>1. /\ M \in Seq(Seq(FileChunk)) /\ Len(M) = n /\ n \in Nat
      /\ \A k \in 1..n : s[k] \in DatedMapping /\ M[k] = EncodeSymbolMapping(len, s[k])
  BY MappingSeqs
<1>2. PICK f : Flattens(f, M)
  BY <1>1, Flattened
<1>3. /\ f \in [0..n -> Seq(FileChunk)] /\ b = f[n] /\ Concatenates(f, M)
      /\ f[0] = << >> /\ \A k \in 1..n : f[k] = f[k - 1] \o M[k]
  BY <1>1, <1>2 DEF Flattens, Concatenates
<1>4. Stands(a, c, i) /\ Stands(b, c, i + 1)
  <2>1. /\ EncodeSymbolMappings(len, s) = a \o b
        /\ a \in Seq(FileChunk) /\ b \in Seq(FileChunk)
    BY MappingsParts
  <2>2. Len(a) = 1
    OBVIOUS
  <2> HIDE DEF a, b
  <2>3. Stands(a \o b, c, i)
    BY <2>1
  <2> QED
    BY <2>1, <2>2, <2>3, StandsCat
<1>5. Count(c, i) = n
  <2>1. Len(a) = 1 /\ a[1].len = 4 /\ a[1].val = n
    BY DEF Chunk
  <2> HIDE DEF a, n
  <2>2. Len(a) \in Nat /\ 1 \in 1..Len(a) /\ i + 1 - 1 = i
    BY <2>1
  <2>3. a[1].len = 4 /\ a[1].val \in Nat => Count(c, i + 1 - 1) = a[1].val
    BY <1>4, <2>2, ReadsStanding
  <2> QED
    BY <1>1, <2>1, <2>2, <2>3
<1> DEFINE At(k) == i + 1 + Len(f[k])
<1>6. ASSUME NEW k \in 1..n
      PROVE  DecodeSymbolMapping(l, c, At(k - 1)) = [val |-> s[k], next |-> At(k)]
  <2> HIDE DEF M, b, n, a
  <2>1. k - 1 \in 0..n /\ f[k - 1] \in Seq(FileChunk) /\ Len(f[k - 1]) \in Nat
    <3>1. k - 1 \in 0..n
      BY <1>1
    <3>2. f[k - 1] \in Seq(FileChunk)
      BY <1>3, <3>1
    <3> QED
      BY <3>1, <3>2, LenProperties
  <2>2. \A j \in 1..n : Stands(M[j], c, (i + 1) + Len(f[j - 1]))
    <3>1. Stands(f[Len(M)], c, i + 1) /\ i + 1 \in Nat /\ f \in [0..Len(M) -> Seq(FileChunk)]
      BY <1>1, <1>3, <1>4
    <3> QED
      BY <1>1, <1>3, <3>1, StandsParts
  <2>3. l = len
    <3>1. s = << >> => Len(s) = 0
      BY EmptySeq
    <3>2. Len(s) # 0
      BY <1>1 DEF n
    <3> QED
      BY <3>1, <3>2
  <2> DEFINE e == EncodeSymbolMapping(len, s[k])
  <2>4. s[k] \in DatedMapping /\ M[k] = e
    BY <1>1
  <2>10. e \in Seq(FileChunk)
    BY <2>4, MappingParts
  <2>5. Stands(e, c, At(k - 1)) /\ At(k - 1) \in Nat
    <3>1. Stands(M[k], c, (i + 1) + Len(f[k - 1]))
      BY <2>2
    <3>2. i + 1 + Len(f[k - 1]) \in Nat
      <4> DEFINE u == Len(f[k - 1])
      <4>1. u \in Nat
        BY <2>1
      <4> HIDE DEF u
      <4>2. i + 1 + u \in Nat
        BY <4>1
      <4> QED
        BY <4>2 DEF u
    <3> HIDE DEF e
    <3> QED
      BY <2>4, <3>1, <3>2
  <2>6. DecodeSymbolMapping(len, c, At(k - 1)) = [val |-> s[k], next |-> At(k - 1) + Len(e)]
    BY <2>4, <2>5, MappingReads
  <2>7. Len(f[k]) = Len(f[k - 1]) + Len(e)
    <3>1. f[k] = f[k - 1] \o e
      BY <1>3, <2>4
    <3>3. Len(f[k - 1] \o e) = Len(f[k - 1]) + Len(e)
      BY <2>1, <2>10, ConcatParts
    <3> QED
      BY <3>1, <3>3
  <2>8. Len(e) \in Nat
    BY <2>10, LenProperties
  <2>9. At(k - 1) + Len(e) = At(k)
    <3> DEFINE u == Len(f[k - 1])
               v == Len(f[k])
               w == Len(e)
    <3>1. u \in Nat /\ w \in Nat /\ v = u + w
      BY <2>1, <2>7, <2>8
    <3> HIDE DEF u, v, w
    <3>2. i + 1 + u + w = i + 1 + v
      BY <3>1
    <3> QED
      BY <3>2 DEF u, v, w
  <2> QED
    BY <2>3, <2>6, <2>9
<1> DEFINE Is(g) == g = [k \in 0..n |-> IF k = 0 THEN i + 1
                                        ELSE DecodeSymbolMapping(l, c, g[k - 1]).next]
           h == [k \in 0..n |-> At(k)]
           next == CHOOSE g : Is(g)
<1>7. \A k \in 1..n : /\ DecodeSymbolMapping(l, c, At(k - 1)).val = s[k]
                      /\ DecodeSymbolMapping(l, c, At(k - 1)).next = At(k)
  <2> HIDE DEF M, b, n, a, At, next, h
  <2> TAKE k \in 1..n
  <2>1. DecodeSymbolMapping(l, c, At(k - 1)) = [val |-> s[k], next |-> At(k)]
    BY <1>6, Zenon
  <2> QED
    BY <2>1
<1>8. At(0) = i + 1
  BY <1>3, EmptySeq
<1> HIDE DEF M, b, n, a, At
<1>9. Is(h)
  <2>1. ASSUME NEW k \in 0..n
        PROVE  At(k) = IF k = 0 THEN i + 1 ELSE DecodeSymbolMapping(l, c, h[k - 1]).next
    <3>1. CASE k = 0
      BY <1>8, <3>1
    <3>2. CASE k # 0
      <4>1. k \in 1..n /\ k - 1 \in 0..n /\ h[k - 1] = At(k - 1)
        BY <1>1, <3>2
      <4> QED
        BY <1>7, <3>2, <4>1
    <3> QED
      BY <3>1, <3>2
  <2> QED
    BY <2>1
<1>10. Is(next)
  BY <1>9, Zenon
<1>11. DecodeSymbolMappings(l, c, i).val
         = [k \in 1..n |-> DecodeSymbolMapping(l, c, next[k - 1]).val]
  BY <1>5 DEF DecodeSymbolMappings
<1> HIDE DEF next
<1>12. \A k \in 0..n : next[k] = IF k = 0 THEN i + 1
                                 ELSE DecodeSymbolMapping(l, c, next[k - 1]).next
  BY <1>10, Zenon
<1> DEFINE S == {k \in Nat : k <= n => next[k] = At(k)}
<1>13. S = Nat
  <2>1. 0 \in S
    BY <1>1, <1>8, <1>12
  <2>2. ASSUME NEW k \in S PROVE k + 1 \in S
    <3> SUFFICES ASSUME k + 1 <= n PROVE next[k + 1] = At(k + 1)
      BY <2>2
    <3>1. k + 1 \in 1..n /\ k + 1 \in 0..n /\ (k + 1) - 1 = k /\ k + 1 # 0 /\ next[k] = At(k)
      BY <1>1, <2>2
    <3>2. next[k + 1] = DecodeSymbolMapping(l, c, next[k]).next
      BY <1>12, <3>1
    <3>3. DecodeSymbolMapping(l, c, At((k + 1) - 1)).next = At(k + 1)
      BY <1>7, <3>1
    <3> QED
      BY <3>1, <3>2, <3>3
  <2> HIDE DEF S
  <2>3. S \in SUBSET Nat
    BY DEF S
  <2> QED
    BY <2>1, <2>2, <2>3, SetInduction
<1>14. ASSUME NEW k \in 1..n PROVE DecodeSymbolMapping(l, c, next[k - 1]).val = s[k]
  <2>1. k - 1 \in Nat /\ k - 1 <= n
    BY <1>1
  <2>2. next[k - 1] = At(k - 1)
    BY <1>13, <2>1
  <2> QED
    BY <1>7, <2>2
<1>15. s = [k \in 1..n |-> s[k]]
  BY DEF n
<1> QED
  BY <1>11, <1>14, <1>15

-----------------------------------------------------------------------------
(* Enumerations.                                                           *)

\* An enumerator is read back from a value that is no other one's and not null.
LEMMA EnumReads ==
  ASSUME NEW value, NEW null, NEW x \in DOMAIN value, value[x] # null,
         \A y \in DOMAIN value : value[y] = value[x] => y = x
  PROVE  DecodeEnum(value[x], value, null) = x
<1> DEFINE P(y) == value[y] = value[x]
<1>1. \E y \in DOMAIN value : P(y)
  OBVIOUS
<1>2. (CHOOSE y \in DOMAIN value : P(y)) \in DOMAIN value /\ P(CHOOSE y \in DOMAIN value : P(y))
  BY <1>1, Zenon
<1>3. (CHOOSE y \in DOMAIN value : P(y)) = x
  BY <1>2, Zenon
<1> QED
  BY <1>1, <1>3, Zenon DEF DecodeEnum

\* No two enumerators share a value, and none has that of null.
LEMMA SchemaValues ==
  ASSUME NEW x \in DOMAIN SchemaValue
  PROVE  /\ SchemaValue[x] \in Nat /\ SchemaValue[x] # kNullSchema /\ x # Nullopt
         /\ \A y \in DOMAIN SchemaValue : SchemaValue[y] = SchemaValue[x] => y = x
<1> DEFINE names == <<"Mbo", "Mbp1", "Mbp10", "Tbbo", "Trades", "Ohlcv1S", "Ohlcv1M", "Ohlcv1H",
                      "Ohlcv1D", "Definition", "Statistics", "Status", "Imbalance", "OhlcvEod",
                      "Cmbp1", "Cbbo1S", "Cbbo1M", "Tcbbo", "Bbo1S", "Bbo1M">>
<1>1. ASSUME NEW y \in DOMAIN SchemaValue
      PROVE  SchemaValue[y] \in 0..19 /\ names[SchemaValue[y] + 1] = y
  BY DEF SchemaValue
<1>2. x # "nullopt"
  BY DEF SchemaValue
<1> QED
  BY <1>1, <1>2 DEF kNullSchema, Nullopt

\* The same for SType.
LEMMA STypeValues ==
  ASSUME NEW x \in DOMAIN STypeValue
  PROVE  /\ STypeValue[x] \in Nat /\ STypeValue[x] # kNullSType /\ x # Nullopt
         /\ \A y \in DOMAIN STypeValue : STypeValue[y] = STypeValue[x] => y = x
<1> DEFINE names == <<"InstrumentId", "RawSymbol", "Smart", "Continuous", "Parent",
                      "NasdaqSymbol", "CmsSymbol", "Isin", "UsCode", "BbgCompId",
                      "BbgCompTicker", "Figi", "FigiTicker", "ListingId", "IssuerId", "SecurityId">>
<1>1. ASSUME NEW y \in DOMAIN STypeValue
      PROVE  STypeValue[y] \in 0..15 /\ names[STypeValue[y] + 1] = y
  BY DEF STypeValue
<1>2. x # "nullopt"
  BY DEF STypeValue
<1> QED
  BY <1>1, <1>2 DEF kNullSType, Nullopt

\* An optional schema goes through its number.
LEMMA SchemaReads ==
  ASSUME NEW x \in DOMAIN SchemaValue \cup {Nullopt}
  PROVE  LET n == EncodeOptional(x, SchemaValue, kNullSchema)
         IN  n \in Nat /\ DecodeEnum(n, SchemaValue, kNullSchema) = x
<1>1. CASE x = Nullopt
  <2>1. kNullSchema \in Nat
    BY DEF kNullSchema
  <2>2. EncodeOptional(x, SchemaValue, kNullSchema) = kNullSchema
    BY <1>1, Zenon DEF EncodeOptional
  <2>3. DecodeEnum(kNullSchema, SchemaValue, kNullSchema) = Nullopt
    BY Zenon DEF DecodeEnum
  <2> QED
    BY <1>1, <2>1, <2>2, <2>3, Zenon
<1>2. CASE x # Nullopt
  <2>1. x \in DOMAIN SchemaValue
    BY <1>2
  <2>2. EncodeOptional(x, SchemaValue, kNullSchema) = SchemaValue[x]
    BY <1>2, Zenon DEF EncodeOptional
  <2>3. /\ SchemaValue[x] \in Nat /\ SchemaValue[x] # kNullSchema
        /\ \A y \in DOMAIN SchemaValue : SchemaValue[y] = SchemaValue[x] => y = x
    BY <2>1, SchemaValues
  <2>4. DecodeEnum(SchemaValue[x], SchemaValue, kNullSchema) = x
    BY <2>1, <2>3, EnumReads
  <2> QED
    BY <2>2, <2>3, <2>4, Zenon
<1> QED
  BY <1>1, <1>2

\* So does an optional SType,
LEMMA STypeReads ==
  ASSUME NEW x \in DOMAIN STypeValue \cup {Nullopt}
  PROVE  LET n == EncodeOptional(x, STypeValue, kNullSType)
         IN  n \in Nat /\ DecodeEnum(n, STypeValue, kNullSType) = x
<1>1. CASE x = Nullopt
  <2>1. kNullSType \in Nat
    BY DEF kNullSType
  <2>2. EncodeOptional(x, STypeValue, kNullSType) = kNullSType
    BY <1>1, Zenon DEF EncodeOptional
  <2>3. DecodeEnum(kNullSType, STypeValue, kNullSType) = Nullopt
    BY Zenon DEF DecodeEnum
  <2> QED
    BY <1>1, <2>1, <2>2, <2>3, Zenon
<1>2. CASE x # Nullopt
  <2>1. x \in DOMAIN STypeValue
    BY <1>2
  <2>2. EncodeOptional(x, STypeValue, kNullSType) = STypeValue[x]
    BY <1>2, Zenon DEF EncodeOptional
  <2>3. /\ STypeValue[x] \in Nat /\ STypeValue[x] # kNullSType
        /\ \A y \in DOMAIN STypeValue : STypeValue[y] = STypeValue[x] => y = x
    BY <2>1, STypeValues
  <2>4. DecodeEnum(STypeValue[x], STypeValue, kNullSType) = x
    BY <2>1, <2>3, EnumReads
  <2> QED
    BY <2>2, <2>3, <2>4, Zenon
<1> QED
  BY <1>1, <1>2

\* and an SType that is there.
LEMMA STypeOutReads ==
  ASSUME NEW x \in DOMAIN STypeValue
  PROVE  STypeValue[x] \in Nat /\ DecodeEnum(STypeValue[x], STypeValue, Garbled) = x
<1>1. Garbled \notin Nat
  BY FilesAssumption
<1>2. STypeValue[x] \in Nat
  BY STypeValues
<1>3. STypeValue[x] # Garbled
  BY <1>1, <1>2, Zenon
<1>4. \A y \in DOMAIN STypeValue : STypeValue[y] = STypeValue[x] => y = x
  BY STypeValues
<1> QED
  BY <1>2, <1>3, <1>4, EnumReads

-----------------------------------------------------------------------------
(* What EncodeMetadata writes.                                             *)

\* The fields of metadata.
LEMMA MetadataFields ==
  ASSUME NEW m \in Metadata
  PROVE  /\ m.version \in Nat /\ EncodedVersion(m) \in Nat \ {0} /\ m.symbol_cstr_len \in Nat
         /\ m.dataset \in FixedString /\ m.start \in STRING /\ m.end \in STRING
         /\ m.limit \in STRING /\ m.ts_out \in BOOLEAN
         /\ m.schema \in DOMAIN SchemaValue \cup {Nullopt}
         /\ m.stype_in \in DOMAIN STypeValue \cup {Nullopt} /\ m.stype_out \in DOMAIN STypeValue
         /\ m.symbols \in Seq(FixedString) /\ m.partial \in Seq(FixedString)
         /\ m.not_found \in Seq(FixedString) /\ m.mappings \in Seq(DatedMapping)
<1>1. m.version \in Nat
  BY DEF Metadata
<1>2. EncodedVersion(m) \in Nat \ {0}
  BY <1>1 DEF EncodedVersion
<1> QED
  BY <1>2 DEF Metadata

\* The fixed fields: eleven chunks, in version 1 with a record count.
LEMMA FixedFieldsV1 ==
  ASSUME NEW m \in Metadata, EncodedVersion(m) = 1
  PROVE  LET F == EncodeFixedFields(m)
         IN  /\ F \in Seq(FileChunk) /\ Len(F) = 11
             /\ F[1].val = m.dataset /\ F[1].len = 16
             /\ F[2].val = EncodeOptional(m.schema, SchemaValue, kNullSchema) /\ F[2].len = 2
             /\ F[3].val = m.start /\ F[3].len = 8
             /\ F[4].val = m.end /\ F[4].len = 8
             /\ F[5].val = m.limit /\ F[5].len = 8
             /\ F[6].val = kNullRecordCount /\ F[6].len = 8
             /\ F[7].val = EncodeOptional(m.stype_in, STypeValue, kNullSType) /\ F[7].len = 1
             /\ F[8].val = STypeValue[m.stype_out] /\ F[8].len = 1
             /\ F[9].val = m.ts_out /\ F[9].len = 1
             /\ F[10].val = Zeros /\ F[10].len = 47
             /\ F[11].val = 0 /\ F[11].len = 4
<1> DEFINE x1 == Chunk(m.dataset, 16)
           x2 == Chunk(EncodeOptional(m.schema, SchemaValue, kNullSchema), 2)
           x3 == Chunk(m.start, 8)
           x4 == Chunk(m.end, 8)
           x5 == Chunk(m.limit, 8)
           x6 == Chunk(kNullRecordCount, 8)
           x7 == Chunk(EncodeOptional(m.stype_in, STypeValue, kNullSType), 1)
           x8 == Chunk(STypeValue[m.stype_out], 1)
           x9 == Chunk(m.ts_out, 1)
           x10 == Chunk(Zeros, 47)
           x11 == Chunk(0, 4)
           a == <<x1, x2, x3, x4, x5>>
           b == <<x6>>
           c == <<x7, x8, x9>>
           d == << >>
           e == <<x10, x11>>
           F == EncodeFixedFields(m)
<1>1. F = a \o b \o c \o d \o e
  <2>1. EncodedVersion(m) = 1 /\ ~(EncodedVersion(m) > 1)
    BY MetadataFields
  <2> QED
    BY <2>1 DEF EncodeFixedFields, kDatasetCstrLen, kMetadataReservedLen, kMetadataReservedLenV1
<1>2. /\ x1 \in FileChunk /\ x2 \in FileChunk /\ x3 \in FileChunk /\ x4 \in FileChunk /\ x5 \in FileChunk
      /\ x6 \in FileChunk /\ x7 \in FileChunk
      /\ x8 \in FileChunk /\ x9 \in FileChunk /\ x10 \in FileChunk /\ x11 \in FileChunk
  <2>1. /\ EncodeOptional(m.schema, SchemaValue, kNullSchema) \in Nat
        /\ EncodeOptional(m.stype_in, STypeValue, kNullSType) \in Nat
        /\ STypeValue[m.stype_out] \in Nat
    BY MetadataFields, SchemaReads, STypeReads, STypeOutReads
  <2>2. /\ m.dataset \in FileValue /\ m.start \in FileValue /\ m.end \in FileValue
        /\ m.limit \in FileValue /\ m.ts_out \in FileValue /\ m.symbol_cstr_len \in FileValue
        /\ kNullRecordCount \in FileValue /\ Zeros \in FileValue /\ 0 \in FileValue
        /\ EncodeOptional(m.schema, SchemaValue, kNullSchema) \in FileValue
        /\ EncodeOptional(m.stype_in, STypeValue, kNullSType) \in FileValue
        /\ STypeValue[m.stype_out] \in FileValue
    BY <2>1, MetadataFields DEF FileValue
  <2> QED
    BY <2>2, ChunkType
<1>0. /\ x1.val = m.dataset /\ x1.len = 16
      /\ x2.val = EncodeOptional(m.schema, SchemaValue, kNullSchema) /\ x2.len = 2
      /\ x3.val = m.start /\ x3.len = 8
      /\ x4.val = m.end /\ x4.len = 8
      /\ x5.val = m.limit /\ x5.len = 8
      /\ x6.val = kNullRecordCount /\ x6.len = 8
      /\ x7.val = EncodeOptional(m.stype_in, STypeValue, kNullSType) /\ x7.len = 1
      /\ x8.val = STypeValue[m.stype_out] /\ x8.len = 1
      /\ x9.val = m.ts_out /\ x9.len = 1
      /\ x10.val = Zeros /\ x10.len = 47
      /\ x11.val = 0 /\ x11.len = 4
  BY DEF Chunk
<1> HIDE DEF x1, x2, x3, x4, x5, x6, x7, x8, x9, x10, x11, F
<1>3. /\ a \in Seq(FileChunk) /\ Len(a) = 5
      /\ a[1] = x1 /\ a[2] = x2 /\ a[3] = x3 /\ a[4] = x4 /\ a[5] = x5
  BY <1>2
<1>4. b \in Seq(FileChunk) /\ Len(b) = 1 /\ b[1] = x6
  BY <1>2
<1>5. c \in Seq(FileChunk) /\ Len(c) = 3 /\ c[1] = x7 /\ c[2] = x8 /\ c[3] = x9
  BY <1>2
<1>6. d \in Seq(FileChunk) /\ Len(d) = 0
  BY <1>2, EmptySeq
<1>7. e \in Seq(FileChunk) /\ Len(e) = 2 /\ e[1] = x10 /\ e[2] = x11
  BY <1>2
<1> HIDE DEF a, b, c, d, e
<1> DEFINE p == a \o b
<1>8. /\ p \in Seq(FileChunk) /\ Len(p) = 6
      /\ p[1] = x1 /\ p[2] = x2 /\ p[3] = x3 /\ p[4] = x4 /\ p[5] = x5 /\ p[6] = x6
  <2>1. /\ p \in Seq(FileChunk) /\ Len(p) = Len(a) + Len(b)
        /\ \A i \in 1..Len(a) : p[i] = a[i]
        /\ \A i \in 1..Len(b) : p[Len(a) + i] = b[i]
    <3>1. a \in Seq(FileChunk) /\ b \in Seq(FileChunk)
      BY <1>3, <1>4
    <3> QED
      BY <3>1, ConcatParts
  <2> HIDE DEF p
  <2>2. Len(p) = 6
    BY <2>1, <1>3, <1>4
  <2>3. p[1] = x1 /\ p[2] = x2 /\ p[3] = x3 /\ p[4] = x4 /\ p[5] = x5
    BY <2>1, <1>3
  <2>4. p[5 + 1] = x6
    BY <2>1, <1>3, <1>4
  <2>5. 5 + 1 = 6
    OBVIOUS
  <2>6. p[6] = x6
    BY <2>4, <2>5, Zenon
  <2> QED
    BY <2>1, <2>2, <2>3, <2>6
<1> HIDE DEF p
<1> DEFINE q == p \o c
<1>9. /\ q \in Seq(FileChunk) /\ Len(q) = 9
      /\ q[1] = x1 /\ q[2] = x2 /\ q[3] = x3 /\ q[4] = x4 /\ q[5] = x5 /\ q[6] = x6
      /\ q[7] = x7 /\ q[8] = x8 /\ q[9] = x9
  <2>1. /\ q \in Seq(FileChunk) /\ Len(q) = Len(p) + Len(c)
        /\ \A i \in 1..Len(p) : q[i] = p[i]
        /\ \A i \in 1..Len(c) : q[Len(p) + i] = c[i]
    <3>1. p \in Seq(FileChunk) /\ c \in Seq(FileChunk)
      BY <1>8, <1>5
    <3> QED
      BY <3>1, ConcatParts
  <2> HIDE DEF q
  <2>2. Len(q) = 9
    BY <2>1, <1>8, <1>5
  <2>3. /\ q[1] = x1 /\ q[2] = x2 /\ q[3] = x3 /\ q[4] = x4 /\ q[5] = x5
        /\ q[6] = x6
    BY <2>1, <1>8
  <2>4. q[6 + 1] = x7 /\ q[6 + 2] = x8 /\ q[6 + 3] = x9
    BY <2>1, <1>8, <1>5
  <2>5. 6 + 1 = 7 /\ 6 + 2 = 8 /\ 6 + 3 = 9
    OBVIOUS
  <2>6. q[7] = x7 /\ q[8] = x8 /\ q[9] = x9
    BY <2>4, <2>5, Zenon
  <2> QED
    BY <2>1, <2>2, <2>3, <2>6
<1> HIDE DEF q
<1> DEFINE r == q \o d
<1>10. /\ r \in Seq(FileChunk) /\ Len(r) = 9
      /\ r[1] = x1 /\ r[2] = x2 /\ r[3] = x3 /\ r[4] = x4 /\ r[5] = x5 /\ r[6] = x6
      /\ r[7] = x7 /\ r[8] = x8 /\ r[9] = x9
  <2>1. /\ r \in Seq(FileChunk) /\ Len(r) = Len(q) + Len(d)
        /\ \A i \in 1..Len(q) : r[i] = q[i]
        /\ \A i \in 1..Len(d) : r[Len(q) + i] = d[i]
    <3>1. q \in Seq(FileChunk) /\ d \in Seq(FileChunk)
      BY <1>9, <1>6
    <3> QED
      BY <3>1, ConcatParts
  <2> HIDE DEF r
  <2>2. Len(r) = 9
    BY <2>1, <1>9, <1>6
  <2>3. /\ r[1] = x1 /\ r[2] = x2 /\ r[3] = x3 /\ r[4] = x4 /\ r[5] = x5
        /\ r[6] = x6 /\ r[7] = x7 /\ r[8] = x8 /\ r[9] = x9
    BY <2>1, <1>9
  <2> QED
    BY <2>1, <2>2, <2>3
<1> HIDE DEF r
<1> DEFINE s == r \o e
<1>11. /\ s \in Seq(FileChunk) /\ Len(s) = 11
      /\ s[1] = x1 /\ s[2] = x2 /\ s[3] = x3 /\ s[4] = x4 /\ s[5] = x5 /\ s[6] = x6
      /\ s[7] = x7 /\ s[8] = x8 /\ s[9] = x9 /\ s[10] = x10 /\ s[11] = x11
  <2>1. /\ s \in Seq(FileChunk) /\ Len(s) = Len(r) + Len(e)
        /\ \A i \in 1..Len(r) : s[i] = r[i]
        /\ \A i \in 1..Len(e) : s[Len(r) + i] = e[i]
    <3>1. r \in Seq(FileChunk) /\ e \in Seq(FileChunk)
      BY <1>10, <1>7
    <3> QED
      BY <3>1, ConcatParts
  <2> HIDE DEF s
  <2>2. Len(s) = 11
    BY <2>1, <1>10, <1>7
  <2>3. /\ s[1] = x1 /\ s[2] = x2 /\ s[3] = x3 /\ s[4] = x4 /\ s[5] = x5
        /\ s[6] = x6 /\ s[7] = x7 /\ s[8] = x8 /\ s[9] = x9
    BY <2>1, <1>10
  <2>4. s[9 + 1] = x10 /\ s[9 + 2] = x11
    BY <2>1, <1>10, <1>7
  <2>5. 9 + 1 = 10 /\ 9 + 2 = 11
    OBVIOUS
  <2>6. s[10] = x10 /\ s[11] = x11
    BY <2>4, <2>5, Zenon
  <2> QED
    BY <2>1, <2>2, <2>3, <2>6
<1> HIDE DEF s
<1>12. F = s
  BY <1>1 DEF p, q, r, s
<1> QED
  BY <1>0, <1>12, <1>11 DEF F

\* From version 2 on there is the length of the symbols instead of the count.
LEMMA FixedFieldsLater ==
  ASSUME NEW m \in Metadata, EncodedVersion(m) > 1
  PROVE  LET F == EncodeFixedFields(m)
         IN  /\ F \in Seq(FileChunk) /\ Len(F) = 11
             /\ F[1].val = m.dataset /\ F[1].len = 16
             /\ F[2].val = EncodeOptional(m.schema, SchemaValue, kNullSchema) /\ F[2].len = 2
             /\ F[3].val = m.start /\ F[3].len = 8
             /\ F[4].val = m.end /\ F[4].len = 8
             /\ F[5].val = m.limit /\ F[5].len = 8
             /\ F[6].val = EncodeOptional(m.stype_in, STypeValue, kNullSType) /\ F[6].len = 1
             /\ F[7].val = STypeValue[m.stype_out] /\ F[7].len = 1
             /\ F[8].val = m.ts_out /\ F[8].len = 1
             /\ F[9].val = m.symbol_cstr_len /\ F[9].len = 2
             /\ F[10].val = Zeros /\ F[10].len = 53
             /\ F[11].val = 0 /\ F[11].len = 4
<1> DEFINE x1 == Chunk(m.dataset, 16)
           x2 == Chunk(EncodeOptional(m.schema, SchemaValue, kNullSchema), 2)
           x3 == Chunk(m.start, 8)
           x4 == Chunk(m.end, 8)
           x5 == Chunk(m.limit, 8)
           x6 == Chunk(EncodeOptional(m.stype_in, STypeValue, kNullSType), 1)
           x7 == Chunk(STypeValue[m.stype_out], 1)
           x8 == Chunk(m.ts_out, 1)
           x9 == Chunk(m.symbol_cstr_len, 2)
           x10 == Chunk(Zeros, 53)
           x11 == Chunk(0, 4)
           a == <<x1, x2, x3, x4, x5>>
           b == << >>
           c == <<x6, x7, x8>>
           d == <<x9>>
           e == <<x10, x11>>
           F == EncodeFixedFields(m)
<1>1. F = a \o b \o c \o d \o e
  <2>1. EncodedVersion(m) # 1 /\ EncodedVersion(m) > 1
    BY MetadataFields
  <2> QED
    BY <2>1 DEF EncodeFixedFields, kDatasetCstrLen, kMetadataReservedLen, kMetadataReservedLenV1
<1>2. /\ x1 \in FileChunk /\ x2 \in FileChunk /\ x3 \in FileChunk /\ x4 \in FileChunk /\ x5 \in FileChunk
      /\ x6 \in FileChunk /\ x7 \in FileChunk
      /\ x8 \in FileChunk /\ x9 \in FileChunk /\ x10 \in FileChunk /\ x11 \in FileChunk
  <2>1. /\ EncodeOptional(m.schema, SchemaValue, kNullSchema) \in Nat
        /\ EncodeOptional(m.stype_in, STypeValue, kNullSType) \in Nat
        /\ STypeValue[m.stype_out] \in Nat
    BY MetadataFields, SchemaReads, STypeReads, STypeOutReads
  <2>2. /\ m.dataset \in FileValue /\ m.start \in FileValue /\ m.end \in FileValue
        /\ m.limit \in FileValue /\ m.ts_out \in FileValue /\ m.symbol_cstr_len \in FileValue
        /\ kNullRecordCount \in FileValue /\ Zeros \in FileValue /\ 0 \in FileValue
        /\ EncodeOptional(m.schema, SchemaValue, kNullSchema) \in FileValue
        /\ EncodeOptional(m.stype_in, STypeValue, kNullSType) \in FileValue
        /\ STypeValue[m.stype_out] \in FileValue
    BY <2>1, MetadataFields DEF FileValue
  <2> QED
    BY <2>2, ChunkType
<1>0. /\ x1.val = m.dataset /\ x1.len = 16
      /\ x2.val = EncodeOptional(m.schema, SchemaValue, kNullSchema) /\ x2.len = 2
      /\ x3.val = m.start /\ x3.len = 8
      /\ x4.val = m.end /\ x4.len = 8
      /\ x5.val = m.limit /\ x5.len = 8
      /\ x6.val = EncodeOptional(m.stype_in, STypeValue, kNullSType) /\ x6.len = 1
      /\ x7.val = STypeValue[m.stype_out] /\ x7.len = 1
      /\ x8.val = m.ts_out /\ x8.len = 1
      /\ x9.val = m.symbol_cstr_len /\ x9.len = 2
      /\ x10.val = Zeros /\ x10.len = 53
      /\ x11.val = 0 /\ x11.len = 4
  BY DEF Chunk
<1> HIDE DEF x1, x2, x3, x4, x5, x6, x7, x8, x9, x10, x11, F
<1>3. /\ a \in Seq(FileChunk) /\ Len(a) = 5
      /\ a[1] = x1 /\ a[2] = x2 /\ a[3] = x3 /\ a[4] = x4 /\ a[5] = x5
  BY <1>2
<1>4. b \in Seq(FileChunk) /\ Len(b) = 0
  BY <1>2, EmptySeq
<1>5. c \in Seq(FileChunk) /\ Len(c) = 3 /\ c[1] = x6 /\ c[2] = x7 /\ c[3] = x8
  BY <1>2
<1>6. d \in Seq(FileChunk) /\ Len(d) = 1 /\ d[1] = x9
  BY <1>2
<1>7. e \in Seq(FileChunk) /\ Len(e) = 2 /\ e[1] = x10 /\ e[2] = x11
  BY <1>2
<1> HIDE DEF a, b, c, d, e
<1> DEFINE p == a \o b
<1>8. /\ p \in Seq(FileChunk) /\ Len(p) = 5
      /\ p[1] = x1 /\ p[2] = x2 /\ p[3] = x3 /\ p[4] = x4 /\ p[5] = x5
  <2>1. /\ p \in Seq(FileChunk) /\ Len(p) = Len(a) + Len(b)
        /\ \A i \in 1..Len(a) : p[i] = a[i]
        /\ \A i \in 1..Len(b) : p[Len(a) + i] = b[i]
    <3>1. a \in Seq(FileChunk) /\ b \in Seq(FileChunk)
      BY <1>3, <1>4
    <3> QED
      BY <3>1, ConcatParts
  <2> HIDE DEF p
  <2>2. Len(p) = 5
    BY <2>1, <1>3, <1>4
  <2>3. p[1] = x1 /\ p[2] = x2 /\ p[3] = x3 /\ p[4] = x4 /\ p[5] = x5
    BY <2>1, <1>3
  <2> QED
    BY <2>1, <2>2, <2>3
<1> HIDE DEF p
<1> DEFINE q == p \o c
<1>9. /\ q \in Seq(FileChunk) /\ Len(q) = 8
      /\ q[1] = x1 /\ q[2] = x2 /\ q[3] = x3 /\ q[4] = x4 /\ q[5] = x5 /\ q[6] = x6
      /\ q[7] = x7 /\ q[8] = x8
  <2>1. /\ q \in Seq(FileChunk) /\ Len(q) = Len(p) + Len(c)
        /\ \A i \in 1..Len(p) : q[i] = p[i]
        /\ \A i \in 1..Len(c) : q[Len(p) + i] = c[i]
    <3>1. p \in Seq(FileChunk) /\ c \in Seq(FileChunk)
      BY <1>8, <1>5
    <3> QED
      BY <3>1, ConcatParts
  <2> HIDE DEF q
  <2>2. Len(q) = 8
    BY <2>1, <1>8, <1>5
  <2>3. q[1] = x1 /\ q[2] = x2 /\ q[3] = x3 /\ q[4] = x4 /\ q[5] = x5
    BY <2>1, <1>8
  <2>4. q[5 + 1] = x6 /\ q[5 + 2] = x7 /\ q[5 + 3] = x8
    BY <2>1, <1>8, <1>5
  <2>5. 5 + 1 = 6 /\ 5 + 2 = 7 /\ 5 + 3 = 8
    OBVIOUS
  <2>6. q[6] = x6 /\ q[7] = x7 /\ q[8] = x8
    BY <2>4, <2>5, Zenon
  <2> QED
    BY <2>1, <2>2, <2>3, <2>6
<1> HIDE DEF q
<1> DEFINE r == q \o d
<1>10. /\ r \in Seq(FileChunk) /\ Len(r) = 9
      /\ r[1] = x1 /\ r[2] = x2 /\ r[3] = x3 /\ r[4] = x4 /\ r[5] = x5 /\ r[6] = x6
      /\ r[7] = x7 /\ r[8] = x8 /\ r[9] = x9
  <2>1. /\ r \in Seq(FileChunk) /\ Len(r) = Len(q) + Len(d)
        /\ \A i \in 1..Len(q) : r[i] = q[i]
        /\ \A i \in 1..Len(d) : r[Len(q) + i] = d[i]
    <3>1. q \in Seq(FileChunk) /\ d \in Seq(FileChunk)
      BY <1>9, <1>6
    <3> QED
      BY <3>1, ConcatParts
  <2> HIDE DEF r
  <2>2. Len(r) = 9
    BY <2>1, <1>9, <1>6
  <2>3. /\ r[1] = x1 /\ r[2] = x2 /\ r[3] = x3 /\ r[4] = x4 /\ r[5] = x5
        /\ r[6] = x6 /\ r[7] = x7 /\ r[8] = x8
    BY <2>1, <1>9
  <2>4. r[8 + 1] = x9
    BY <2>1, <1>9, <1>6
  <2>5. 8 + 1 = 9
    OBVIOUS
  <2>6. r[9] = x9
    BY <2>4, <2>5, Zenon
  <2> QED
    BY <2>1, <2>2, <2>3, <2>6
<1> HIDE DEF r
<1> DEFINE s == r \o e
<1>11. /\ s \in Seq(FileChunk) /\ Len(s) = 11
      /\ s[1] = x1 /\ s[2] = x2 /\ s[3] = x3 /\ s[4] = x4 /\ s[5] = x5 /\ s[6] = x6
      /\ s[7] = x7 /\ s[8] = x8 /\ s[9] = x9 /\ s[10] = x10 /\ s[11] = x11
  <2>1. /\ s \in Seq(FileChunk) /\ Len(s) = Len(r) + Len(e)
        /\ \A i \in 1..Len(r) : s[i] = r[i]
        /\ \A i \in 1..Len(e) : s[Len(r) + i] = e[i]
    <3>1. r \in Seq(FileChunk) /\ e \in Seq(FileChunk)
      BY <1>10, <1>7
    <3> QED
      BY <3>1, ConcatParts
  <2> HIDE DEF s
  <2>2. Len(s) = 11
    BY <2>1, <1>10, <1>7
  <2>3. /\ s[1] = x1 /\ s[2] = x2 /\ s[3] = x3 /\ s[4] = x4 /\ s[5] = x5
        /\ s[6] = x6 /\ s[7] = x7 /\ s[8] = x8 /\ s[9] = x9
    BY <2>1, <1>10
  <2>4. s[9 + 1] = x10 /\ s[9 + 2] = x11
    BY <2>1, <1>10, <1>7
  <2>5. 9 + 1 = 10 /\ 9 + 2 = 11
    OBVIOUS
  <2>6. s[10] = x10 /\ s[11] = x11
    BY <2>4, <2>5, Zenon
  <2> QED
    BY <2>1, <2>2, <2>3, <2>6
<1> HIDE DEF s
<1>12. F = s
  BY <1>1 DEF p, q, r, s
<1> QED
  BY <1>0, <1>12, <1>11 DEF F

\* The lengths of the fixed fields: ten of 100 bytes together, and the length of the schema
\* definition.
FieldLens(v) == IF v = 1 THEN <<16, 2, 8, 8, 8, 8, 1, 1, 1, 47, 4>>
                         ELSE <<16, 2, 8, 8, 8, 1, 1, 1, 2, 53, 4>>
FieldEnds(v) == IF v = 1 THEN <<0, 16, 18, 26, 34, 42, 50, 51, 52, 53, 100, 104>>
                         ELSE <<0, 16, 18, 26, 34, 42, 43, 44, 45, 47, 100, 104>>
HasFieldLens(c, v) == \A k \in 1..Len(c) : c[k].len = FieldLens(v)[k]

\* The ends are the sums of the lengths.
LEMMA FieldEndsAdd ==
  ASSUME NEW v
  PROVE  /\ FieldEnds(v)[1] = 0 /\ FieldEnds(v)[11] = 100 /\ FieldEnds(v)[12] = 104
         /\ \A k \in 1..11 : FieldEnds(v)[k + 1] = FieldEnds(v)[k] + FieldLens(v)[k]
<1> DEFINE E == FieldEnds(v)
           L == FieldLens(v)
<1>1. CASE v = 1
  <2>1. E = <<0, 16, 18, 26, 34, 42, 50, 51, 52, 53, 100, 104>>
    BY <1>1 DEF FieldEnds
  <2>2. L = <<16, 2, 8, 8, 8, 8, 1, 1, 1, 47, 4>>
    BY <1>1 DEF FieldLens
  <2> HIDE DEF E, L
  <2>3. ASSUME NEW k \in 1..11 PROVE E[k + 1] = E[k] + L[k]
    <3>1. k = 1 \/ k = 2 \/ k = 3 \/ k = 4 \/ k = 5 \/ k = 6 \/ k = 7 \/ k = 8 \/ k = 9
          \/ k = 10 \/ k = 11
      OBVIOUS
    <3> QED
      BY <2>1, <2>2, <3>1
  <2> QED
    BY <2>1, <2>3 DEF E, L
<1>2. CASE v # 1
  <2>1. E = <<0, 16, 18, 26, 34, 42, 43, 44, 45, 47, 100, 104>>
    BY <1>2 DEF FieldEnds
  <2>2. L = <<16, 2, 8, 8, 8, 1, 1, 1, 2, 53, 4>>
    BY <1>2 DEF FieldLens
  <2> HIDE DEF E, L
  <2>3. ASSUME NEW k \in 1..11 PROVE E[k + 1] = E[k] + L[k]
    <3>1. k = 1 \/ k = 2 \/ k = 3 \/ k = 4 \/ k = 5 \/ k = 6 \/ k = 7 \/ k = 8 \/ k = 9
          \/ k = 10 \/ k = 11
      OBVIOUS
    <3> QED
      BY <2>1, <2>2, <3>1
  <2> QED
    BY <2>1, <2>3 DEF E, L
<1> QED
  BY <1>1, <1>2

\* Chunks of these lengths are 100 bytes without the last, and 104 with it.
LEMMA FieldLengths ==
  ASSUME NEW c \in Seq(FileChunk), Len(c) \in 10..11, NEW v, HasFieldLens(c, v)
  PROVE  Lengths(c) = IF Len(c) = 10 THEN 100 ELSE 104
<1> DEFINE E == FieldEnds(v)
           L == FieldLens(v)
           n == Len(c)
           g == [k \in 0..n |-> E[k + 1]]
<1>1. /\ E[1] = 0 /\ E[11] = 100 /\ E[12] = 104
      /\ \A k \in 1..11 : E[k + 1] = E[k] + L[k]
  BY FieldEndsAdd
<1>2. n \in 10..11 /\ \A k \in 1..n : c[k].len = L[k]
  BY DEF HasFieldLens
<1>0. c \in Seq(ChunkOf(FileValue)) /\ n = Len(c)
  BY DEF FileChunk
<1> HIDE DEF E, L, n
<1>3. g[0] = 0
  BY <1>1, <1>2
<1>4. ASSUME NEW k \in 1..n PROVE g[k] = g[k - 1] + c[k].len
  <2>0. n \in Nat /\ n <= 11 /\ k \in Nat /\ 1 <= k /\ k <= n
    BY <1>2
  <2>1. k \in 1..11 /\ k \in 0..n /\ k - 1 \in 0..n /\ (k - 1) + 1 = k
    BY <2>0
  <2>2. g[k] = E[k + 1] /\ g[k - 1] = E[(k - 1) + 1]
    BY <2>1
  <2>3. g[k - 1] = E[k] /\ c[k].len = L[k] /\ E[k + 1] = E[k] + L[k]
    BY <1>1, <1>2, <2>1, <2>2
  <2> HIDE DEF g
  <2> QED
    BY <2>2, <2>3
<1>5. g[n] = IF n = 10 THEN 100 ELSE 104
  <2>1. CASE n = 10
    <3>1. g[n] = E[n + 1] /\ n + 1 = 11
      BY <2>1
    <3> QED
      BY <1>1, <2>1, <3>1
  <2>2. CASE n = 11
    <3>1. g[n] = E[n + 1] /\ n + 1 = 12
      BY <2>2
    <3> QED
      BY <1>1, <2>2, <3>1
  <2> QED
    BY <1>2, <2>1, <2>2
<1> HIDE DEF g
<1>6. Lengths(c) = g[n]
  <2>1. g[0] = 0 /\ \A k \in 1..Len(c) : g[k] = g[k - 1] + c[k].len
    BY <1>0, <1>3, <1>4
  <2> QED
    BY <1>0, <2>1, LengthsBy
<1> QED
  BY <1>5, <1>6 DEF n

\* EncodeFixedFields writes eleven chunks of these lengths.
LEMMA FixedFields ==
  ASSUME NEW m \in Metadata
  PROVE  LET F == EncodeFixedFields(m)
         IN  /\ F \in Seq(FileChunk) /\ Len(F) = 11 /\ Lengths(F) = 104
             /\ \A k \in 1..11 : F[k].len = FieldLens(EncodedVersion(m))[k]
<1> DEFINE F == EncodeFixedFields(m)
           v == EncodedVersion(m)
           L == FieldLens(v)
<1>1. ASSUME v = 1
      PROVE  F \in Seq(FileChunk) /\ Len(F) = 11 /\ \A k \in 1..11 : F[k].len = L[k]
  <2>1. /\ F \in Seq(FileChunk) /\ Len(F) = 11
        /\ F[1].len = 16 /\ F[2].len = 2 /\ F[3].len = 8 /\ F[4].len = 8 /\ F[5].len = 8
        /\ F[6].len = 8 /\ F[7].len = 1 /\ F[8].len = 1 /\ F[9].len = 1 /\ F[10].len = 47
        /\ F[11].len = 4
    BY <1>1, FixedFieldsV1
  <2>2. L = <<16, 2, 8, 8, 8, 8, 1, 1, 1, 47, 4>>
    BY <1>1 DEF FieldLens
  <2> HIDE DEF F, L
  <2>3. ASSUME NEW k \in 1..11 PROVE F[k].len = L[k]
    <3>1. k = 1 \/ k = 2 \/ k = 3 \/ k = 4 \/ k = 5 \/ k = 6 \/ k = 7 \/ k = 8 \/ k = 9
          \/ k = 10 \/ k = 11
      OBVIOUS
    <3> QED
      BY <2>1, <2>2, <3>1
  <2> QED
    BY <2>1, <2>3
<1>2. ASSUME v > 1
      PROVE  F \in Seq(FileChunk) /\ Len(F) = 11 /\ \A k \in 1..11 : F[k].len = L[k]
  <2>1. /\ F \in Seq(FileChunk) /\ Len(F) = 11
        /\ F[1].len = 16 /\ F[2].len = 2 /\ F[3].len = 8 /\ F[4].len = 8 /\ F[5].len = 8
        /\ F[6].len = 1 /\ F[7].len = 1 /\ F[8].len = 1 /\ F[9].len = 2 /\ F[10].len = 53
        /\ F[11].len = 4
    BY <1>2, FixedFieldsLater
  <2>2. L = <<16, 2, 8, 8, 8, 1, 1, 1, 2, 53, 4>>
    <3>1. v # 1
      BY <1>2
    <3> QED
      BY <3>1 DEF FieldLens
  <2> HIDE DEF F, L
  <2>3. ASSUME NEW k \in 1..11 PROVE F[k].len = L[k]
    <3>1. k = 1 \/ k = 2 \/ k = 3 \/ k = 4 \/ k = 5 \/ k = 6 \/ k = 7 \/ k = 8 \/ k = 9
          \/ k = 10 \/ k = 11
      OBVIOUS
    <3> QED
      BY <2>1, <2>2, <3>1
  <2> QED
    BY <2>1, <2>3
<1>3. F \in Seq(FileChunk) /\ Len(F) = 11 /\ \A k \in 1..11 : F[k].len = L[k]
  <2>1. v = 1 \/ v > 1
    BY MetadataFields
  <2> QED
    BY <1>1, <1>2, <2>1
<1> HIDE DEF F
<1>4. Lengths(F) = 104
  <2>1. Len(F) \in 10..11 /\ Len(F) # 10 /\ HasFieldLens(F, v)
    BY <1>3 DEF HasFieldLens
  <2>2. Lengths(F) = IF Len(F) = 10 THEN 100 ELSE 104
    BY <1>3, <2>1, FieldLengths
  <2> QED
    BY <2>1, <2>2
<1> QED
  BY <1>3, <1>4 DEF F

\* The length CalcLength gives, and its padding.
Needed(m) ==
  120 + (Len(m.symbols) + Len(m.partial) + Len(m.not_found)) * m.symbol_cstr_len
      + Total(MappingLengths(m.symbol_cstr_len, m.mappings))

\* CalcLength returns what is needed and the padding.
LEMMA CalcIs ==
  ASSUME NEW m \in Metadata
  PROVE  /\ Needed(m) \in Nat /\ CalcLength(m).end_padding \in Nat /\ CalcLength(m).length \in Nat
         /\ CalcLength(m).length = Needed(m) + CalcLength(m).end_padding
<1> DEFINE len == m.symbol_cstr_len
           k == Len(m.symbols) + Len(m.partial) + Len(m.not_found)
           t == Total(MappingLengths(len, m.mappings))
           needed == 100 + 5 * 4 + k * len + t
           padding == IF m.version < 3 \/ needed % 8 = 0 THEN 0 ELSE 8 - (needed % 8)
<1>1. k \in Nat /\ len \in Nat /\ t \in Nat
  <2>1. Len(m.symbols) \in Nat /\ Len(m.partial) \in Nat /\ Len(m.not_found) \in Nat
    BY MetadataFields, LenProperties
  <2>2. len \in Nat /\ t \in Nat
    <3>1. len \in Nat /\ m.mappings \in Seq(DatedMapping)
      BY MetadataFields
    <3> HIDE DEF len
    <3> QED
      BY <3>1, MappingsLength
  <2>3. k \in Nat
    <3> DEFINE u == Len(m.symbols)
               v == Len(m.partial)
               w == Len(m.not_found)
    <3>1. u \in Nat /\ v \in Nat /\ w \in Nat
      BY <2>1
    <3> HIDE DEF u, v, w
    <3>2. u + v + w \in Nat
      BY <3>1
    <3> QED
      BY <3>2 DEF u, v, w
  <2> HIDE DEF t, len, k
  <2> QED
    BY <2>2, <2>3
<1>2. CalcLength(m) = [length |-> needed + padding, end_padding |-> padding]
  BY DEF CalcLength, kFixedMetadataLen, MappingLengths
<1>3. Needed(m) = 120 + k * len + t
  BY DEF Needed
<1> HIDE DEF k, len, t
<1>4. k * len \in Nat
  BY <1>1, Times
<1>5. needed \in Nat /\ needed = Needed(m)
  BY <1>1, <1>3, <1>4
<1> HIDE DEF needed
<1>6. padding \in Nat
  <2>1. needed % 8 \in 0..7
    BY <1>5
  <2> QED
    BY <2>1
<1> HIDE DEF padding
<1> QED
  BY <1>2, <1>5, <1>6

\* Seven sequences, one behind the other.
SevenStandIn(V, c, p, f, a, b, d, e, z) ==
  /\ c \in Seq(ChunkOf(V)) /\ Stands(p, c, 1) /\ Stands(f, c, 1 + Len(p))
  /\ Len(c) = Len(p) + Len(f) + Len(a) + Len(b) + Len(d) + Len(e) + Len(z)
  /\ Stands(a, c, 1 + Len(p) + Len(f)) /\ Stands(b, c, 1 + Len(p) + Len(f) + Len(a))
  /\ Stands(d, c, 1 + Len(p) + Len(f) + Len(a) + Len(b))
  /\ Stands(e, c, 1 + Len(p) + Len(f) + Len(a) + Len(b) + Len(d))
  /\ Lengths(c) = Lengths(p) + Lengths(f) + Lengths(a) + Lengths(b) + Lengths(d)
                  + Lengths(e) + Lengths(z)

\* Each stands behind the one before it, and their lengths add up.
LEMMA SevenStand ==
  ASSUME NEW V, NEW p \in Seq(ChunkOf(V)), NEW f \in Seq(ChunkOf(V)), NEW a \in Seq(ChunkOf(V)),
         NEW b \in Seq(ChunkOf(V)), NEW d \in Seq(ChunkOf(V)), NEW e \in Seq(ChunkOf(V)),
         NEW z \in Seq(ChunkOf(V)), NEW c, c = p \o f \o a \o b \o d \o e \o z
  PROVE  SevenStandIn(V, c, p, f, a, b, d, e, z)
<1> DEFINE B == ChunkOf(V)
           s1 == p \o f
           s2 == s1 \o a
           s3 == s2 \o b
           s4 == s3 \o d
           s5 == s4 \o e
           s6 == s5 \o z
           Joins(s, x, y) == /\ s \in Seq(B) /\ Len(s) = Len(x) + Len(y)
                             /\ Lengths(s) = Lengths(x) + Lengths(y)
<1>0. /\ Len(p) \in Nat /\ Len(f) \in Nat /\ Len(a) \in Nat /\ Len(b) \in Nat /\ Len(d) \in Nat
      /\ Len(e) \in Nat /\ Len(z) \in Nat
  BY LenProperties
<1>1. ASSUME NEW x \in Seq(B), NEW y \in Seq(B) PROVE Joins(x \o y, x, y)
  BY ConcatParts, LengthsCat
<1>2. Joins(s1, p, f)
  BY <1>1
<1>3. s1 \in Seq(B)
  BY <1>2
<1> HIDE DEF s1
<1>4. Joins(s2, s1, a)
  BY <1>1, <1>3
<1>5. s2 \in Seq(B)
  BY <1>4
<1> HIDE DEF s2
<1>6. Joins(s3, s2, b)
  BY <1>1, <1>5
<1>7. s3 \in Seq(B)
  BY <1>6
<1> HIDE DEF s3
<1>8. Joins(s4, s3, d)
  BY <1>1, <1>7
<1>9. s4 \in Seq(B)
  BY <1>8
<1> HIDE DEF s4
<1>10. Joins(s5, s4, e)
  BY <1>1, <1>9
<1>11. s5 \in Seq(B)
  BY <1>10
<1> HIDE DEF s5
<1>12. Joins(s6, s5, z)
  BY <1>1, <1>11
<1>13. c = s6
  BY DEF s1, s2, s3, s4, s5
<1>14. Stands(c, c, 1)
  <2>1. c \in Seq(B)
    BY <1>12, <1>13
  <2>2. Len(c) \in Nat
    BY <2>1, LenProperties
  <2> QED
    BY <2>2 DEF Stands
<1>15. ASSUME NEW x \in Seq(B), NEW y \in Seq(B), Stands(x \o y, c, 1)
       PROVE  Stands(x, c, 1) /\ Stands(y, c, 1 + Len(x))
  BY <1>15, StandsCat
<1>16. Stands(s5, c, 1)
  BY <1>11, <1>13, <1>14, <1>15
<1> HIDE DEF s6
<1>17. Stands(s4, c, 1) /\ Stands(e, c, 1 + Len(s4))
  BY <1>9, <1>15, <1>16 DEF s5
<1>18. Stands(s3, c, 1) /\ Stands(d, c, 1 + Len(s3))
  BY <1>7, <1>15, <1>17 DEF s4
<1>19. Stands(s2, c, 1) /\ Stands(b, c, 1 + Len(s2))
  BY <1>5, <1>15, <1>18 DEF s3
<1>20. Stands(s1, c, 1) /\ Stands(a, c, 1 + Len(s1))
  BY <1>3, <1>15, <1>19 DEF s2
<1>21. Stands(p, c, 1) /\ Stands(f, c, 1 + Len(p))
  BY <1>15, <1>20 DEF s1
<1>22. /\ Len(s1) = Len(p) + Len(f) /\ Len(s2) = Len(p) + Len(f) + Len(a)
       /\ Len(s3) = Len(p) + Len(f) + Len(a) + Len(b)
       /\ Len(s4) = Len(p) + Len(f) + Len(a) + Len(b) + Len(d)
       /\ Len(c) = Len(p) + Len(f) + Len(a) + Len(b) + Len(d) + Len(e) + Len(z)
  BY <1>2, <1>4, <1>6, <1>8, <1>10, <1>12, <1>13
<1>23. Lengths(c) = Lengths(p) + Lengths(f) + Lengths(a) + Lengths(b) + Lengths(d)
                    + Lengths(e) + Lengths(z)
  BY <1>2, <1>4, <1>6, <1>8, <1>10, <1>12, <1>13
<1>24. c \in Seq(B)
  BY <1>12, <1>13
<1> DEFINE l1 == Len(p)
           l2 == Len(f)
           l3 == Len(a)
           l4 == Len(b)
           l5 == Len(d)
<1>25. l1 \in Nat /\ l2 \in Nat /\ l3 \in Nat /\ l4 \in Nat /\ l5 \in Nat
  BY <1>0
<1> HIDE DEF l1, l2, l3, l4, l5
<1>26. /\ 1 + (l1 + l2) = 1 + l1 + l2 /\ 1 + (l1 + l2 + l3) = 1 + l1 + l2 + l3
       /\ 1 + (l1 + l2 + l3 + l4) = 1 + l1 + l2 + l3 + l4
       /\ 1 + (l1 + l2 + l3 + l4 + l5) = 1 + l1 + l2 + l3 + l4 + l5
  BY <1>25
<1>27. /\ 1 + Len(s1) = 1 + Len(p) + Len(f) /\ 1 + Len(s2) = 1 + Len(p) + Len(f) + Len(a)
       /\ 1 + Len(s3) = 1 + Len(p) + Len(f) + Len(a) + Len(b)
       /\ 1 + Len(s4) = 1 + Len(p) + Len(f) + Len(a) + Len(b) + Len(d)
  BY <1>22, <1>26 DEF l1, l2, l3, l4, l5
<1> QED
  BY <1>17, <1>18, <1>19, <1>20, <1>21, <1>22, <1>23, <1>24, <1>27 DEF SevenStandIn

Prelude(m) ==
  <<Chunk("DBN", 3), Chunk(EncodedVersion(m), 1), Chunk(CalcLength(m).length, 4)>>
Padding(m) ==
  IF CalcLength(m).end_padding > 0 THEN <<Chunk(Zeros, CalcLength(m).end_padding)>> ELSE << >>

\* The prelude is three chunks.
LEMMA PreludeParts ==
  ASSUME NEW m \in Metadata
  PROVE  LET p == Prelude(m)
         IN  /\ p \in Seq(FileChunk) /\ Len(p) = 3
             /\ p[2].val = EncodedVersion(m) /\ p[2].len = 1 /\ p[3].val = CalcLength(m).length
<1> DEFINE x == Chunk("DBN", 3)
           y == Chunk(EncodedVersion(m), 1)
           z == Chunk(CalcLength(m).length, 4)
<1>1. "DBN" \in FileValue
  BY Zenon DEF FileValue
<1>2. EncodedVersion(m) \in FileValue
  <2>1. EncodedVersion(m) \in Nat
    BY MetadataFields
  <2> QED
    BY <2>1 DEF FileValue
<1>3. CalcLength(m).length \in FileValue
  <2>1. CalcLength(m).length \in Nat
    BY CalcIs
  <2> QED
    BY <2>1 DEF FileValue
<1>4. x \in FileChunk /\ y \in FileChunk /\ z \in FileChunk
  BY <1>1, <1>2, <1>3, ChunkType
<1>5. y.val = EncodedVersion(m) /\ y.len = 1 /\ z.val = CalcLength(m).length
  BY DEF Chunk
<1>6. Prelude(m) = <<x, y, z>>
  BY DEF Prelude
<1> HIDE DEF x, y, z
<1> DEFINE t == <<x, y, z>>
<1>7. t \in Seq(FileChunk) /\ Len(t) = 3 /\ t[2] = y /\ t[3] = z
  BY <1>4
<1> HIDE DEF t
<1> QED
  BY <1>5, <1>6, <1>7 DEF t

\* The padding has the length CalcLength gave it.
LEMMA PaddingParts ==
  ASSUME NEW m \in Metadata
  PROVE  Padding(m) \in Seq(FileChunk) /\ Lengths(Padding(m)) = CalcLength(m).end_padding
<1> DEFINE n == CalcLength(m).end_padding
           z == Chunk(Zeros, n)
<1>1. n \in Nat
  BY CalcIs
<1>2. CASE n > 0
  <2>1. Padding(m) = <<z>>
    BY <1>2 DEF Padding
  <2>2. Zeros \in FileValue
    BY Zenon DEF FileValue
  <2>3. z \in FileChunk /\ z.len = n
    BY <1>1, <2>2, ChunkType
  <2> HIDE DEF z
  <2>4. <<z>> \in Seq(FileChunk)
    BY <2>3
  <2>5. Lengths(<<z>>) = z.len
    <3>1. z \in ChunkOf(FileValue)
      BY <2>3 DEF FileChunk
    <3> QED
      BY <3>1, LengthsOne
  <2> QED
    BY <2>1, <2>3, <2>4, <2>5
<1>3. CASE ~(n > 0)
  <2>1. Padding(m) = << >> /\ n = 0
    BY <1>1, <1>3 DEF Padding
  <2>2. << >> \in Seq(FileChunk)
    BY EmptySeq
  <2> QED
    BY <2>1, <2>2, LengthsNone
<1> QED
  BY <1>2, <1>3

\* Where the parts of the encoded metadata stand.
StandsAt(c, m) ==
  LET len == m.symbol_cstr_len
      n1 == Len(m.symbols)
      n2 == Len(m.partial)
      n3 == Len(m.not_found)
  IN  /\ Stands(Prelude(m), c, 1) /\ Stands(EncodeFixedFields(m), c, 4)
      /\ Stands(EncodeRepeatedSymbolCStr(len, m.symbols), c, 15)
      /\ Stands(EncodeRepeatedSymbolCStr(len, m.partial), c, 16 + n1)
      /\ Stands(EncodeRepeatedSymbolCStr(len, m.not_found), c, 17 + n1 + n2)
      /\ Stands(EncodeSymbolMappings(len, m.mappings), c, 18 + n1 + n2 + n3)

\* EncodeMetadata puts the parts there, and CalcLength is the length behind the prelude.
LEMMA MetadataStands ==
  ASSUME NEW m \in Metadata, NEW c, c = EncodeMetadata(m)
  PROVE  /\ c \in Seq(FileChunk) /\ Len(c) \in Nat /\ Len(c) >= 14 /\ StandsAt(c, m)
         /\ Lengths(c) = Lengths(Prelude(m)) + CalcLength(m).length
<1> DEFINE len == m.symbol_cstr_len
           n1 == Len(m.symbols)
           n2 == Len(m.partial)
           n3 == Len(m.not_found)
           p == Prelude(m)
           f == EncodeFixedFields(m)
           a == EncodeRepeatedSymbolCStr(len, m.symbols)
           b == EncodeRepeatedSymbolCStr(len, m.partial)
           d == EncodeRepeatedSymbolCStr(len, m.not_found)
           e == EncodeSymbolMappings(len, m.mappings)
           z == Padding(m)
           t == Total(MappingLengths(len, m.mappings))
<1>1. c = p \o f \o a \o b \o d \o e \o z
  BY DEF EncodeMetadata, Prelude, Padding
<1>2. /\ len \in Nat /\ m.symbols \in Seq(FixedString) /\ m.partial \in Seq(FixedString)
      /\ m.not_found \in Seq(FixedString) /\ m.mappings \in Seq(DatedMapping)
  BY MetadataFields
<1>3. n1 \in Nat /\ n2 \in Nat /\ n3 \in Nat
  BY <1>2, LenProperties
<1>4. Needed(m) = 120 + (n1 + n2 + n3) * len + t
  BY DEF Needed
<1> HIDE DEF len
<1>5. p \in Seq(FileChunk) /\ Len(p) = 3
  BY PreludeParts
<1>6. f \in Seq(FileChunk) /\ Len(f) = 11 /\ Lengths(f) = 104
  BY FixedFields
<1>7. a \in Seq(FileChunk) /\ Len(a) = 1 + n1 /\ Lengths(a) = 4 + n1 * len
  BY <1>2, RepeatedParts
<1>8. b \in Seq(FileChunk) /\ Len(b) = 1 + n2 /\ Lengths(b) = 4 + n2 * len
  BY <1>2, RepeatedParts
<1>9. d \in Seq(FileChunk) /\ Len(d) = 1 + n3 /\ Lengths(d) = 4 + n3 * len
  BY <1>2, RepeatedParts
<1>10. e \in Seq(FileChunk)
  BY <1>2, MappingsParts
<1>11. t \in Nat /\ Lengths(e) = 4 + t
  BY <1>2, MappingsLength
<1>12. z \in Seq(FileChunk) /\ Lengths(z) = CalcLength(m).end_padding
  BY PaddingParts
<1>13. /\ Needed(m) \in Nat /\ CalcLength(m).end_padding \in Nat
       /\ CalcLength(m).length = Needed(m) + CalcLength(m).end_padding
  BY CalcIs
<1> HIDE DEF p, f, a, b, d, e, z, t, n1, n2, n3
<1>14. Len(e) \in Nat /\ Len(z) \in Nat
  BY <1>10, <1>12, LenProperties
<1> DEFINE B == ChunkOf(FileValue)
<1>15. /\ p \in Seq(B) /\ f \in Seq(B) /\ a \in Seq(B) /\ b \in Seq(B) /\ d \in Seq(B)
       /\ e \in Seq(B) /\ z \in Seq(B)
  BY <1>5, <1>6, <1>7, <1>8, <1>9, <1>10, <1>12 DEF FileChunk
<1>16. /\ c \in Seq(B) /\ Stands(p, c, 1) /\ Stands(f, c, 1 + Len(p))
       /\ Len(c) = Len(p) + Len(f) + Len(a) + Len(b) + Len(d) + Len(e) + Len(z)
       /\ Stands(a, c, 1 + Len(p) + Len(f)) /\ Stands(b, c, 1 + Len(p) + Len(f) + Len(a))
       /\ Stands(d, c, 1 + Len(p) + Len(f) + Len(a) + Len(b))
       /\ Stands(e, c, 1 + Len(p) + Len(f) + Len(a) + Len(b) + Len(d))
       /\ Lengths(c) = Lengths(p) + Lengths(f) + Lengths(a) + Lengths(b) + Lengths(d)
                       + Lengths(e) + Lengths(z)
  <2>1. SevenStandIn(FileValue, c, p, f, a, b, d, e, z)
    BY <1>1, <1>15, SevenStand
  <2> QED
    BY <2>1 DEF SevenStandIn
<1>17. /\ 1 + Len(p) = 4 /\ 1 + Len(p) + Len(f) = 15 /\ 1 + Len(p) + Len(f) + Len(a) = 16 + n1
       /\ 1 + Len(p) + Len(f) + Len(a) + Len(b) = 17 + n1 + n2
       /\ 1 + Len(p) + Len(f) + Len(a) + Len(b) + Len(d) = 18 + n1 + n2 + n3
  BY <1>3, <1>5, <1>6, <1>7, <1>8, <1>9
<1>18. StandsAt(c, m)
  BY <1>16, <1>17 DEF StandsAt, p, f, a, b, d, e, n1, n2, n3, len
<1>19. Len(c) \in Nat /\ Len(c) >= 14
  BY <1>3, <1>5, <1>6, <1>7, <1>8, <1>9, <1>14, <1>16
<1>20. Lengths(c) = Lengths(p) + CalcLength(m).length
  <2> DEFINE u == n1 * len
             v == n2 * len
             w == n3 * len
             y == CalcLength(m).end_padding
             l == CalcLength(m).length
  <2>1. u \in Nat /\ v \in Nat /\ w \in Nat /\ (n1 + n2 + n3) * len = u + v + w
    BY <1>2, <1>3
  <2>2. Lengths(p) \in Nat
    BY <1>15, LengthsCat
  <2> HIDE DEF u, v, w, y, l
  <2>3. Lengths(f) = 104 /\ Lengths(a) = 4 + u /\ Lengths(b) = 4 + v /\ Lengths(d) = 4 + w
    BY <1>6, <1>7, <1>8, <1>9 DEF u, v, w
  <2>4. Lengths(e) = 4 + t /\ Lengths(z) = y /\ y \in Nat /\ l = Needed(m) + y /\ t \in Nat
    BY <1>11, <1>12, <1>13 DEF y, l
  <2>5. Needed(m) = 120 + (u + v + w) + t
    BY <1>4, <2>1
  <2>6. Lengths(c) = Lengths(p) + l
    <3>1. Lengths(c) = Lengths(p) + 104 + (4 + u) + (4 + v) + (4 + w) + (4 + t) + y
      BY <1>16, <2>3, <2>4
    <3> QED
      BY <2>1, <2>2, <2>4, <2>5, <3>1
  <2> QED
    BY <2>6 DEF l
<1>21. c \in Seq(FileChunk)
  BY <1>16 DEF FileChunk
<1> QED
  BY <1>18, <1>19, <1>20, <1>21 DEF p

\* The prelude and the fixed fields are where the decoder looks for them.
LEMMA FieldsAt ==
  ASSUME NEW m \in Metadata, NEW c, c = EncodeMetadata(m)
  PROVE  LET F == EncodeFixedFields(m)
         IN  /\ c[2].val = EncodedVersion(m) /\ ConsumeAs(c, 2, 1) = EncodedVersion(m)
             /\ c[3].val = CalcLength(m).length
             /\ \A k \in 1..11 : c[3 + k] = F[k] /\ ConsumeAs(c, 3 + k, F[k].len) = F[k].val
<1> DEFINE F == EncodeFixedFields(m)
           p == Prelude(m)
<1>1. Len(c) \in Nat /\ Stands(p, c, 1) /\ Stands(F, c, 4)
  <2>1. Len(c) \in Nat /\ StandsAt(c, m)
    BY MetadataStands
  <2> QED
    BY <2>1 DEF StandsAt
<1>2. /\ Len(p) = 3 /\ p[2].val = EncodedVersion(m) /\ p[2].len = 1
      /\ p[3].val = CalcLength(m).length
  BY PreludeParts
<1>3. Len(F) = 11
  BY FixedFields
<1> HIDE DEF F, p
<1>4. c[2] = p[2] /\ c[3] = p[3]
  <2>1. \A k \in 1..3 : c[1 + k - 1] = p[k]
    BY <1>1, <1>2 DEF Stands
  <2>2. 1 + 2 - 1 = 2 /\ 1 + 3 - 1 = 3 /\ 2 \in 1..3 /\ 3 \in 1..3
    OBVIOUS
  <2> QED
    BY <2>1, <2>2
<1>5. ConsumeAs(c, 2, 1) = p[2].val
  <2>1. 2 \in 1..Len(p) /\ Len(p) \in Nat /\ 1 \in Nat
    BY <1>2
  <2>2. ConsumeAs(c, 1 + 2 - 1, p[2].len) = p[2].val
    BY <1>1, <2>1, ReadsStanding
  <2>3. 1 + 2 - 1 = 2
    OBVIOUS
  <2> QED
    BY <1>2, <2>2, <2>3
<1>6. ASSUME NEW k \in 1..11
      PROVE  c[3 + k] = F[k] /\ ConsumeAs(c, 3 + k, F[k].len) = F[k].val
  <2>1. k \in 1..Len(F) /\ Len(F) \in Nat /\ 4 \in Nat /\ 4 + k - 1 = 3 + k
    BY <1>3
  <2>2. c[4 + k - 1] = F[k]
    BY <1>1, <2>1 DEF Stands
  <2>3. ConsumeAs(c, 4 + k - 1, F[k].len) = F[k].val
    BY <1>1, <2>1, ReadsStanding
  <2> QED
    BY <2>1, <2>2, <2>3
<1> QED
  BY <1>2, <1>4, <1>5, <1>6 DEF F

\* The last elements of a sequence stand in it.
LEMMA TailStands ==
  ASSUME NEW B, NEW c \in Seq(B), NEW n \in 0..Len(c)
  PROVE  LET s == SubSeq(c, n + 1, Len(c))
         IN  s \in Seq(B) /\ Len(s) = Len(c) - n /\ Stands(s, c, n + 1)
<1> DEFINE s == SubSeq(c, n + 1, Len(c))
<1>1. /\ s \in Seq(B) /\ Len(s) = Len(c) - n
      /\ \A i \in 1..(Len(c) - n) : s[i] = c[n + i]
  BY TakeDrop
<1>2. Len(c) \in Nat /\ n \in Nat /\ n <= Len(c)
  BY LenProperties
<1> HIDE DEF s
<1>3. ASSUME NEW k \in 1..Len(s)
      PROVE  (n + 1) + k - 1 \in 1..Len(c) /\ c[(n + 1) + k - 1] = s[k]
  <2>1. k \in 1..(Len(c) - n) /\ (n + 1) + k - 1 = n + k /\ n + k \in 1..Len(c)
    BY <1>1, <1>2
  <2> QED
    BY <1>1, <2>1
<1> QED
  BY <1>1, <1>3 DEF Stands, s

\* FixedFieldsFit holds of what EncodeMetadata wrote.
LEMMA FieldsFit ==
  ASSUME NEW m \in Metadata, NEW c, c = EncodeMetadata(m)
  PROVE  FixedFieldsFit(c)
<1> DEFINE F == EncodeFixedFields(m)
           v == EncodedVersion(m)
           s == SubSeq(c, 4, 13)
           r == SubSeq(c, 4, Len(c))
<1>1. /\ c[2].val = v /\ c[3].val = CalcLength(m).length
      /\ \A k \in 1..11 : c[3 + k] = F[k] /\ ConsumeAs(c, 3 + k, F[k].len) = F[k].val
  BY FieldsAt
<1>2. /\ F[10].val = Zeros /\ F[10].len = (IF v = 1 THEN 47 ELSE 53)
      /\ F[11].val = 0 /\ F[11].len = 4
  <2>1. CASE v = 1
    BY <2>1, FixedFieldsV1
  <2>2. CASE v # 1
    <3>1. v > 1
      BY <2>2, MetadataFields
    <3> QED
      BY <2>2, <3>1, FixedFieldsLater
  <2> QED
    BY <2>1, <2>2
<1>3. \A k \in 1..11 : F[k].len = FieldLens(v)[k]
  BY FixedFields
<1>4. /\ c \in Seq(FileChunk) /\ Len(c) \in Nat /\ Len(c) >= 14
      /\ Lengths(c) = Lengths(Prelude(m)) + CalcLength(m).length /\ Stands(Prelude(m), c, 1)
  BY MetadataStands DEF StandsAt
<1> HIDE DEF F
<1>5. /\ ConsumeAs(c, 13, IF c[2].val = 1 THEN 47 ELSE 53) = Zeros
      /\ ConsumeAs(c, 14, 4) = 0
  <2>1. 3 + 10 = 13 /\ 3 + 11 = 14 /\ 10 \in 1..11 /\ 11 \in 1..11
    OBVIOUS
  <2>2. ConsumeAs(c, 3 + 10, F[10].len) = F[10].val /\ ConsumeAs(c, 3 + 11, F[11].len) = F[11].val
    BY <1>1, <2>1
  <2> QED
    BY <1>1, <1>2, <2>1, <2>2
<1>6. Lengths(s) = 100
  <2>1. s \in Seq(FileChunk) /\ Len(s) = 10 /\ \A k \in 1..10 : s[k] = c[3 + k]
    <3>1. s \in Seq(FileChunk) /\ Len(s) = 10
      BY <1>4
    <3>2. ASSUME NEW k \in 1..10 PROVE s[k] = c[3 + k]
      BY <1>4
    <3> QED
      BY <3>1, <3>2
  <2> HIDE DEF s
  <2>2. ASSUME NEW k \in 1..Len(s) PROVE s[k].len = FieldLens(v)[k]
    <3>1. k \in 1..10 /\ k \in 1..11
      BY <2>1
    <3>2. s[k] = F[k] /\ F[k].len = FieldLens(v)[k]
      BY <1>1, <1>3, <2>1, <3>1
    <3> QED
      BY <3>2
  <2>3. HasFieldLens(s, v) /\ Len(s) \in 10..11
    BY <2>1, <2>2 DEF HasFieldLens
  <2>4. Lengths(s) = IF Len(s) = 10 THEN 100 ELSE 104
    BY <2>1, <2>3, FieldLengths
  <2> QED
    BY <2>1, <2>4
<1>7. Lengths(r) = CalcLength(m).length
  <2> DEFINE B == ChunkOf(FileValue)
             p == Prelude(m)
  <2>1. c \in Seq(B) /\ p \in Seq(B) /\ Len(p) = 3
    BY <1>4, PreludeParts DEF FileChunk
  <2>2. PICK g : SumsOf(g, c) /\ g[0] = 0 /\ Lengths(c) = g[Len(c)]
    BY <2>1, SumsExist
  <2>3. r \in Seq(B) /\ Len(r) = Len(c) - 3 /\ Stands(r, c, 4)
    <3>1. 3 \in 0..Len(c) /\ 3 + 1 = 4
      BY <1>4
    <3> DEFINE q == SubSeq(c, 3 + 1, Len(c))
    <3>2. q \in Seq(B) /\ Len(q) = Len(c) - 3 /\ Stands(q, c, 3 + 1)
      BY <2>1, <3>1, TailStands
    <3> QED
      BY <3>1, <3>2
  <2> HIDE DEF r, p
  <2> DEFINE Between(part, i) == /\ Lengths(part) \in Nat
                                 /\ g[i + Len(part) - 1] = g[i - 1] + Lengths(part)
  <2>4. ASSUME NEW part \in Seq(B), NEW i \in Nat \ {0}, i <= Len(c) + 1, Stands(part, c, i)
        PROVE  Between(part, i)
    BY <2>1, <2>2, <2>4, StandsLengths
  <2>5. Between(p, 1) /\ Between(r, 4)
    <3>1. 1 \in Nat \ {0} /\ 4 \in Nat \ {0} /\ 1 <= Len(c) + 1 /\ 4 <= Len(c) + 1
      BY <1>4
    <3> QED
      BY <1>4, <2>1, <2>3, <2>4, <3>1 DEF p
  <2>6. 1 + Len(p) - 1 = 3 /\ 1 - 1 = 0 /\ 4 + Len(r) - 1 = Len(c) /\ 4 - 1 = 3
    BY <1>4, <2>1, <2>3
  <2>7. g[3] = g[0] + Lengths(p) /\ g[Len(c)] = g[3] + Lengths(r)
    BY <2>5, <2>6
  <2>8. Lengths(p) \in Nat /\ Lengths(r) \in Nat /\ CalcLength(m).length \in Nat
    BY <2>5, CalcIs
  <2>9. Lengths(c) = Lengths(p) + CalcLength(m).length
    BY <1>4 DEF p
  <2> QED
    BY <2>2, <2>7, <2>8, <2>9
<1> QED
  BY <1>1, <1>5, <1>6, <1>7
     DEF FixedFieldsFit, kMetadataReservedLen, kMetadataReservedLenV1, kFixedMetadataLen

\* Metadata without symbols has none in its lists and its mappings.
LEMMA NoElements ==
  ASSUME NEW B, NEW s \in Seq(B), ToSet(s) = {}
  PROVE  s = << >>
<1>1. DOMAIN s = {}
  BY DEF ToSet
<1>2. Len(s) \in Nat /\ DOMAIN s = 1..Len(s)
  BY LenProperties
<1>3. Len(s) = 0
  BY <1>1, <1>2
<1> QED
  BY <1>3, EmptySeq

\* Without symbols the lists and the mappings are empty.
LEMMA NoSymbols ==
  ASSUME NEW m \in Metadata, Symbols(m) = {}
  PROVE  m.symbols = << >> /\ m.partial = << >> /\ m.not_found = << >> /\ m.mappings = << >>
<1>1. /\ m.symbols \in Seq(FixedString) /\ m.partial \in Seq(FixedString)
      /\ m.not_found \in Seq(FixedString) /\ m.mappings \in Seq(DatedMapping)
  BY MetadataFields
<1>2. /\ ToSet(m.symbols) = {} /\ ToSet(m.partial) = {} /\ ToSet(m.not_found) = {}
      /\ UNION {{x.raw_symbol} \cup {i.symbol : i \in ToSet(x.intervals)} : x \in ToSet(m.mappings)}
         = {}
  BY DEF Symbols
<1>3. ToSet(m.mappings) = {}
  <2> SUFFICES ASSUME NEW x \in ToSet(m.mappings) PROVE FALSE
    OBVIOUS
  <2> DEFINE y == {x.raw_symbol} \cup {i.symbol : i \in ToSet(x.intervals)}
  <2>1. x.raw_symbol \in y
    OBVIOUS
  <2>2. y \in {{z.raw_symbol} \cup {i.symbol : i \in ToSet(z.intervals)} : z \in ToSet(m.mappings)}
    OBVIOUS
  <2> QED
    BY <1>2, <2>1, <2>2
<1> QED
  BY <1>1, <1>2, <1>3, NoElements

\* The lists and the mappings read back, when the decoder takes the symbols for what they
\* are or there are none.
LEMMA ListsRead ==
  ASSUME NEW m \in Metadata, NEW c, c = EncodeMetadata(m),
         NEW l, l = m.symbol_cstr_len \/ Symbols(m) = {}
  PROVE  LET n1 == Len(m.symbols)
             n2 == Len(m.partial)
             n3 == Len(m.not_found)
         IN  /\ DecodeRepeatedSymbol(l, c, 15) = [val |-> m.symbols, next |-> 16 + n1]
             /\ DecodeRepeatedSymbol(l, c, 16 + n1) = [val |-> m.partial, next |-> 17 + n1 + n2]
             /\ DecodeRepeatedSymbol(l, c, 17 + n1 + n2)
                  = [val |-> m.not_found, next |-> 18 + n1 + n2 + n3]
             /\ DecodeSymbolMappings(l, c, 18 + n1 + n2 + n3).val = m.mappings
<1> DEFINE len == m.symbol_cstr_len
           n1 == Len(m.symbols)
           n2 == Len(m.partial)
           n3 == Len(m.not_found)
<1>1. /\ len \in Nat /\ m.symbols \in Seq(FixedString) /\ m.partial \in Seq(FixedString)
      /\ m.not_found \in Seq(FixedString) /\ m.mappings \in Seq(DatedMapping)
  BY MetadataFields
<1>2. n1 \in Nat /\ n2 \in Nat /\ n3 \in Nat
  BY <1>1, LenProperties
<1>3. /\ l = len \/ m.symbols = << >>
      /\ l = len \/ m.partial = << >>
      /\ l = len \/ m.not_found = << >>
      /\ l = len \/ m.mappings = << >>
  BY NoSymbols
<1>4. /\ Len(c) \in Nat
      /\ Stands(EncodeRepeatedSymbolCStr(len, m.symbols), c, 15)
      /\ Stands(EncodeRepeatedSymbolCStr(len, m.partial), c, 16 + n1)
      /\ Stands(EncodeRepeatedSymbolCStr(len, m.not_found), c, 17 + n1 + n2)
      /\ Stands(EncodeSymbolMappings(len, m.mappings), c, 18 + n1 + n2 + n3)
  <2>1. Len(c) \in Nat /\ StandsAt(c, m)
    BY MetadataStands
  <2> QED
    BY <2>1 DEF StandsAt
<1> HIDE DEF len
<1>5. DecodeRepeatedSymbol(l, c, 15) = [val |-> m.symbols, next |-> 15 + 1 + n1]
  BY <1>1, <1>3, <1>4, RepeatedReads
<1> DEFINE j2 == 16 + n1
           j3 == 17 + n1 + n2
           j4 == 18 + n1 + n2 + n3
<1>6. j2 \in Nat /\ j3 \in Nat /\ j4 \in Nat
  <2> HIDE DEF n1, n2, n3
  <2> QED
    BY <1>2
<1>7. DecodeRepeatedSymbol(l, c, j2) = [val |-> m.partial, next |-> j2 + 1 + n2]
  <2>1. Stands(EncodeRepeatedSymbolCStr(len, m.partial), c, j2)
    BY <1>4
  <2>2. /\ len \in Nat /\ m.partial \in Seq(FixedString) /\ Len(c) \in Nat /\ j2 \in Nat
        /\ l = len \/ m.partial = << >>
    BY <1>1, <1>3, <1>4, <1>6
  <2> HIDE DEF j2, j3, j4
  <2> DEFINE s == m.partial
  <2>3. /\ s \in Seq(FixedString) /\ (l = len \/ s = << >>)
        /\ Stands(EncodeRepeatedSymbolCStr(len, s), c, j2)
    BY <2>1, <2>2
  <2> HIDE DEF s
  <2>4. DecodeRepeatedSymbol(l, c, j2) = [val |-> s, next |-> j2 + 1 + Len(s)]
    BY <2>2, <2>3, RepeatedReads
  <2> QED
    BY <2>4, Zenon DEF s
<1>8. DecodeRepeatedSymbol(l, c, j3) = [val |-> m.not_found, next |-> j3 + 1 + n3]
  <2>1. Stands(EncodeRepeatedSymbolCStr(len, m.not_found), c, j3)
    BY <1>4
  <2>2. /\ len \in Nat /\ m.not_found \in Seq(FixedString) /\ Len(c) \in Nat /\ j3 \in Nat
        /\ l = len \/ m.not_found = << >>
    BY <1>1, <1>3, <1>4, <1>6
  <2> HIDE DEF j2, j3, j4
  <2> DEFINE s == m.not_found
  <2>3. /\ s \in Seq(FixedString) /\ (l = len \/ s = << >>)
        /\ Stands(EncodeRepeatedSymbolCStr(len, s), c, j3)
    BY <2>1, <2>2
  <2> HIDE DEF s
  <2>4. DecodeRepeatedSymbol(l, c, j3) = [val |-> s, next |-> j3 + 1 + Len(s)]
    BY <2>2, <2>3, RepeatedReads
  <2> QED
    BY <2>4, Zenon DEF s
<1>9. DecodeSymbolMappings(l, c, j4).val = m.mappings
  <2>1. Stands(EncodeSymbolMappings(len, m.mappings), c, j4)
    BY <1>4
  <2> HIDE DEF j4
  <2> QED
    BY <1>1, <1>3, <1>4, <1>6, <2>1, MappingsReads
<1>10. 15 + 1 + n1 = 16 + n1 /\ j2 + 1 + n2 = j3 /\ j3 + 1 + n3 = j4
  <2> HIDE DEF n1, n2, n3
  <2> QED
    BY <1>2
<1> QED
  BY <1>5, <1>7, <1>8, <1>9, <1>10, Zenon

\* The length the decoder takes the symbols for.
LengthRead(m) == IF EncodedVersion(m) = 1 THEN kSymbolCstrLenV1 ELSE m.symbol_cstr_len

\* The fixed fields read back.
LEMMA FieldsRead ==
  ASSUME NEW m \in Metadata, NEW c, c = EncodeMetadata(m)
  PROVE  LET v == EncodedVersion(m)
             At(k) == 8 + (IF v = 1 THEN 1 ELSE 0) + k
         IN  /\ ConsumeAs(c, 4, kDatasetCstrLen) = m.dataset
             /\ DecodeEnum(ConsumeAs(c, 5, 2), SchemaValue, kNullSchema) = m.schema
             /\ ConsumeAs(c, 6, 8) = m.start /\ ConsumeAs(c, 7, 8) = m.end
             /\ ConsumeAs(c, 8, 8) = m.limit
             /\ DecodeEnum(ConsumeAs(c, At(1), 1), STypeValue, kNullSType) = m.stype_in
             /\ DecodeEnum(ConsumeAs(c, At(2), 1), STypeValue, Garbled) = m.stype_out
             /\ ConsumeAs(c, At(3), 1) = m.ts_out
             /\ v > 1 => ConsumeAs(c, At(4), 2) = m.symbol_cstr_len
<1> DEFINE F == EncodeFixedFields(m)
           v == EncodedVersion(m)
           At(k) == 8 + (IF v = 1 THEN 1 ELSE 0) + k
           e1 == EncodeOptional(m.schema, SchemaValue, kNullSchema)
           e2 == EncodeOptional(m.stype_in, STypeValue, kNullSType)
           e3 == STypeValue[m.stype_out]
<1>1. \A k \in 1..11 : ConsumeAs(c, 3 + k, F[k].len) = F[k].val
  BY FieldsAt
<1>2. /\ 3 + 1 = 4 /\ 3 + 2 = 5 /\ 3 + 3 = 6 /\ 3 + 4 = 7 /\ 3 + 5 = 8 /\ 3 + 6 = 9
      /\ 3 + 7 = 10 /\ 3 + 8 = 11 /\ 3 + 9 = 12
      /\ 1 \in 1..11 /\ 2 \in 1..11 /\ 3 \in 1..11 /\ 4 \in 1..11 /\ 5 \in 1..11
      /\ 6 \in 1..11 /\ 7 \in 1..11 /\ 8 \in 1..11 /\ 9 \in 1..11
  OBVIOUS
<1>3. /\ DecodeEnum(e1, SchemaValue, kNullSchema) = m.schema
      /\ DecodeEnum(e2, STypeValue, kNullSType) = m.stype_in
      /\ DecodeEnum(e3, STypeValue, Garbled) = m.stype_out
  BY MetadataFields, SchemaReads, STypeReads, STypeOutReads
<1>4. /\ F[1].val = m.dataset /\ F[1].len = 16 /\ F[2].val = e1 /\ F[2].len = 2
      /\ F[3].val = m.start /\ F[3].len = 8 /\ F[4].val = m.end /\ F[4].len = 8
      /\ F[5].val = m.limit /\ F[5].len = 8
      /\ v = 1 => /\ F[7].val = e2 /\ F[7].len = 1 /\ F[8].val = e3 /\ F[8].len = 1
                  /\ F[9].val = m.ts_out /\ F[9].len = 1
      /\ v > 1 => /\ F[6].val = e2 /\ F[6].len = 1 /\ F[7].val = e3 /\ F[7].len = 1
                  /\ F[8].val = m.ts_out /\ F[8].len = 1
                  /\ F[9].val = m.symbol_cstr_len /\ F[9].len = 2
  <2>1. CASE v = 1
    <3>1. ~(v > 1)
      BY <2>1
    <3> QED
      BY <2>1, <3>1, FixedFieldsV1
  <2>2. CASE v > 1
    <3>1. v # 1
      BY <2>2
    <3> QED
      BY <2>2, <3>1, FixedFieldsLater
  <2>3. v = 1 \/ v > 1
    BY MetadataFields
  <2> QED
    BY <2>1, <2>2, <2>3
<1> HIDE DEF F, e1, e2, e3
<1>5. /\ ConsumeAs(c, 4, 16) = m.dataset /\ ConsumeAs(c, 5, 2) = e1
      /\ ConsumeAs(c, 6, 8) = m.start /\ ConsumeAs(c, 7, 8) = m.end /\ ConsumeAs(c, 8, 8) = m.limit
  <2>1. /\ ConsumeAs(c, 3 + 1, F[1].len) = F[1].val /\ ConsumeAs(c, 3 + 2, F[2].len) = F[2].val
        /\ ConsumeAs(c, 3 + 3, F[3].len) = F[3].val /\ ConsumeAs(c, 3 + 4, F[4].len) = F[4].val
        /\ ConsumeAs(c, 3 + 5, F[5].len) = F[5].val
    BY <1>1, <1>2
  <2> QED
    BY <1>2, <1>4, <2>1, Zenon
<1>6. /\ ConsumeAs(c, 9, F[6].len) = F[6].val /\ ConsumeAs(c, 10, F[7].len) = F[7].val
      /\ ConsumeAs(c, 11, F[8].len) = F[8].val /\ ConsumeAs(c, 12, F[9].len) = F[9].val
  <2>1. /\ ConsumeAs(c, 3 + 6, F[6].len) = F[6].val /\ ConsumeAs(c, 3 + 7, F[7].len) = F[7].val
        /\ ConsumeAs(c, 3 + 8, F[8].len) = F[8].val /\ ConsumeAs(c, 3 + 9, F[9].len) = F[9].val
    BY <1>1, <1>2
  <2> QED
    BY <1>2, <2>1, Zenon
<1>7. /\ ConsumeAs(c, At(1), 1) = e2 /\ ConsumeAs(c, At(2), 1) = e3
      /\ ConsumeAs(c, At(3), 1) = m.ts_out
      /\ v > 1 => ConsumeAs(c, At(4), 2) = m.symbol_cstr_len
  <2>1. CASE v = 1
    <3>1. At(1) = 10 /\ At(2) = 11 /\ At(3) = 12 /\ ~(v > 1)
      BY <2>1
    <3> HIDE DEF At
    <3> QED
      BY <1>4, <1>6, <2>1, <3>1, Zenon
  <2>2. CASE v > 1
    <3>1. At(1) = 9 /\ At(2) = 10 /\ At(3) = 11 /\ At(4) = 12
      BY <2>2
    <3> HIDE DEF At
    <3> QED
      BY <1>4, <1>6, <2>2, <3>1, Zenon
  <2>3. v = 1 \/ v > 1
    BY MetadataFields
  <2> QED
    BY <2>1, <2>2, <2>3
<1>8. kDatasetCstrLen = 16
  BY DEF kDatasetCstrLen
<1> QED
  BY <1>3, <1>5, <1>7, <1>8, Zenon

\* m with another version and another length of its symbols.
With(m, v, l) ==
  [version |-> v, dataset |-> m.dataset, schema |-> m.schema, start |-> m.start,
   end |-> m.end, limit |-> m.limit, stype_in |-> m.stype_in, stype_out |-> m.stype_out,
   ts_out |-> m.ts_out, symbol_cstr_len |-> l, symbols |-> m.symbols,
   partial |-> m.partial, not_found |-> m.not_found, mappings |-> m.mappings]

\* What DecodeMetadata returns for what EncodeMetadata wrote.
ReadAs(m) == With(m, EncodedVersion(m), LengthRead(m))

\* DecodeMetadata returns what EncodeMetadata was given, but for the version and the length
\* of the symbols.
LEMMA MetadataReads ==
  ASSUME NEW m \in Metadata, ~OtherLength(m)
  PROVE  DecodeMetadata(EncodeMetadata(m)) = ReadAs(m)
<1> DEFINE c == EncodeMetadata(m)
           v == EncodedVersion(m)
           l == LengthRead(m)
           version == ConsumeAs(c, 2, 1)
           skip == IF version = 1 THEN 1 ELSE 0
           At(k) == 8 + skip + k
           len == IF version > 1 THEN ConsumeAs(c, At(4), 2) ELSE kSymbolCstrLenV1
           var == IF version > 1 THEN At(7) ELSE At(6)
           symbols == DecodeRepeatedSymbol(len, c, var)
           partial == DecodeRepeatedSymbol(len, c, symbols.next)
           not_found == DecodeRepeatedSymbol(len, c, partial.next)
           mappings == DecodeSymbolMappings(len, c, not_found.next)
           n1 == Len(m.symbols)
           n2 == Len(m.partial)
           n3 == Len(m.not_found)
<1>1. DecodeMetadata(c) =
        [version |-> version,
         dataset |-> ConsumeAs(c, 4, kDatasetCstrLen),
         schema |-> DecodeEnum(ConsumeAs(c, 5, 2), SchemaValue, kNullSchema),
         start |-> ConsumeAs(c, 6, 8), end |-> ConsumeAs(c, 7, 8),
         limit |-> ConsumeAs(c, 8, 8),
         stype_in |-> DecodeEnum(ConsumeAs(c, At(1), 1), STypeValue, kNullSType),
         stype_out |-> DecodeEnum(ConsumeAs(c, At(2), 1), STypeValue, Garbled),
         ts_out |-> ConsumeAs(c, At(3), 1),
         symbol_cstr_len |-> len,
         symbols |-> symbols.val, partial |-> partial.val, not_found |-> not_found.val,
         mappings |-> mappings.val]
  BY Zenon DEF DecodeMetadata
<1>2. version = v
  BY FieldsAt
<1>3. v = 1 \/ v > 1
  BY MetadataFields
<1>4. /\ ConsumeAs(c, 4, kDatasetCstrLen) = m.dataset
      /\ DecodeEnum(ConsumeAs(c, 5, 2), SchemaValue, kNullSchema) = m.schema
      /\ ConsumeAs(c, 6, 8) = m.start /\ ConsumeAs(c, 7, 8) = m.end /\ ConsumeAs(c, 8, 8) = m.limit
      /\ DecodeEnum(ConsumeAs(c, At(1), 1), STypeValue, kNullSType) = m.stype_in
      /\ DecodeEnum(ConsumeAs(c, At(2), 1), STypeValue, Garbled) = m.stype_out
      /\ ConsumeAs(c, At(3), 1) = m.ts_out
      /\ v > 1 => ConsumeAs(c, At(4), 2) = m.symbol_cstr_len
  <2> DEFINE to(k) == 8 + (IF v = 1 THEN 1 ELSE 0) + k
  <2>1. At(1) = to(1) /\ At(2) = to(2) /\ At(3) = to(3) /\ At(4) = to(4)
    BY <1>2, Zenon
  <2>2. /\ ConsumeAs(c, 4, kDatasetCstrLen) = m.dataset
        /\ DecodeEnum(ConsumeAs(c, 5, 2), SchemaValue, kNullSchema) = m.schema
        /\ ConsumeAs(c, 6, 8) = m.start /\ ConsumeAs(c, 7, 8) = m.end
        /\ ConsumeAs(c, 8, 8) = m.limit
        /\ DecodeEnum(ConsumeAs(c, to(1), 1), STypeValue, kNullSType) = m.stype_in
        /\ DecodeEnum(ConsumeAs(c, to(2), 1), STypeValue, Garbled) = m.stype_out
        /\ ConsumeAs(c, to(3), 1) = m.ts_out
        /\ v > 1 => ConsumeAs(c, to(4), 2) = m.symbol_cstr_len
    BY FieldsRead, Zenon
  <2> HIDE DEF At, to, c, v
  <2> QED
    BY <2>1, <2>2, Zenon
<1> HIDE DEF c
<1>5. var = 15
  BY <1>2, <1>3
<1> HIDE DEF var, At
<1>6. len = l
  <2>1. CASE v = 1
    <3>1. ~(v > 1)
      BY <2>1
    <3> QED
      BY <1>2, <2>1, <3>1, Zenon DEF LengthRead
  <2>2. CASE v > 1
    <3>1. v # 1
      BY <2>2
    <3> QED
      BY <1>2, <1>4, <2>2, <3>1, Zenon DEF LengthRead
  <2> QED
    BY <1>3, <2>1, <2>2
<1>7. l = m.symbol_cstr_len \/ Symbols(m) = {}
  BY Zenon DEF OtherLength, LengthRead
<1> HIDE DEF version, v, l, len
<1>8. /\ DecodeRepeatedSymbol(l, c, 15) = [val |-> m.symbols, next |-> 16 + n1]
      /\ DecodeRepeatedSymbol(l, c, 16 + n1) = [val |-> m.partial, next |-> 17 + n1 + n2]
      /\ DecodeRepeatedSymbol(l, c, 17 + n1 + n2)
           = [val |-> m.not_found, next |-> 18 + n1 + n2 + n3]
      /\ DecodeSymbolMappings(l, c, 18 + n1 + n2 + n3).val = m.mappings
  BY <1>7, ListsRead DEF c
<1> HIDE DEF n1, n2, n3
<1>9. symbols.val = m.symbols /\ symbols.next = 16 + n1
  BY <1>5, <1>6, <1>8
<1> HIDE DEF symbols
<1>10. partial.val = m.partial /\ partial.next = 17 + n1 + n2
  BY <1>6, <1>8, <1>9
<1> HIDE DEF partial
<1>11. not_found.val = m.not_found /\ not_found.next = 18 + n1 + n2 + n3
  BY <1>6, <1>8, <1>10
<1> HIDE DEF not_found
<1>12. mappings.val = m.mappings
  BY <1>6, <1>8, <1>11
<1> HIDE DEF mappings
<1> QED
  BY <1>1, <1>2, <1>4, <1>6, <1>9, <1>10, <1>11, <1>12, Zenon DEF ReadAs, With, c, v, l

\* Every piece of metadata is readable: none of its fields and symbols is Garbled.
LEMMA AllReadable ==
  ASSUME NEW m \in Metadata
  PROVE  Readable(m)
<1>1. /\ Garbled \notin Nat /\ Garbled \notin STRING /\ Garbled \notin BOOLEAN
      /\ Garbled \notin FixedString /\ Garbled \notin Seq(FixedString)
      /\ Garbled \notin Seq(DatedMapping) /\ Garbled \notin DOMAIN SchemaValue
      /\ Garbled \notin DOMAIN STypeValue /\ Garbled # Nullopt
  BY FilesAssumption, Zenon
<1>2. Symbols(m) \subseteq FixedString
  <2>1. /\ m.symbols \in Seq(FixedString) /\ m.partial \in Seq(FixedString)
        /\ m.not_found \in Seq(FixedString) /\ m.mappings \in Seq(DatedMapping)
    BY MetadataFields
  <2>2. ASSUME NEW B, NEW s \in Seq(B) PROVE ToSet(s) \subseteq B
    <3>1. Len(s) \in Nat /\ DOMAIN s = 1..Len(s) /\ \A k \in 1..Len(s) : s[k] \in B
      BY LenProperties, ElementOfSeq
    <3> QED
      BY <3>1 DEF ToSet
  <2>3. /\ ToSet(m.symbols) \subseteq FixedString /\ ToSet(m.partial) \subseteq FixedString
        /\ ToSet(m.not_found) \subseteq FixedString /\ ToSet(m.mappings) \subseteq DatedMapping
    BY <2>1, <2>2
  <2>4. ASSUME NEW x \in ToSet(m.mappings)
        PROVE  {x.raw_symbol} \cup {i.symbol : i \in ToSet(x.intervals)} \subseteq FixedString
    <3>1. x.raw_symbol \in FixedString /\ x.intervals \in Seq(DatedInterval)
      BY <2>3 DEF DatedMapping
    <3>2. ToSet(x.intervals) \subseteq DatedInterval
      BY <2>2, <3>1
    <3>3. \A i \in DatedInterval : i.symbol \in FixedString
      BY DEF DatedInterval
    <3> QED
      BY <3>1, <3>2, <3>3
  <2> QED
    BY <2>3, <2>4 DEF Symbols
<1>3. ASSUME NEW f \in DOMAIN m PROVE m[f] # Garbled
  <2>1. f \in {"version", "dataset", "schema", "start", "end", "limit", "stype_in", "stype_out",
               "ts_out", "symbol_cstr_len", "symbols", "partial", "not_found", "mappings"}
    BY DEF Metadata
  <2>2. /\ m.version # Garbled /\ m.symbol_cstr_len # Garbled /\ m.dataset # Garbled
        /\ m.start # Garbled /\ m.end # Garbled /\ m.limit # Garbled /\ m.ts_out # Garbled
        /\ m.schema # Garbled /\ m.stype_in # Garbled /\ m.stype_out # Garbled
        /\ m.symbols # Garbled /\ m.partial # Garbled /\ m.not_found # Garbled
        /\ m.mappings # Garbled
    BY <1>1, MetadataFields, Zenon
  <2> QED
    BY <2>1, <2>2
<1> QED
  BY <1>1, <1>2, <1>3 DEF Readable

-----------------------------------------------------------------------------
(* Files.                                                                  *)

\* All but the version and the length of the symbols.
Rest(m) == [m EXCEPT !.version = 0, !.symbol_cstr_len = 0]

\* now is what was, with another version and perhaps another length of its symbols.
Back(now, was) ==
  /\ now \in Metadata /\ was \in Metadata
  /\ Rest(now) = Rest(was)
  /\ was.version <= now.version /\ now.version <= kDbnVersion
  /\ now.symbol_cstr_len \in {was.symbol_cstr_len,
                              IF now.version = 1 THEN kSymbolCstrLenV1 ELSE kSymbolCstrLen}

\* Metadata an encoder takes and a decoder returns.
GoodOrigin == origin.meta.version <= kDbnVersion /\ ~OtherLength(origin.meta)

\* What files keep: metadata that reads back can be written and read once more.
FileInv ==
  /\ origin.meta \in Metadata
  /\ meta # None /\ GoodOrigin => Back(meta, origin.meta) /\ ~OtherLength(meta)
  /\ chunks # << >> /\ GoodOrigin => meta # None /\ chunks = EncodeMetadata(meta)

\* With gives metadata,
LEMMA WithTyped ==
  ASSUME NEW m \in Metadata, NEW v \in Nat, NEW l \in Nat
  PROVE  With(m, v, l) \in Metadata /\ With(m, v, l).version = v /\ With(m, v, l).symbol_cstr_len = l
<1>1. With(m, v, l).version = v /\ With(m, v, l).symbol_cstr_len = l
  BY DEF With
<1>2. With(m, v, l) \in Metadata
  BY MetadataFields DEF With, Metadata
<1> QED
  BY <1>1, <1>2

\* is two updates,
LEMMA WithExcept ==
  ASSUME NEW m \in Metadata, NEW v, NEW l
  PROVE  [m EXCEPT !.version = v, !.symbol_cstr_len = l] = With(m, v, l)
<1>1. m = With(m, m.version, m.symbol_cstr_len)
  BY DEF With, Metadata
<1> DEFINE x == [m EXCEPT !.version = v, !.symbol_cstr_len = l]
           y == With(m, v, l)
           D == {"version", "dataset", "schema", "start", "end", "limit", "stype_in", "stype_out",
                 "ts_out", "symbol_cstr_len", "symbols", "partial", "not_found", "mappings"}
<1>2. DOMAIN m = D
  BY DEF Metadata
<1>3. DOMAIN x = D /\ DOMAIN y = D
  BY <1>2 DEF With
<1>4. ASSUME NEW f \in D PROVE x[f] = y[f]
  <2>1. x[f] = IF f = "symbol_cstr_len" THEN l ELSE IF f = "version" THEN v ELSE m[f]
    BY <1>2
  <2> HIDE DEF x
  <2> QED
    BY <2>1 DEF With
<1>5. x = [f \in D |-> x[f]] /\ y = [f \in D |-> y[f]]
  BY <1>2, <1>3 DEF With
<1> HIDE DEF x, y, D
<1>6. x = y
  BY <1>4, <1>5
<1> QED
  BY <1>6 DEF x, y

\* the last of which counts,
LEMMA WithWith ==
  ASSUME NEW m, NEW v, NEW l, NEW w, NEW k
  PROVE  With(With(m, v, l), w, k) = With(m, w, k)
  BY DEF With

\* and leaves the rest alone.
LEMMA SameRest ==
  ASSUME NEW m \in Metadata, NEW v \in Nat, NEW l \in Nat
  PROVE  Rest(With(m, v, l)) = Rest(m)
<1>1. With(m, v, l) \in Metadata
  BY WithTyped
<1>2. Rest(With(m, v, l)) = With(With(m, v, l), 0, 0)
  BY <1>1, WithExcept DEF Rest
<1>3. Rest(m) = With(m, 0, 0)
  BY WithExcept DEF Rest
<1>4. With(With(m, v, l), 0, 0) = With(m, 0, 0)
  BY WithWith
<1> QED
  BY <1>2, <1>3, <1>4, Zenon

\* What is read is metadata, and the rest of it is that of what was written.
LEMMA ReadIsMetadata ==
  ASSUME NEW m \in Metadata
  PROVE  /\ ReadAs(m) \in Metadata /\ ReadAs(m).version = EncodedVersion(m)
         /\ ReadAs(m).symbol_cstr_len = LengthRead(m)
         /\ Rest(ReadAs(m)) = Rest(m)
<1>1. EncodedVersion(m) \in Nat /\ LengthRead(m) \in Nat
  BY MetadataFields DEF LengthRead, kSymbolCstrLenV1
<1>2. ReadAs(m) = With(m, EncodedVersion(m), LengthRead(m))
  BY DEF ReadAs
<1>3. /\ ReadAs(m) \in Metadata /\ ReadAs(m).version = EncodedVersion(m)
      /\ ReadAs(m).symbol_cstr_len = LengthRead(m)
  <2> DEFINE v == EncodedVersion(m)
             l == LengthRead(m)
  <2>1. v \in Nat /\ l \in Nat
    BY <1>1
  <2>2. With(m, v, l) \in Metadata /\ With(m, v, l).version = v /\ With(m, v, l).symbol_cstr_len = l
    <3> HIDE DEF v, l
    <3> QED
      BY <2>1, WithTyped
  <2> QED
    BY <1>2, <2>2, Zenon
<1>4. Rest(With(m, EncodedVersion(m), LengthRead(m))) = Rest(m)
  BY <1>1, SameRest
<1> QED
  BY <1>2, <1>3, <1>4, Zenon

\* Metadata::Upgrade changes the version and the length of the symbols.
LEMMA Upgrading ==
  ASSUME NEW m \in Metadata, m.version \in 1..3, NEW p \in Policies
  PROVE  LET u == UpgradeMetadata(m, p)
         IN  /\ u \in Metadata /\ u.version \in 1..3 /\ m.version <= u.version
             /\ Rest(u) = Rest(m)
             /\ \/ u.version = m.version /\ u.symbol_cstr_len = m.symbol_cstr_len
                \/ u.version > 1 /\ u.symbol_cstr_len = kSymbolCstrLen
<1> DEFINE w == MetadataUpgrade(m.version, p)
           u == UpgradeMetadata(m, p)
<1>1. w \in 1..3 /\ m.version <= w /\ (w # m.version => w > 1)
  BY DEF MetadataUpgrade, kDbnVersion, Policies
<1>2. CASE w = m.version
  <2>1. u = m
    BY <1>2 DEF UpgradeMetadata
  <2> QED
    BY <1>1, <1>2, <2>1
<1>3. CASE w # m.version
  <2>1. u = [m EXCEPT !.version = w, !.symbol_cstr_len = kSymbolCstrLen]
    BY <1>3 DEF UpgradeMetadata
  <2>2. kSymbolCstrLen \in Nat
    BY DEF kSymbolCstrLen
  <2> HIDE DEF u, w
  <2>6. u = With(m, w, kSymbolCstrLen)
    BY <2>1, WithExcept
  <2>3. u \in Metadata /\ u.version = w /\ u.symbol_cstr_len = kSymbolCstrLen
    <3>1. w \in Nat
      BY <1>1
    <3> DEFINE l == kSymbolCstrLen
    <3>2. With(m, w, l) \in Metadata /\ With(m, w, l).version = w /\ With(m, w, l).symbol_cstr_len = l
      BY <2>2, <3>1, WithTyped
    <3> QED
      BY <2>6, <3>2, Zenon
  <2>4. Rest(u) = Rest(m)
    <3>1. w \in Nat
      BY <1>1
    <3>2. Rest(With(m, w, kSymbolCstrLen)) = Rest(m)
      BY <2>2, <3>1, SameRest
    <3> QED
      BY <2>6, <3>2, Zenon
  <2>5. \/ u.version = m.version /\ u.symbol_cstr_len = m.symbol_cstr_len
        \/ u.version > 1 /\ u.symbol_cstr_len = kSymbolCstrLen
    BY <1>1, <1>3, <2>3
  <2> QED
    BY <1>1, <2>3, <2>4, <2>5 DEF u
<1> QED
  BY <1>2, <1>3

\* One more round.
LEMMA OnceMore ==
  ASSUME NEW m \in Metadata, NEW was, Back(m, was), ~OtherLength(m), NEW p \in Policies
  PROVE  LET u == UpgradeMetadata(ReadAs(m), p) IN Back(u, was) /\ ~OtherLength(u)
<1> DEFINE r == ReadAs(m)
           u == UpgradeMetadata(r, p)
           v == EncodedVersion(m)
           o == was.symbol_cstr_len
<1>1. /\ r \in Metadata /\ r.version = v /\ r.symbol_cstr_len = LengthRead(m)
      /\ Rest(r) = Rest(m)
  BY ReadIsMetadata
<1>2. /\ was \in Metadata /\ was.version <= m.version /\ m.version <= 3
      /\ Rest(m) = Rest(was)
      /\ m.symbol_cstr_len \in {o, IF m.version = 1 THEN kSymbolCstrLenV1 ELSE kSymbolCstrLen}
  BY DEF Back, kDbnVersion
<1>3. m.version \in Nat /\ was.version \in Nat
  BY <1>2, MetadataFields
<1>4. v \in 1..3 /\ m.version <= v /\ (v # 1 => v = m.version)
  BY <1>2, <1>3 DEF EncodedVersion
<1> HIDE DEF r, v
<1>5. /\ u \in Metadata /\ u.version \in 1..3 /\ r.version <= u.version
      /\ Rest(u) = Rest(r)
      /\ \/ u.version = r.version /\ u.symbol_cstr_len = r.symbol_cstr_len
         \/ u.version > 1 /\ u.symbol_cstr_len = kSymbolCstrLen
  <2>1. r.version \in 1..3
    BY <1>1, <1>4
  <2> QED
    BY <1>1, <2>1, Upgrading
<1> HIDE DEF u, o
<1>6. u.symbol_cstr_len \in {o, IF u.version = 1 THEN kSymbolCstrLenV1 ELSE kSymbolCstrLen}
  <2>1. CASE u.version > 1 /\ u.symbol_cstr_len = kSymbolCstrLen
    <3>1. u.version # 1
      BY <1>5, <2>1
    <3> QED
      BY <2>1, <3>1
  <2>2. CASE u.version = v /\ u.symbol_cstr_len = LengthRead(m)
    <3>1. CASE v = 1
      BY <2>2, <3>1 DEF LengthRead, v
    <3>2. CASE v # 1
      <4>1. m.version = v /\ LengthRead(m) = m.symbol_cstr_len
        BY <1>4, <3>2 DEF LengthRead, v
      <4> QED
        BY <1>2, <2>2, <4>1
    <3> QED
      BY <3>1, <3>2
  <2> QED
    BY <1>1, <1>5, <2>1, <2>2
<1>7. ~OtherLength(u)
  <2> SUFFICES ASSUME EncodedVersion(u) = 1 PROVE u.symbol_cstr_len = kSymbolCstrLenV1
    BY DEF OtherLength
  <2>1. u.version = 1
    BY <1>5 DEF EncodedVersion
  <2>2. r.version = 1 /\ u.symbol_cstr_len = LengthRead(m)
    BY <1>1, <1>4, <1>5, <2>1
  <2> QED
    BY <1>1, <2>2 DEF LengthRead, v
<1>8. Rest(u) = Rest(was)
  BY <1>1, <1>2, <1>5, Zenon
<1>9. was.version <= u.version /\ u.version <= kDbnVersion
  BY <1>1, <1>2, <1>3, <1>4, <1>5 DEF kDbnVersion
<1>10. Back(u, was)
  BY <1>2, <1>5, <1>6, <1>8, <1>9, Zenon DEF Back, o
<1> QED
  BY <1>7, <1>10 DEF u, r

\* The files keep it from the start,
LEMMA FileInvInit == InitFile => FileInv
<1> SUFFICES ASSUME InitFile PROVE FileInv
  OBVIOUS
<1>1. meta \in Metadata /\ chunks = << >> /\ origin = [meta |-> meta, rec |-> rec]
  BY FilesAssumption DEF InitFile
<1>2. origin.meta = meta
  BY <1>1
<1>3. meta.version \in Nat
  BY <1>1, MetadataFields
<1>4. ASSUME GoodOrigin PROVE Back(meta, origin.meta) /\ ~OtherLength(meta)
  <2>1. meta.version <= kDbnVersion /\ meta.version <= meta.version /\ ~OtherLength(meta)
    BY <1>2, <1>3, <1>4 DEF GoodOrigin
  <2> QED
    BY <1>1, <1>2, <2>1, Zenon DEF Back
<1> QED
  BY <1>1, <1>2, <1>4 DEF FileInv

\* and with every step.
LEMMA FileInvNext == FileInv /\ [FileNext]_fileVars => FileInv'
<1> SUFFICES ASSUME FileInv, [FileNext]_fileVars PROVE FileInv'
  OBVIOUS
<1>0. /\ origin.meta \in Metadata
      /\ meta # None /\ GoodOrigin => Back(meta, origin.meta) /\ ~OtherLength(meta)
      /\ chunks # << >> /\ GoodOrigin => meta # None /\ chunks = EncodeMetadata(meta)
  BY DEF FileInv
<1>1. CASE Encode
  <2>1. /\ meta' = meta /\ origin' = origin /\ chunks' = EncodeMetadata(meta) /\ meta # None
    BY <1>1 DEF Encode
  <2> QED
    BY <1>0, <2>1 DEF FileInv, GoodOrigin
<1>2. CASE EncodeFails
  <2>1. meta' = None /\ origin' = origin /\ chunks' = << >>
    BY <1>2 DEF EncodeFails
  <2> QED
    BY <1>0, <2>1 DEF FileInv, GoodOrigin
<1>3. ASSUME NEW p \in Policies, Decode(p) PROVE FileInv'
  <2>1. /\ chunks # << >> /\ origin' = origin /\ chunks' = << >>
        /\ meta' = IF FixedFieldsFit(chunks) /\ Readable(DecodeMetadata(chunks))
                     THEN UpgradeMetadata(DecodeMetadata(chunks), p) ELSE Garbled
    BY <1>3 DEF Decode
  <2>2. ASSUME GoodOrigin PROVE Back(meta', origin.meta) /\ ~OtherLength(meta')
    <3>1. chunks = EncodeMetadata(meta) /\ Back(meta, origin.meta) /\ ~OtherLength(meta)
      BY <1>0, <2>1, <2>2
    <3>2. meta \in Metadata
      BY <3>1 DEF Back
    <3>3. DecodeMetadata(chunks) = ReadAs(meta)
      BY <3>1, <3>2, MetadataReads
    <3>4. FixedFieldsFit(chunks) /\ Readable(DecodeMetadata(chunks))
      <4>1. FixedFieldsFit(chunks)
        BY <3>1, <3>2, FieldsFit
      <4>2. ReadAs(meta) \in Metadata
        BY <3>2, ReadIsMetadata
      <4> QED
        BY <3>3, <4>1, <4>2, AllReadable
    <3>5. meta' = UpgradeMetadata(ReadAs(meta), p)
      BY <2>1, <3>3, <3>4
    <3> QED
      BY <3>1, <3>2, <3>5, OnceMore
  <2>3. GoodOrigin' <=> GoodOrigin
    BY <2>1 DEF GoodOrigin
  <2> QED
    BY <1>0, <2>1, <2>2, <2>3 DEF FileInv
<1>4. CASE UNCHANGED fileVars
  <2>1. meta' = meta /\ origin' = origin /\ chunks' = chunks
    BY <1>4 DEF fileVars
  <2> QED
    BY <1>0, <2>1 DEF FileInv, GoodOrigin
<1> QED
  BY <1>1, <1>2, <1>3, <1>4 DEF FileNext

\* MetadataReadsBack: however often metadata is written and read, with whatever upgrade
\* policies, DecodeMetadata returns what EncodeMetadata was given, for every piece of
\* metadata: any lists of symbols, any mappings and intervals, any length of the symbols.
THEOREM MetadataReadsBackHolds == FileSpec => []MetadataReadsBack
<1>1. FileInv => MetadataReadsBack
  <2> SUFFICES ASSUME FileInv, meta # None, origin.meta.version <= kDbnVersion,
                      ~OtherLength(origin.meta)
               PROVE  /\ meta # Garbled
                      /\ [meta EXCEPT !.version = 0, !.symbol_cstr_len = 0]
                           = [origin.meta EXCEPT !.version = 0, !.symbol_cstr_len = 0]
                      /\ origin.meta.version <= meta.version /\ meta.version <= kDbnVersion
                      /\ meta.symbol_cstr_len \in
                           {origin.meta.symbol_cstr_len,
                            IF meta.version = 1 THEN kSymbolCstrLenV1 ELSE kSymbolCstrLen}
    BY Zenon DEF MetadataReadsBack
  <2>1. Back(meta, origin.meta)
    BY DEF FileInv, GoodOrigin
  <2>2. meta # Garbled
    BY <2>1, FilesAssumption, Zenon DEF Back
  <2> QED
    BY <2>1, <2>2, Zenon DEF Back, Rest
<1> QED
  BY <1>1, FileInvInit, FileInvNext, PTL DEF FileSpec

-----------------------------------------------------------------------------
(* Upgrades of records.                                                    *)

\* A struct whose fields hold their own names.
Plain(fields) == [f \in ToSet(fields) |-> f]

\* What the field at position i is after the initialiser and the copies.
Row(fields, init, copied, old, i) ==
  IF fields[i] \in copied THEN old[fields[i]]
  ELSE IF init[i] \in DOMAIN old THEN old[init[i]] ELSE init[i]

\* What a struct is, told row by row.
LEMMA InitialiserIs ==
  ASSUME NEW fields, NEW init, NEW copied, NEW old, NEW val,
         DOMAIN fields = 1..Len(fields), val = [f \in ToSet(fields) |-> val[f]],
         \A i \in 1..Len(fields) :
           val[fields[i]] = Row(fields, init, copied, old, i)
  PROVE  FromInitialiser(fields, init, copied, old) = val
<1> DEFINE at(f) == CHOOSE i \in 1..Len(fields) : fields[i] = f
           got(f) == IF f \in copied THEN old[f]
                     ELSE IF init[at(f)] \in DOMAIN old THEN old[init[at(f)]] ELSE init[at(f)]
<1>1. ASSUME NEW f \in ToSet(fields) PROVE got(f) = val[f]
  <2>1. \E i \in 1..Len(fields) : fields[i] = f
    BY DEF ToSet
  <2>2. at(f) \in 1..Len(fields) /\ fields[at(f)] = f
    BY <2>1
  <2> HIDE DEF at
  <2> QED
    BY <2>2 DEF Row
<1>2. FromInitialiser(fields, init, copied, old) = [f \in ToSet(fields) |-> got(f)]
  BY DEF FromInitialiser
<1> HIDE DEF got
<1> QED
  BY <1>1, <1>2

\* What version 3 added to InstrumentDefMsg, and _reserved, which is never copied.
AddedInV3 ==
  {"leg_price", "leg_delta", "leg_instrument_id", "leg_ratio_price_numerator",
   "leg_ratio_price_denominator", "leg_ratio_qty_numerator", "leg_ratio_qty_denominator",
   "leg_underlying_id", "leg_count", "leg_index", "leg_raw_symbol", "leg_instrument_class",
   "leg_side", "_reserved"}
Filled(f) ==
  IF f \in {"leg_price", "leg_delta"} THEN "kUndefPrice"
  ELSE IF f = "leg_side" THEN "Side::None" ELSE "0"
NoField == {"0", "kUndefPrice", "Side::None"}

\* The definitions that the upgrades make of one whose fields hold their names.
DefV2 == [f \in ToSet(InstrumentDefV2) |-> IF f = "_reserved" THEN "0" ELSE f]
DefV3 == [f \in ToSet(InstrumentDefV3) |-> IF f \in AddedInV3 THEN Filled(f) ELSE f]

\* The sizes of the tables.
LEMMA DefLengths ==
  /\ Len(InstrumentDefV1) = 66 /\ DOMAIN InstrumentDefV1 = 1..66
  /\ Len(InstrumentDefV2) = 62 /\ DOMAIN InstrumentDefV2 = 1..62
  /\ Len(InstrumentDefV3) = 71 /\ DOMAIN InstrumentDefV3 = 1..71
  BY DEF InstrumentDefV1, InstrumentDefV2, InstrumentDefV3

\* No field of version 1 has the name of an added one or of a filler;
LEMMA NamesV1 ==
  ASSUME NEW f \in ToSet(InstrumentDefV1)
  PROVE  f \notin AddedInV3 /\ f \notin NoField
<1>1. PICK i \in 1..66 : f = InstrumentDefV1[i]
  BY DefLengths DEF ToSet
<1>2. \/ i = 1 \/ i = 2 \/ i = 3 \/ i = 4 \/ i = 5 \/ i = 6 \/ i = 7 \/ i = 8 \/ i = 9
      \/ i = 10 \/ i = 11 \/ i = 12 \/ i = 13 \/ i = 14 \/ i = 15 \/ i = 16 \/ i = 17
      \/ i = 18 \/ i = 19 \/ i = 20 \/ i = 21 \/ i = 22 \/ i = 23 \/ i = 24 \/ i = 25
      \/ i = 26 \/ i = 27 \/ i = 28 \/ i = 29 \/ i = 30 \/ i = 31 \/ i = 32 \/ i = 33
      \/ i = 34 \/ i = 35 \/ i = 36 \/ i = 37 \/ i = 38 \/ i = 39 \/ i = 40 \/ i = 41
      \/ i = 42 \/ i = 43 \/ i = 44 \/ i = 45 \/ i = 46 \/ i = 47 \/ i = 48 \/ i = 49
      \/ i = 50 \/ i = 51 \/ i = 52 \/ i = 53 \/ i = 54 \/ i = 55 \/ i = 56 \/ i = 57
      \/ i = 58 \/ i = 59 \/ i = 60 \/ i = 61 \/ i = 62 \/ i = 63 \/ i = 64 \/ i = 65
      \/ i = 66
  OBVIOUS
<1> QED
  BY <1>1, <1>2 DEF InstrumentDefV1, AddedInV3, NoField

\* and of version 2 only _reserved has.
LEMMA NamesV2 ==
  ASSUME NEW f \in ToSet(InstrumentDefV2)
  PROVE  (f \in AddedInV3 => f = "_reserved") /\ f \notin NoField
<1>1. PICK i \in 1..62 : f = InstrumentDefV2[i]
  BY DefLengths DEF ToSet
<1>2. \/ i = 1 \/ i = 2 \/ i = 3 \/ i = 4 \/ i = 5 \/ i = 6 \/ i = 7 \/ i = 8 \/ i = 9
      \/ i = 10 \/ i = 11 \/ i = 12 \/ i = 13 \/ i = 14 \/ i = 15 \/ i = 16 \/ i = 17
      \/ i = 18 \/ i = 19 \/ i = 20 \/ i = 21 \/ i = 22 \/ i = 23 \/ i = 24 \/ i = 25
      \/ i = 26 \/ i = 27 \/ i = 28 \/ i = 29 \/ i = 30 \/ i = 31 \/ i = 32 \/ i = 33
      \/ i = 34 \/ i = 35 \/ i = 36 \/ i = 37 \/ i = 38 \/ i = 39 \/ i = 40 \/ i = 41
      \/ i = 42 \/ i = 43 \/ i = 44 \/ i = 45 \/ i = 46 \/ i = 47 \/ i = 48 \/ i = 49
      \/ i = 50 \/ i = 51 \/ i = 52 \/ i = 53 \/ i = 54 \/ i = 55 \/ i = 56 \/ i = 57
      \/ i = 58 \/ i = 59 \/ i = 60 \/ i = 61 \/ i = 62
  OBVIOUS
<1> QED
  BY <1>1, <1>2 DEF InstrumentDefV2, AddedInV3, NoField

\* The rows of the upgrade from version 1 to 2: a field is copied, or it is initialised with
\* the field of its name, or it is _reserved.
LEMMA RowsV1ToV2 ==
  ASSUME NEW i \in 1..62
  PROVE  LET f == InstrumentDefV2[i] IN
         \/ f \in ToSet(InstrumentDefV1) /\ (f \in CopiedToV2 \/ InstrumentDefV1ToV2[i] = f)
         \/ f \notin CopiedToV2 /\ f = "_reserved" /\ InstrumentDefV1ToV2[i] = "0"
<1> DEFINE D == ToSet(InstrumentDefV1)
<1>1. \A k \in 1..66 : InstrumentDefV1[k] \in D
  BY DefLengths DEF ToSet
<1> HIDE DEF D
<1>2. \/ i = 1 \/ i = 2 \/ i = 3 \/ i = 4 \/ i = 5 \/ i = 6 \/ i = 7 \/ i = 8 \/ i = 9
      \/ i = 10 \/ i = 11 \/ i = 12 \/ i = 13 \/ i = 14 \/ i = 15 \/ i = 16 \/ i = 17
      \/ i = 18 \/ i = 19 \/ i = 20 \/ i = 21 \/ i = 22 \/ i = 23 \/ i = 24 \/ i = 25
      \/ i = 26 \/ i = 27 \/ i = 28 \/ i = 29 \/ i = 30 \/ i = 31 \/ i = 32 \/ i = 33
      \/ i = 34 \/ i = 35 \/ i = 36 \/ i = 37 \/ i = 38 \/ i = 39 \/ i = 40 \/ i = 41
      \/ i = 42 \/ i = 43 \/ i = 44 \/ i = 45 \/ i = 46 \/ i = 47 \/ i = 48 \/ i = 49
      \/ i = 50 \/ i = 51 \/ i = 52 \/ i = 53 \/ i = 54 \/ i = 55 \/ i = 56 \/ i = 57
      \/ i = 58 \/ i = 59 \/ i = 60 \/ i = 61 \/ i = 62
  OBVIOUS
<1>3. LET f == InstrumentDefV2[i] IN
         \/ f \in D /\ (f \in CopiedToV2 \/ InstrumentDefV1ToV2[i] = f)
         \/ f \notin CopiedToV2 /\ f = "_reserved" /\ InstrumentDefV1ToV2[i] = "0"
  BY <1>1, <1>2 DEF InstrumentDefV1, InstrumentDefV2, InstrumentDefV1ToV2, CopiedToV2
<1> QED
  BY <1>3 DEF D

\* Likewise from version 1 to 3,
LEMMA RowsV1ToV3 ==
  ASSUME NEW i \in 1..71
  PROVE  LET f == InstrumentDefV3[i] IN
         \/ f \in ToSet(InstrumentDefV1) /\ (f \in CopiedToV3 \/ InstrumentDefV1ToV3[i] = f)
         \/ f \notin CopiedToV3 /\ f \in AddedInV3 /\ InstrumentDefV1ToV3[i] = Filled(f)
<1> DEFINE D == ToSet(InstrumentDefV1)
<1>1. \A k \in 1..66 : InstrumentDefV1[k] \in D
  BY DefLengths DEF ToSet
<1> HIDE DEF D
<1>2. \/ i = 1 \/ i = 2 \/ i = 3 \/ i = 4 \/ i = 5 \/ i = 6 \/ i = 7 \/ i = 8 \/ i = 9
      \/ i = 10 \/ i = 11 \/ i = 12 \/ i = 13 \/ i = 14 \/ i = 15 \/ i = 16 \/ i = 17
      \/ i = 18 \/ i = 19 \/ i = 20 \/ i = 21 \/ i = 22 \/ i = 23 \/ i = 24 \/ i = 25
      \/ i = 26 \/ i = 27 \/ i = 28 \/ i = 29 \/ i = 30 \/ i = 31 \/ i = 32 \/ i = 33
      \/ i = 34 \/ i = 35 \/ i = 36 \/ i = 37 \/ i = 38 \/ i = 39 \/ i = 40 \/ i = 41
      \/ i = 42 \/ i = 43 \/ i = 44 \/ i = 45 \/ i = 46 \/ i = 47 \/ i = 48 \/ i = 49
      \/ i = 50 \/ i = 51 \/ i = 52 \/ i = 53 \/ i = 54 \/ i = 55 \/ i = 56 \/ i = 57
      \/ i = 58 \/ i = 59 \/ i = 60 \/ i = 61 \/ i = 62 \/ i = 63 \/ i = 64 \/ i = 65
      \/ i = 66 \/ i = 67 \/ i = 68 \/ i = 69 \/ i = 70 \/ i = 71
  OBVIOUS
<1>3. LET f == InstrumentDefV3[i] IN
         \/ f \in D /\ (f \in CopiedToV3 \/ InstrumentDefV1ToV3[i] = f)
         \/ f \notin CopiedToV3 /\ f \in AddedInV3 /\ InstrumentDefV1ToV3[i] = Filled(f)
  BY <1>1, <1>2
     DEF InstrumentDefV1, InstrumentDefV3, InstrumentDefV1ToV3, CopiedToV3, CopiedToV2,
         AddedInV3, Filled
<1> QED
  BY <1>3 DEF D

\* and from version 2 to 3.
LEMMA RowsV2ToV3 ==
  ASSUME NEW i \in 1..71
  PROVE  LET f == InstrumentDefV3[i] IN
         \/ /\ f \in ToSet(InstrumentDefV2) /\ f \notin AddedInV3
            /\ f \in CopiedToV3 \/ InstrumentDefV2ToV3[i] = f
         \/ f \notin CopiedToV3 /\ f \in AddedInV3 /\ InstrumentDefV2ToV3[i] = Filled(f)
<1> DEFINE D == ToSet(InstrumentDefV2)
<1>1. \A k \in 1..62 : InstrumentDefV2[k] \in D
  BY DefLengths DEF ToSet
<1> HIDE DEF D
<1>2. \/ i = 1 \/ i = 2 \/ i = 3 \/ i = 4 \/ i = 5 \/ i = 6 \/ i = 7 \/ i = 8 \/ i = 9
      \/ i = 10 \/ i = 11 \/ i = 12 \/ i = 13 \/ i = 14 \/ i = 15 \/ i = 16 \/ i = 17
      \/ i = 18 \/ i = 19 \/ i = 20 \/ i = 21 \/ i = 22 \/ i = 23 \/ i = 24 \/ i = 25
      \/ i = 26 \/ i = 27 \/ i = 28 \/ i = 29 \/ i = 30 \/ i = 31 \/ i = 32 \/ i = 33
      \/ i = 34 \/ i = 35 \/ i = 36 \/ i = 37 \/ i = 38 \/ i = 39 \/ i = 40 \/ i = 41
      \/ i = 42 \/ i = 43 \/ i = 44 \/ i = 45 \/ i = 46 \/ i = 47 \/ i = 48 \/ i = 49
      \/ i = 50 \/ i = 51 \/ i = 52 \/ i = 53 \/ i = 54 \/ i = 55 \/ i = 56 \/ i = 57
      \/ i = 58 \/ i = 59 \/ i = 60 \/ i = 61 \/ i = 62 \/ i = 63 \/ i = 64 \/ i = 65
      \/ i = 66 \/ i = 67 \/ i = 68 \/ i = 69 \/ i = 70 \/ i = 71
  OBVIOUS
<1>3. LET f == InstrumentDefV3[i] IN
         \/ f \in D /\ f \notin AddedInV3 /\ (f \in CopiedToV3 \/ InstrumentDefV2ToV3[i] = f)
         \/ f \notin CopiedToV3 /\ f \in AddedInV3 /\ InstrumentDefV2ToV3[i] = Filled(f)
  BY <1>1, <1>2
     DEF InstrumentDefV2, InstrumentDefV3, InstrumentDefV2ToV3, CopiedToV3, CopiedToV2,
         AddedInV3, Filled
<1> QED
  BY <1>3 DEF D

\* A value behind a field of a new struct is no field of an old one.
LEMMA FilledIs == ASSUME NEW f PROVE Filled(f) \in NoField
  BY DEF Filled, NoField

\* So the upgrade from version 1 to 2 gives DefV2,
LEMMA UpgradeV1ToV2 ==
  FromInitialiser(InstrumentDefV2, InstrumentDefV1ToV2, CopiedToV2, Plain(InstrumentDefV1)) = DefV2
<1> DEFINE D == ToSet(InstrumentDefV1)
           E == ToSet(InstrumentDefV2)
           old == Plain(InstrumentDefV1)
<1>1. DOMAIN old = D /\ \A f \in D : old[f] = f
  BY DEF Plain
<1>2. DOMAIN DefV2 = E /\ \A f \in E : DefV2[f] = IF f = "_reserved" THEN "0" ELSE f
  BY DEF DefV2
<1>3. \A f \in D : f # "_reserved" /\ f # "0"
  BY NamesV1 DEF AddedInV3, NoField
<1>4. \A i \in 1..62 : InstrumentDefV2[i] \in E
  BY DefLengths DEF ToSet
<1>5. DefV2 = [f \in E |-> DefV2[f]]
  BY DEF DefV2
<1>6. \A i \in 1..62 :
        \/ InstrumentDefV2[i] \in D
           /\ (InstrumentDefV2[i] \in CopiedToV2 \/ InstrumentDefV1ToV2[i] = InstrumentDefV2[i])
        \/ /\ InstrumentDefV2[i] \notin CopiedToV2 /\ InstrumentDefV2[i] = "_reserved"
           /\ InstrumentDefV1ToV2[i] = "0"
  BY RowsV1ToV2
<1> HIDE DEF D, E, old
<1>7. ASSUME NEW i \in 1..62
      PROVE  DefV2[InstrumentDefV2[i]]
               = Row(InstrumentDefV2, InstrumentDefV1ToV2, CopiedToV2, old, i)
  BY <1>1, <1>2, <1>3, <1>4, <1>6 DEF Row
<1>8. /\ DOMAIN InstrumentDefV2 = 1..Len(InstrumentDefV2)
      /\ \A i \in 1..Len(InstrumentDefV2) :
           DefV2[InstrumentDefV2[i]]
             = Row(InstrumentDefV2, InstrumentDefV1ToV2, CopiedToV2, old, i)
  BY <1>7, DefLengths
<1>9. FromInitialiser(InstrumentDefV2, InstrumentDefV1ToV2, CopiedToV2, old) = DefV2
  BY <1>5, <1>8, InitialiserIs DEF E
<1> QED
  BY <1>9 DEF old

\* the one from version 1 to 3 gives DefV3,
LEMMA UpgradeV1ToV3 ==
  FromInitialiser(InstrumentDefV3, InstrumentDefV1ToV3, CopiedToV3, Plain(InstrumentDefV1)) = DefV3
<1> DEFINE D == ToSet(InstrumentDefV1)
           E == ToSet(InstrumentDefV3)
           old == Plain(InstrumentDefV1)
<1>1. DOMAIN old = D /\ \A f \in D : old[f] = f
  BY DEF Plain
<1>2. DOMAIN DefV3 = E /\ \A f \in E : DefV3[f] = IF f \in AddedInV3 THEN Filled(f) ELSE f
  BY DEF DefV3
<1>3. \A f \in D : f \notin AddedInV3 /\ f \notin NoField
  BY NamesV1
<1>4. \A i \in 1..71 : InstrumentDefV3[i] \in E
  BY DefLengths DEF ToSet
<1>5. DefV3 = [f \in E |-> DefV3[f]]
  BY DEF DefV3
<1>6. \A i \in 1..71 :
        \/ InstrumentDefV3[i] \in D
           /\ (InstrumentDefV3[i] \in CopiedToV3 \/ InstrumentDefV1ToV3[i] = InstrumentDefV3[i])
        \/ /\ InstrumentDefV3[i] \notin CopiedToV3 /\ InstrumentDefV3[i] \in AddedInV3
           /\ InstrumentDefV1ToV3[i] = Filled(InstrumentDefV3[i])
  BY RowsV1ToV3
<1> HIDE DEF D, E, old
<1>7. ASSUME NEW i \in 1..71
      PROVE  DefV3[InstrumentDefV3[i]]
               = Row(InstrumentDefV3, InstrumentDefV1ToV3, CopiedToV3, old, i)
  <2>1. Filled(InstrumentDefV3[i]) \notin D
    BY <1>3, FilledIs
  <2> QED
    BY <1>1, <1>2, <1>3, <1>4, <1>6, <2>1 DEF Row
<1>8. /\ DOMAIN InstrumentDefV3 = 1..Len(InstrumentDefV3)
      /\ \A i \in 1..Len(InstrumentDefV3) :
           DefV3[InstrumentDefV3[i]]
             = Row(InstrumentDefV3, InstrumentDefV1ToV3, CopiedToV3, old, i)
  BY <1>7, DefLengths
<1>9. FromInitialiser(InstrumentDefV3, InstrumentDefV1ToV3, CopiedToV3, old) = DefV3
  BY <1>5, <1>8, InitialiserIs DEF E
<1> QED
  BY <1>9 DEF old

\* and so does the one from version 2 to 3, whatever is in _reserved.
LEMMA UpgradeV2ToV3 ==
  ASSUME NEW old, DOMAIN old = ToSet(InstrumentDefV2),
         \A f \in ToSet(InstrumentDefV2) : f # "_reserved" => old[f] = f
  PROVE  FromInitialiser(InstrumentDefV3, InstrumentDefV2ToV3, CopiedToV3, old) = DefV3
<1> DEFINE D == ToSet(InstrumentDefV2)
           E == ToSet(InstrumentDefV3)
<1>1. DOMAIN old = D /\ \A f \in D : f # "_reserved" => old[f] = f
  OBVIOUS
<1>2. DOMAIN DefV3 = E /\ \A f \in E : DefV3[f] = IF f \in AddedInV3 THEN Filled(f) ELSE f
  BY DEF DefV3
<1>3. \A f \in D : f \notin NoField
  BY NamesV2
<1>4. \A i \in 1..71 : InstrumentDefV3[i] \in E
  BY DefLengths DEF ToSet
<1>5. DefV3 = [f \in E |-> DefV3[f]] /\ "_reserved" \in AddedInV3
  BY DEF DefV3, AddedInV3
<1>6. \A i \in 1..71 :
        \/ /\ InstrumentDefV3[i] \in D /\ InstrumentDefV3[i] \notin AddedInV3
           /\ InstrumentDefV3[i] \in CopiedToV3 \/ InstrumentDefV2ToV3[i] = InstrumentDefV3[i]
        \/ /\ InstrumentDefV3[i] \notin CopiedToV3 /\ InstrumentDefV3[i] \in AddedInV3
           /\ InstrumentDefV2ToV3[i] = Filled(InstrumentDefV3[i])
  BY RowsV2ToV3
<1> HIDE DEF D, E
<1>7. ASSUME NEW i \in 1..71
      PROVE  DefV3[InstrumentDefV3[i]]
               = Row(InstrumentDefV3, InstrumentDefV2ToV3, CopiedToV3, old, i)
  <2>1. Filled(InstrumentDefV3[i]) \notin D
    BY <1>3, FilledIs
  <2>2. InstrumentDefV3[i] \notin AddedInV3 => InstrumentDefV3[i] # "_reserved"
    BY <1>5
  <2> QED
    BY <1>1, <1>2, <1>4, <1>6, <2>1, <2>2 DEF Row
<1>8. /\ DOMAIN InstrumentDefV3 = 1..Len(InstrumentDefV3)
      /\ \A i \in 1..Len(InstrumentDefV3) :
           DefV3[InstrumentDefV3[i]]
             = Row(InstrumentDefV3, InstrumentDefV2ToV3, CopiedToV3, old, i)
  BY <1>7, DefLengths
<1>9. FromInitialiser(InstrumentDefV3, InstrumentDefV2ToV3, CopiedToV3, old) = DefV3
  BY <1>5, <1>8, InitialiserIs DEF E
<1> QED
  BY <1>9

\* What an upgrade from version j to k makes of the fields of a record.
Upgraded(t, j, k, f) ==
  IF Layout(t, k) = Layout(t, j) THEN f
  ELSE CASE t = "InstrumentDef" -> InstrumentDefUpgrade(f, j, k)
         [] t = "Statistics" -> StatUpgrade(f)
         [] t = "Error" -> ErrorUpgrade(f)
         [] t = "SymbolMapping" -> SymbolMappingUpgrade(f)
         [] t = "System" -> SystemUpgrade(f)

\* The policy that upgrades to version k.
UpTo(k) == IF k = 2 THEN "UpgradeToV2" ELSE "UpgradeToV3"

\* DecodeRecordCompat upgrades the records whose layout changed, and those that kept their
\* layout kept their size.
LEMMA CompatMoves ==
  ASSUME NEW t \in Changed, NEW j \in 1..2, NEW k \in 2..3, j < k
  PROVE  /\ DecodeRecordCompat(j, UpTo(k), t) # Layout(t, j) <=> Layout(t, k) # Layout(t, j)
         /\ Layout(t, k) = Layout(t, j) => SizeOfStruct[t][k] = SizeOfStruct[t][j]
<1>1. (j = 1 /\ k = 2) \/ (j = 1 /\ k = 3) \/ (j = 2 /\ k = 3)
  OBVIOUS
<1>2. DecodeRecordCompat(j, UpTo(k), t) # Layout(t, j) <=> Layout(t, k) # Layout(t, j)
  BY <1>1 DEF DecodeRecordCompat, Layout, UpTo, Changed
<1>3. Layout(t, k) = Layout(t, j) => SizeOfStruct[t][k] = SizeOfStruct[t][j]
  BY <1>1 DEF Layout, SizeOfStruct, Changed
<1> QED
  BY <1>2, <1>3

\* A record that is upgraded is one of the new version with the upgraded fields,
LEMMA CompatUpgrades ==
  ASSUME NEW t \in Changed, NEW j \in 1..2, NEW k \in 2..3, j < k, NEW ts, NEW f
  PROVE  Compat(RecordOf(t, j, ts, f), UpTo(k)) = RecordOf(t, k, ts, Upgraded(t, j, k, f))
<1> DEFINE r == RecordOf(t, j, ts, f)
           w(v) == (SizeOfStruct[t][v] + IF ts THEN 8 ELSE 0) \div kLengthMultiplier
<1>1. r = [rtype |-> t, version |-> j, ts_out |-> ts, words |-> w(j), f |-> f]
  BY DEF RecordOf
<1>2. r.rtype = t /\ r.version = j /\ r.ts_out = ts /\ r.f = f /\ r.words = w(j)
  BY <1>1
<1>3. NeedsUpgrade(UpTo(k), j) /\ (IF UpTo(k) = "UpgradeToV2" THEN 2 ELSE 3) = k
  BY DEF NeedsUpgrade, UpTo
<1>4. CASE Layout(t, k) = Layout(t, j)
  <2>1. Compat(r, UpTo(k)) = [r EXCEPT !.version = k]
    BY <1>2, <1>3, <1>4, CompatMoves DEF Compat
  <2>2. w(k) = w(j)
    BY <1>4, CompatMoves
  <2>3. RecordOf(t, k, ts, f) = [rtype |-> t, version |-> k, ts_out |-> ts, words |-> w(k), f |-> f]
    BY DEF RecordOf
  <2> HIDE DEF w
  <2>4. [r EXCEPT !.version = k] = RecordOf(t, k, ts, f)
    BY <1>1, <2>2, <2>3
  <2> QED
    BY <1>4, <2>1, <2>4 DEF Upgraded
<1>5. CASE Layout(t, k) # Layout(t, j)
  <2>1. Compat(r, UpTo(k)) = UpgradeRecord(r, k)
    BY <1>2, <1>3, <1>5, CompatMoves DEF Compat
  <2>2. UpgradeRecord(r, k) = RecordOf(t, k, ts, Upgraded(t, j, k, f))
    <3> DEFINE u == Upgraded(t, j, k, f)
    <3>1. u = CASE t = "InstrumentDef" -> InstrumentDefUpgrade(f, j, k)
                [] t = "Statistics" -> StatUpgrade(f)
                [] t = "Error" -> ErrorUpgrade(f)
                [] t = "SymbolMapping" -> SymbolMappingUpgrade(f)
                [] t = "System" -> SystemUpgrade(f)
      BY <1>5 DEF Upgraded
    <3>2. UpgradeRecord(r, k)
            = [rtype |-> t, version |-> k, ts_out |-> ts, words |-> w(k), f |-> u]
      BY <1>2, <3>1, Zenon DEF UpgradeRecord
    <3> QED
      BY <3>2 DEF RecordOf
  <2> QED
    BY <2>1, <2>2
<1> QED
  BY <1>4, <1>5

\* and one that is new enough stays as it is.
LEMMA CompatKeeps ==
  ASSUME NEW t, NEW k \in 1..3, NEW ts, NEW f, NEW p \in Policies
  PROVE  \/ Compat(RecordOf(t, k, ts, f), p) = RecordOf(t, k, ts, f)
         \/ \E to \in 2..3 : k < to /\ p = UpTo(to)
<1>1. RecordOf(t, k, ts, f).version = k
  BY DEF RecordOf
<1>2. NeedsUpgrade(p, k) => \E to \in 2..3 : k < to /\ p = UpTo(to)
  BY DEF NeedsUpgrade, UpTo, Policies
<1> QED
  BY <1>1, <1>2 DEF Compat

\* g gives the fields of a record in each version from v on: every upgrade leads along it,
\* and what must be kept of the first is kept.
Chain(t, v, g) ==
  /\ \A j \in v..2 : \A k \in 2..3 : j < k => Upgraded(t, j, k, g[j]) = g[k]
  /\ \A k \in v..3 : Kept(g[v], g[k]) /\ (t = "System" => IsHeartbeat(g[k]) = IsHeartbeat(g[v]))
  /\ t = "Statistics" => g[3].quantity # kUndefQuantity32

\* What a chain consists of, from version 1
LEMMA ChainFrom1 ==
  ASSUME NEW t, NEW a, NEW b, NEW c,
         Upgraded(t, 1, 2, a) = b, Upgraded(t, 1, 3, a) = c, Upgraded(t, 2, 3, b) = c,
         Kept(a, b), Kept(a, c),
         t = "System" => IsHeartbeat(b) = IsHeartbeat(a) /\ IsHeartbeat(c) = IsHeartbeat(a),
         t = "Statistics" => c.quantity # kUndefQuantity32
  PROVE  \E g : g[1] = a /\ Chain(t, 1, g)
<1> DEFINE g == <<a, b, c>>
<1>0. g[1] = a /\ g[2] = b /\ g[3] = c
  OBVIOUS
<1>1. Kept(a, a)
  BY DEF Kept
<1> HIDE DEF g
<1>2. ASSUME NEW j \in 1..2, NEW k \in 2..3, j < k PROVE Upgraded(t, j, k, g[j]) = g[k]
  <2>1. (j = 1 /\ k = 2) \/ (j = 1 /\ k = 3) \/ (j = 2 /\ k = 3)
    BY <1>2
  <2> QED
    BY <1>0, <2>1
<1>3. ASSUME NEW k \in 1..3
      PROVE  Kept(g[1], g[k]) /\ (t = "System" => IsHeartbeat(g[k]) = IsHeartbeat(g[1]))
  <2>1. k = 1 \/ k = 2 \/ k = 3
    OBVIOUS
  <2> QED
    BY <1>0, <1>1, <2>1
<1>4. Chain(t, 1, g)
  BY <1>0, <1>2, <1>3 DEF Chain
<1> QED
  BY <1>0, <1>4

\* and from version 2.
LEMMA ChainFrom2 ==
  ASSUME NEW t, NEW b, NEW c, Upgraded(t, 2, 3, b) = c, Kept(b, c),
         t = "System" => IsHeartbeat(c) = IsHeartbeat(b),
         t = "Statistics" => c.quantity # kUndefQuantity32
  PROVE  \E g : g[2] = b /\ Chain(t, 2, g)
<1> DEFINE g == <<b, b, c>>
<1>0. g[2] = b /\ g[3] = c
  OBVIOUS
<1>1. Kept(b, b)
  BY DEF Kept
<1> HIDE DEF g
<1>2. ASSUME NEW j \in 2..2, NEW k \in 2..3, j < k PROVE Upgraded(t, j, k, g[j]) = g[k]
  <2>1. j = 2 /\ k = 3
    BY <1>2
  <2> QED
    BY <1>0, <2>1
<1>3. ASSUME NEW k \in 2..3
      PROVE  Kept(g[2], g[k]) /\ (t = "System" => IsHeartbeat(g[k]) = IsHeartbeat(g[2]))
  <2>1. k = 2 \/ k = 3
    OBVIOUS
  <2> QED
    BY <1>0, <1>1, <2>1
<1>4. Chain(t, 2, g)
  BY <1>0, <1>2, <1>3 DEF Chain
<1> QED
  BY <1>0, <1>4

\* The chains of instrument definitions.
LEMMA DefChains ==
  ASSUME NEW v \in 1..2, NEW f \in FieldValues("InstrumentDef", v)
  PROVE  \E g : g[v] = f /\ Chain("InstrumentDef", v, g)
<1> DEFINE t == "InstrumentDef"
<1>1. f = Plain(Struct[t][v])
  BY DEF FieldValues, Plain
<1>2. /\ \A x : Upgraded(t, 1, 2, x) = FromInitialiser(InstrumentDefV2, InstrumentDefV1ToV2, CopiedToV2, x)
      /\ \A x : Upgraded(t, 1, 3, x) = FromInitialiser(InstrumentDefV3, InstrumentDefV1ToV3, CopiedToV3, x)
      /\ \A x : Upgraded(t, 2, 3, x) = FromInitialiser(InstrumentDefV3, InstrumentDefV2ToV3, CopiedToV3, x)
  BY DEF Upgraded, Layout, InstrumentDefUpgrade
<1>3. /\ Upgraded(t, 1, 2, Plain(InstrumentDefV1)) = DefV2
      /\ Upgraded(t, 1, 3, Plain(InstrumentDefV1)) = DefV3
  BY <1>2, UpgradeV1ToV2, UpgradeV1ToV3
<1>4. Upgraded(t, 2, 3, DefV2) = DefV3
  <2>1. /\ DOMAIN DefV2 = ToSet(InstrumentDefV2)
        /\ \A x \in ToSet(InstrumentDefV2) : x # "_reserved" => DefV2[x] = x
    BY DEF DefV2
  <2> QED
    BY <1>2, <2>1, UpgradeV2ToV3
<1>5. Upgraded(t, 2, 3, Plain(InstrumentDefV2)) = DefV3
  <2>1. /\ DOMAIN Plain(InstrumentDefV2) = ToSet(InstrumentDefV2)
        /\ \A x \in ToSet(InstrumentDefV2) : x # "_reserved" => Plain(InstrumentDefV2)[x] = x
    BY DEF Plain
  <2> QED
    BY <1>2, <2>1, UpgradeV2ToV3
<1>6. Kept(Plain(InstrumentDefV1), DefV2)
  BY DEF Kept, Plain, DefV2
<1>7. Kept(Plain(InstrumentDefV1), DefV3)
  BY NamesV1 DEF Kept, Plain, DefV3
<1>8. Kept(Plain(InstrumentDefV2), DefV3)
  BY NamesV2 DEF Kept, Plain, DefV3
<1>9. t # "System" /\ t # "Statistics"
  OBVIOUS
<1>10. CASE v = 1
  <2>1. f = Plain(InstrumentDefV1)
    BY <1>1, <1>10 DEF Struct
  <2> QED
    BY <1>3, <1>4, <1>6, <1>7, <1>9, <1>10, <2>1, ChainFrom1
<1>11. CASE v = 2
  <2>1. f = Plain(InstrumentDefV2)
    BY <1>1, <1>11 DEF Struct
  <2> QED
    BY <1>5, <1>8, <1>9, <1>11, <2>1, ChainFrom2
<1> QED
  BY <1>10, <1>11

\* The fields of a statistic, which versions 1 and 3 share.
StatFields ==
  {"hd", "ts_recv", "ts_ref", "price", "quantity", "sequence", "ts_in_delta", "stat_type",
   "channel_id", "update_action", "stat_flags", "_reserved"}

\* The upgrade of a statistic leaves all fields but _reserved and an undefined quantity.
LEMMA StatUpgradeIs ==
  ASSUME NEW f, DOMAIN f = StatFields
  PROVE  StatUpgrade(f)
           = [x \in StatFields |->
                IF x = "_reserved" THEN "0"
                ELSE IF x = "quantity" /\ f[x] = kUndefQuantity32 THEN kUndefQuantity64
                ELSE f[x]]
<1> DEFINE val == [x \in StatFields |-> IF x = "_reserved" THEN "0" ELSE f[x]]
<1>1. Len(StatV3) = 12 /\ DOMAIN StatV3 = 1..12
  BY DEF StatV3
<1>2. ToSet(StatV3) = StatFields
  <2>1. \A i \in 1..12 : i = 1 \/ i = 2 \/ i = 3 \/ i = 4 \/ i = 5 \/ i = 6 \/ i = 7 \/ i = 8
                         \/ i = 9 \/ i = 10 \/ i = 11 \/ i = 12
    OBVIOUS
  <2>2. \A i \in 1..12 : StatV3[i] \in StatFields
    BY <2>1 DEF StatV3, StatFields
  <2>3. \A x \in StatFields : \E i \in 1..12 : StatV3[i] = x
    BY DEF StatV3, StatFields
  <2> QED
    BY <1>1, <2>2, <2>3 DEF ToSet
<1>3. ASSUME NEW i \in 1..12 PROVE val[StatV3[i]] = Row(StatV3, StatV1ToV3, {}, f, i)
  <2>1. i = 1 \/ i = 2 \/ i = 3 \/ i = 4 \/ i = 5 \/ i = 6 \/ i = 7 \/ i = 8
        \/ i = 9 \/ i = 10 \/ i = 11 \/ i = 12
    OBVIOUS
  <2>2. \/ StatV3[i] \in StatFields \ {"_reserved"} /\ StatV1ToV3[i] = StatV3[i]
        \/ StatV3[i] = "_reserved" /\ StatV1ToV3[i] = "0"
    BY <2>1 DEF StatV3, StatV1ToV3, StatFields
  <2>3. "0" \notin StatFields /\ "_reserved" \in StatFields
    BY DEF StatFields
  <2> QED
    BY <2>2, <2>3 DEF Row
<1>4. val = [x \in StatFields |-> val[x]]
  OBVIOUS
<1> HIDE DEF val
<1>5. FromInitialiser(StatV3, StatV1ToV3, {}, f) = val
  <2> DEFINE none == {}
  <2>1. /\ DOMAIN StatV3 = 1..Len(StatV3) /\ val = [x \in ToSet(StatV3) |-> val[x]]
        /\ \A i \in 1..Len(StatV3) : val[StatV3[i]] = Row(StatV3, StatV1ToV3, none, f, i)
    BY <1>1, <1>2, <1>3, <1>4
  <2> HIDE DEF none
  <2>2. FromInitialiser(StatV3, StatV1ToV3, none, f) = val
    BY <2>1, InitialiserIs
  <2> QED
    BY <2>2 DEF none
<1>6. "quantity" \in StatFields /\ "quantity" # "_reserved"
  BY DEF StatFields
<1>7. StatUpgrade(f)
        = [val EXCEPT !.quantity = IF val.quantity = kUndefQuantity32 THEN kUndefQuantity64
                                                                     ELSE val.quantity]
  BY <1>5 DEF StatUpgrade
<1>8. val.quantity = f.quantity
  BY <1>6 DEF val
<1> QED
  BY <1>6, <1>7, <1>8 DEF val

\* The chains of statistics,
LEMMA StatChains ==
  ASSUME NEW v \in 1..2, NEW f \in FieldValues("Statistics", v)
  PROVE  \E g : g[v] = f /\ Chain("Statistics", v, g)
<1> DEFINE t == "Statistics"
           c == StatUpgrade(f)
           plain == Plain(StatV1)
<1>1. f = plain \/ f = [plain EXCEPT !.quantity = kUndefQuantity32]
  <2>1. Struct[t][v] = StatV1
    BY DEF Struct
  <2> QED
    BY <2>1 DEF FieldValues, Plain
<1>2. ToSet(StatV1) = StatFields
  <2>1. Len(StatV1) = 12 /\ DOMAIN StatV1 = 1..12
    BY DEF StatV1
  <2>2. \A i \in 1..12 : i = 1 \/ i = 2 \/ i = 3 \/ i = 4 \/ i = 5 \/ i = 6 \/ i = 7 \/ i = 8
                         \/ i = 9 \/ i = 10 \/ i = 11 \/ i = 12
    OBVIOUS
  <2>3. \A i \in 1..12 : StatV1[i] \in StatFields
    BY <2>2 DEF StatV1, StatFields
  <2>4. \A x \in StatFields : \E i \in 1..12 : StatV1[i] = x
    BY DEF StatV1, StatFields
  <2> QED
    BY <2>1, <2>3, <2>4 DEF ToSet
<1>3. DOMAIN f = StatFields
  BY <1>1, <1>2 DEF Plain
<1>4. "quantity" \in StatFields /\ "quantity" # "_reserved" /\ kUndefQuantity64 # kUndefQuantity32
  BY DEF StatFields, kUndefQuantity32, kUndefQuantity64
<1>5. c = [x \in StatFields |->
             IF x = "_reserved" THEN "0"
             ELSE IF x = "quantity" /\ f[x] = kUndefQuantity32 THEN kUndefQuantity64 ELSE f[x]]
  BY <1>3, StatUpgradeIs
<1> HIDE DEF c
<1>6. Kept(f, f) /\ Kept(f, c)
  BY <1>3, <1>5 DEF Kept
<1>7. c.quantity # kUndefQuantity32
  BY <1>4, <1>5
<1>8. Upgraded(t, 1, 2, f) = f /\ Upgraded(t, 1, 3, f) = c /\ Upgraded(t, 2, 3, f) = c
  BY DEF Upgraded, Layout, c
<1>9. CASE v = 1
  BY <1>6, <1>7, <1>8, <1>9, ChainFrom1
<1>10. CASE v = 2
  BY <1>6, <1>7, <1>8, <1>10, ChainFrom2
<1> QED
  BY <1>9, <1>10

\* of errors,
LEMMA ErrorChains ==
  ASSUME NEW v \in 1..2, NEW f \in FieldValues("Error", v)
  PROVE  \E g : g[v] = f /\ Chain("Error", v, g)
<1> DEFINE t == "Error"
           b == ErrorUpgrade(f)
<1>1. Upgraded(t, 1, 2, f) = b /\ Upgraded(t, 1, 3, f) = b /\ \A x : Upgraded(t, 2, 3, x) = x
  BY DEF Upgraded, Layout
<1>2. CASE v = 1
  <2>1. PICK text : f = [Plain(ErrorV1) EXCEPT !.err = text]
    BY <1>2 DEF FieldValues, Plain, Struct
  <2>2. Plain(ErrorV1) = [hd |-> "hd", err |-> "err"]
    BY DEF Plain, ErrorV1, ToSet
  <2>3. f = [hd |-> "hd", err |-> text]
    BY <2>1, <2>2
  <2>4. b = [hd |-> "hd", err |-> text, code |-> ErrorCodeOf(text), is_last |-> "UINT8_MAX"]
    BY <2>3 DEF ErrorUpgrade
  <2> HIDE DEF b
  <2>5. Kept(f, b)
    BY <2>3, <2>4 DEF Kept
  <2> QED
    BY <1>1, <1>2, <2>5, ChainFrom1
<1>3. CASE v = 2
  <2>1. Kept(f, f)
    BY DEF Kept
  <2> QED
    BY <1>1, <1>3, <2>1, ChainFrom2
<1> QED
  BY <1>2, <1>3

\* of system messages,
LEMMA SystemChains ==
  ASSUME NEW v \in 1..2, NEW f \in FieldValues("System", v)
  PROVE  \E g : g[v] = f /\ Chain("System", v, g)
<1> DEFINE t == "System"
           b == SystemUpgrade(f)
<1>1. Upgraded(t, 1, 2, f) = b /\ Upgraded(t, 1, 3, f) = b /\ \A x : Upgraded(t, 2, 3, x) = x
  BY DEF Upgraded, Layout
<1>2. CASE v = 1
  <2>1. PICK text : f = [Plain(SystemV1) EXCEPT !.msg = text]
    BY <1>2 DEF FieldValues, Plain, Struct
  <2>2. Plain(SystemV1) = [hd |-> "hd", msg |-> "msg"]
    BY DEF Plain, SystemV1, ToSet
  <2>3. f = [hd |-> "hd", msg |-> text]
    BY <2>1, <2>2
  <2>4. b = [hd |-> "hd", msg |-> text, code |-> SystemCodeOf(text)]
    BY <2>3 DEF SystemUpgrade
  <2> HIDE DEF b
  <2>5. Kept(f, b)
    BY <2>3, <2>4 DEF Kept
  <2>6. IsHeartbeat(f) = (text.starts = "Heartbeat")
    BY <2>3 DEF IsHeartbeat
  <2>7. IsHeartbeat(b) = IF SystemCodeOf(text) # "Unset" THEN SystemCodeOf(text) = "Heartbeat"
                                                         ELSE text.starts = "Heartbeat"
    BY <2>4 DEF IsHeartbeat
  <2>8. \/ SystemCodeOf(text) = "Unset"
        \/ SystemCodeOf(text) = "Heartbeat" /\ text.starts = "Heartbeat"
        \/ SystemCodeOf(text) \notin {"Unset", "Heartbeat"} /\ text.starts # "Heartbeat"
    BY DEF SystemCodeOf
  <2>9. IsHeartbeat(b) = IsHeartbeat(f)
    BY <2>6, <2>7, <2>8
  <2> QED
    BY <1>1, <1>2, <2>5, <2>9, ChainFrom1
<1>3. CASE v = 2
  <2>1. Kept(f, f)
    BY DEF Kept
  <2> QED
    BY <1>1, <1>3, <2>1, ChainFrom2
<1> QED
  BY <1>2, <1>3

\* and of symbol mappings.
LEMMA MappingChains ==
  ASSUME NEW v \in 1..2, NEW f \in FieldValues("SymbolMapping", v)
  PROVE  \E g : g[v] = f /\ Chain("SymbolMapping", v, g)
<1> DEFINE t == "SymbolMapping"
           b == SymbolMappingUpgrade(f)
<1>1. Upgraded(t, 1, 2, f) = b /\ Upgraded(t, 1, 3, f) = b /\ \A x : Upgraded(t, 2, 3, x) = x
  BY DEF Upgraded, Layout
<1>2. CASE v = 1
  <2> DEFINE copied == {"stype_in_symbol", "stype_out_symbol"}
             D == {"hd", "stype_in_symbol", "stype_out_symbol", "_dummy", "start_ts", "end_ts"}
             val == [x \in ToSet(SymbolMappingV2) |->
                       IF x \in {"stype_in", "stype_out"} THEN "UINT8_MAX" ELSE x]
  <2>1. f = Plain(SymbolMappingV1)
    BY <1>2 DEF FieldValues, Plain, Struct
  <2>2. ToSet(SymbolMappingV1) = D
    BY DEF SymbolMappingV1, ToSet
  <2>3. DOMAIN f = D /\ \A x \in D : f[x] = x
    BY <2>1, <2>2 DEF Plain
  <2>4. Len(SymbolMappingV2) = 7 /\ DOMAIN SymbolMappingV2 = 1..7
    BY DEF SymbolMappingV2
  <2>5. ASSUME NEW i \in 1..7
        PROVE  val[SymbolMappingV2[i]] = Row(SymbolMappingV2, SymbolMappingV1ToV2, copied, f, i)
    <3>1. i = 1 \/ i = 2 \/ i = 3 \/ i = 4 \/ i = 5 \/ i = 6 \/ i = 7
      OBVIOUS
    <3>2. SymbolMappingV2[i] \in ToSet(SymbolMappingV2)
      BY <2>4 DEF ToSet
    <3>3. val[SymbolMappingV2[i]] = IF SymbolMappingV2[i] \in {"stype_in", "stype_out"}
                                      THEN "UINT8_MAX" ELSE SymbolMappingV2[i]
      BY <3>2
    <3> HIDE DEF val
    <3> QED
      BY <2>3, <3>1, <3>3 DEF Row, SymbolMappingV2, SymbolMappingV1ToV2
  <2>6. val = [x \in ToSet(SymbolMappingV2) |-> val[x]]
    OBVIOUS
  <2> HIDE DEF val
  <2>7. b = val
    BY <2>4, <2>5, <2>6, InitialiserIs DEF SymbolMappingUpgrade
  <2>8. Kept(f, val)
    BY <2>3 DEF Kept, val
  <2> QED
    BY <1>1, <1>2, <2>7, <2>8, ChainFrom1
<1>3. CASE v = 2
  <2>1. Kept(f, f)
    BY DEF Kept
  <2> QED
    BY <1>1, <1>3, <2>1, ChainFrom2
<1> QED
  BY <1>2, <1>3

\* Every record that a file starts with has a chain.
LEMMA Chains ==
  ASSUME NEW t \in Changed, NEW v \in 1..2, NEW f \in FieldValues(t, v)
  PROVE  \E g : g[v] = f /\ Chain(t, v, g)
<1>1. t \in {"InstrumentDef", "Statistics", "SymbolMapping", "Error", "System"}
  BY DEF Changed
<1> QED
  BY <1>1, DefChains, StatChains, MappingChains, ErrorChains, SystemChains

\* The record is on the chain of the one the file started with.
OnChain(r0, r) ==
  \E t \in Changed, v \in 1..2, ts \in BOOLEAN, k \in 1..3 : \E g :
    /\ v <= k /\ Chain(t, v, g)
    /\ r0 = RecordOf(t, v, ts, g[v]) /\ r = RecordOf(t, k, ts, g[k])

RecordInv == rec # None => OnChain(origin.rec, rec)

\* A file starts with a record of version 1 or 2, if any.
LEMMA RecordInvInit == InitFile => RecordInv
<1> SUFFICES ASSUME InitFile, rec # None PROVE OnChain(origin.rec, rec)
  BY DEF RecordInv
<1>1. meta \in Metadata /\ origin.rec = rec
  BY FilesAssumption DEF InitFile
<1> DEFINE v == EncodedVersion(meta)
<1>2. PICK t \in Changed : \E f \in FieldValues(t, v) : rec = RecordOf(t, v, meta.ts_out, f)
  BY DEF InitFile
<1>3. PICK f \in FieldValues(t, v) : rec = RecordOf(t, v, meta.ts_out, f)
  BY <1>2
<1>4. v \in 1..2
  <2>1. v < 3 /\ meta.version \in Nat
    BY <1>1, MetadataFields DEF InitFile, kDbnVersion
  <2> QED
    BY <2>1 DEF EncodedVersion
<1>5. meta.ts_out \in BOOLEAN
  BY <1>1, MetadataFields
<1> HIDE DEF v
<1>6. PICK g : g[v] = f /\ Chain(t, v, g)
  BY <1>4, Chains
<1>7. v <= v /\ v \in 1..3
  BY <1>4
<1> QED
  BY <1>1, <1>3, <1>4, <1>5, <1>6, <1>7 DEF OnChain

\* Every policy leads along the chain.
LEMMA ChainStep ==
  ASSUME NEW r0, NEW r, OnChain(r0, r), NEW p \in Policies
  PROVE  OnChain(r0, Compat(r, p))
<1>0. PICK t \in Changed, v \in 1..2, ts \in BOOLEAN, k \in 1..3 : \E g :
        /\ v <= k /\ Chain(t, v, g)
        /\ r0 = RecordOf(t, v, ts, g[v]) /\ r = RecordOf(t, k, ts, g[k])
  BY DEF OnChain
<1>1. PICK g : /\ v <= k /\ Chain(t, v, g)
               /\ r0 = RecordOf(t, v, ts, g[v]) /\ r = RecordOf(t, k, ts, g[k])
  BY <1>0
<1>2. CASE Compat(r, p) = r
  BY <1>2
<1>3. ASSUME NEW to \in 2..3, k < to, p = UpTo(to) PROVE OnChain(r0, Compat(r, p))
  <2>1. k \in v..2 /\ k \in 1..2 /\ to \in 1..3 /\ v <= to
    BY <1>1, <1>3
  <2>2. Upgraded(t, k, to, g[k]) = g[to]
    BY <1>1, <1>3, <2>1 DEF Chain
  <2>3. Compat(r, p) = RecordOf(t, to, ts, g[to])
    BY <1>1, <1>3, <2>1, <2>2, CompatUpgrades
  <2> QED
    BY <1>1, <2>1, <2>3 DEF OnChain
<1> QED
  BY <1>1, <1>2, <1>3, CompatKeeps

\* What is on the chain is what the property asks for.
LEMMA ChainKeeps ==
  ASSUME NEW r0, NEW r, OnChain(r0, r)
  PROVE  /\ Kept(r0.f, r.f)
         /\ r.version = 3 /\ r.rtype = "Statistics" => r.f.quantity # kUndefQuantity32
         /\ r.rtype = "System" => IsHeartbeat(r.f) = IsHeartbeat(r0.f)
         /\ r.words * kLengthMultiplier
              = SizeOfStruct[r.rtype][r.version] + (IF r.ts_out THEN 8 ELSE 0)
         /\ r.words * kLengthMultiplier <= kMaxRecordLen
         /\ r.version = 3 => r = Compat(r0, "UpgradeToV3")
<1>0. PICK t \in Changed, v \in 1..2, ts \in BOOLEAN, k \in 1..3 : \E g :
        /\ v <= k /\ Chain(t, v, g)
        /\ r0 = RecordOf(t, v, ts, g[v]) /\ r = RecordOf(t, k, ts, g[k])
  BY DEF OnChain
<1>1. PICK g : /\ v <= k /\ Chain(t, v, g)
               /\ r0 = RecordOf(t, v, ts, g[v]) /\ r = RecordOf(t, k, ts, g[k])
  BY <1>0
<1> DEFINE size == SizeOfStruct[t][k]
           out == IF ts THEN 8 ELSE 0
<1>2. /\ r.rtype = t /\ r.version = k /\ r.ts_out = ts /\ r.f = g[k] /\ r0.f = g[v]
      /\ r.words = (size + out) \div kLengthMultiplier
  BY <1>1 DEF RecordOf
<1>3. k \in v..3
  BY <1>1
<1>4. /\ Kept(r0.f, r.f)
      /\ r.version = 3 /\ r.rtype = "Statistics" => r.f.quantity # kUndefQuantity32
      /\ r.rtype = "System" => IsHeartbeat(r.f) = IsHeartbeat(r0.f)
  BY <1>1, <1>2, <1>3 DEF Chain
<1>5. size \in {64, 80, 176, 320, 360, 400, 520}
  <2>1. k = 1 \/ k = 2 \/ k = 3
    OBVIOUS
  <2> QED
    BY <2>1 DEF SizeOfStruct, Changed
<1>6. out \in {0, 8}
  OBVIOUS
<1> HIDE DEF size, out
<1>7. /\ r.words * kLengthMultiplier = size + out
      /\ r.words * kLengthMultiplier <= kMaxRecordLen
  BY <1>2, <1>5, <1>6 DEF kLengthMultiplier, kMaxRecordLen
<1>8. ASSUME k = 3 PROVE r = Compat(r0, "UpgradeToV3")
  <2>1. v \in v..2 /\ v < 3 /\ 3 \in 2..3 /\ UpTo(3) = "UpgradeToV3"
    BY DEF UpTo
  <2>2. Upgraded(t, v, 3, g[v]) = g[3]
    BY <1>1, <2>1 DEF Chain
  <2> QED
    BY <1>1, <1>8, <2>1, <2>2, CompatUpgrades
<1> QED
  BY <1>2, <1>4, <1>7, <1>8 DEF size, out

\* UpgradesKeepRecords for every text and every sequence of policies: along all of them a
\* record keeps its fields, its undefined quantity and its being a heartbeat, its length is
\* that of its layout and fits compat_buffer_, and the order of the upgrades does not matter.
THEOREM UpgradesKeepRecordsHolds == FileSpec => []UpgradesKeepRecords
<1>1. RecordInv /\ [FileNext]_fileVars => RecordInv'
  <2> SUFFICES ASSUME RecordInv, [FileNext]_fileVars, rec' # None PROVE OnChain(origin.rec, rec)'
    BY DEF RecordInv
  <2>1. CASE UNCHANGED <<rec, origin>>
    BY <2>1 DEF RecordInv
  <2>2. ASSUME NEW p \in Policies, Decode(p) PROVE OnChain(origin.rec, rec)'
    <3>1. rec # None /\ rec' = Compat(rec, p) /\ origin' = origin
      BY <2>2 DEF Decode
    <3>2. OnChain(origin.rec, Compat(rec, p))
      BY <3>1, ChainStep DEF RecordInv
    <3> QED
      BY <3>1, <3>2
  <2> QED
    BY <2>1, <2>2 DEF FileNext, Encode, EncodeFails, fileVars
<1>2. RecordInv => UpgradesKeepRecords
  BY ChainKeeps DEF RecordInv, UpgradesKeepRecords
<1> QED
  BY <1>1, <1>2, RecordInvInit, PTL DEF FileSpec
==============================================================================
