-------------------------------- MODULE Buffer --------------------------------
(***************************************************************************)
(* databento::detail::Buffer as a component: its callers may call its      *)
(* methods in any order that respects the two unchecked preconditions the  *)
(* callers keep, namely Fill(n) with n <= WriteCapacity() and Consume(n)   *)
(* with n <= ReadCapacity().                                               *)
(***************************************************************************)
EXTENDS BufferOps

CONSTANTS Byte,
          InitCapacity,  \* buffer_size
          MaxWrite,      \* bound: longest piece of data of one call
          MaxCapacity    \* bound: largest capacity or length asked for

ASSUME BufferAssumption ==
  /\ Uninit \notin Byte
  /\ InitCapacity \in Nat
  /\ MaxWrite \in Nat
  /\ MaxCapacity \in Nat

VARIABLES buf,  \* the buffer
          ret   \* what the last call returned to its caller

bufVars == <<buf, ret>>

Data == UNION {[1..n -> Byte] : n \in 0..MaxWrite}

Returned(size, bytes) == [size |-> size, bytes |-> bytes, threw |-> FALSE]
Threw == [size |-> 0, bytes |-> << >>, threw |-> TRUE]
Nothing == Returned(0, << >>)

BufInit == buf = NewBuffer(InitCapacity) /\ ret = Nothing

DoFill(data) ==
  /\ Len(data) <= WriteCapacity(buf)
  /\ buf' = Fill(buf, data)
  /\ ret' = Nothing

DoConsume(n) ==
  /\ n <= ReadCapacity(buf)
  /\ buf' = Consume(buf, n)
  /\ ret' = Nothing

DoWrite(data) ==
  /\ buf' = Write(buf, data)
  /\ ret' = Returned(WriteSize(buf, Len(data)), << >>)

\* WriteAll(data): bound on the growth, WriteAll itself is unbounded.
DoWriteAll(data) ==
  /\ ReadCapacity(buf) + Len(data) <= MaxCapacity
  /\ buf' = WriteAll(buf, data)
  /\ ret' = Nothing

ReadSome(max) ==
  LET n == ReadSize(buf, max)
  IN  /\ buf' = Consume(buf, n)
      /\ ret' = Returned(n, SubSeq(Unread(buf), 1, n))

ReadExact(n) ==
  IF n > ReadCapacity(buf)
    THEN ret' = Threw /\ UNCHANGED buf
    ELSE ReadSome(n)

DoClear == buf' = Clear(buf) /\ ret' = Nothing

DoReserve(c) == buf' = Reserve(buf, c) /\ ret' = Nothing

DoShift == buf' = Shift(buf) /\ ret' = Nothing

DoShiftForSpace(n) == buf' = ShiftForSpace(buf, n) /\ ret' = Nothing

BufNext ==
  \/ \E data \in Data : DoFill(data) \/ DoWrite(data) \/ DoWriteAll(data)
  \/ \E n \in 0..MaxCapacity :
       \/ DoConsume(n) \/ ReadSome(n) \/ ReadExact(n)
       \/ DoReserve(n) \/ DoShiftForSpace(n)
  \/ DoClear
  \/ DoShift

BufSpec == BufInit /\ [][BufNext]_bufVars

-----------------------------------------------------------------------------

\* The cursors are ordered, 0 <= read_pos_ <= write_pos_ <= end_, and mem covers the
\* allocation.
IsBuffer(b) ==
  /\ b = [cap |-> b.cap, rd |-> b.rd, wr |-> b.wr, mem |-> b.mem]
  /\ b.cap \in Nat /\ b.rd \in Nat /\ b.wr \in Nat
  /\ b.rd <= b.wr /\ b.wr <= b.cap
  /\ b.mem \in [0..(b.cap - 1) -> Byte \cup {Uninit}]

\* The cursors stay ordered and inside the allocation through every call, and every unread
\* byte was written by a caller: however the buffer was shifted or reallocated, no byte of
\* fresh memory lies between read_pos_ and write_pos_.
TypeOK == IsBuffer(buf)
Initialised(b) == \A i \in b.rd..(b.wr - 1) : b.mem[i] \in Byte
UnreadIsInitialised == TypeOK /\ Initialised(buf)

\* ShiftForSpace(needed) makes `needed` bytes of contiguous room whenever the
\* buffer holds that much free space at all (FillBuffer relies on it to have room
\* for a record of kMaxRecordLen).
ShiftForSpaceMakesRoom ==
  \A n \in 0..MaxCapacity :
    n <= buf.cap - ReadCapacity(buf) => WriteCapacity(ShiftForSpace(buf, n)) >= n

\* The buffer implements the byte queue: the unread region is the queue.
Fifo == INSTANCE ByteFifo WITH q <- Unread(buf), cap <- buf.cap

\* Whatever the order of calls, the buffer behaves as a FIFO of bytes: a read
\* returns the oldest unread bytes, Write takes all that fits, and shifting,
\* growing and partial reads neither lose nor reorder a byte.
ImplementsFifo == Fifo!Spec
==============================================================================
