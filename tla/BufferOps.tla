------------------------------ MODULE BufferOps ------------------------------
(***************************************************************************)
(* databento::detail::Buffer as a value: the contiguous byte buffer every  *)
(* reader of the library decodes from (LiveBlocking, DbnDecoder,           *)
(* DbnBufferDecoder).  One operator per method; a buffer is the record     *)
(*                                                                         *)
(*   cap   end_ - buf_, the allocated capacity                             *)
(*   rd    read_pos_ - buf_                                                *)
(*   wr    write_pos_ - buf_                                               *)
(*   mem   the bytes at offsets 0 .. cap-1                                 *)
(*                                                                         *)
(* Pointers become offsets from buf_.  Bytes are opaque.                   *)
(***************************************************************************)
EXTENDS Integers, Sequences

CONSTANT Uninit     \* what freshly allocated memory holds

\* Buffer::Buffer(init_capacity)
NewBuffer(cap) ==
  [cap |-> cap, rd |-> 0, wr |-> 0, mem |-> [i \in 0..(cap - 1) |-> Uninit]]

Capacity(b) == b.cap

ReadCapacity(b) == b.wr - b.rd

WriteCapacity(b) == b.cap - b.wr

\* The bytes in ReadBegin() .. ReadEnd().
Unread(b) == [i \in 1..ReadCapacity(b) |-> b.mem[b.rd + i - 1]]

\* A caller copies data to WriteBegin() and then calls Fill(Len(data)).
Fill(b, data) ==
  [cap |-> b.cap, rd |-> b.rd, wr |-> b.wr + Len(data),
   mem |-> [i \in 0..(b.cap - 1) |->
              IF b.wr <= i /\ i < b.wr + Len(data) THEN data[i - b.wr + 1] ELSE b.mem[i]]]

Consume(b, n) == [cap |-> b.cap, rd |-> b.rd + n, wr |-> b.wr, mem |-> b.mem]

Clear(b) == [cap |-> b.cap, rd |-> 0, wr |-> 0, mem |-> b.mem]

\* Mutant: the cursors move, the bytes stay.
ShiftNoCopy(b) == [cap |-> b.cap, rd |-> 0, wr |-> ReadCapacity(b), mem |-> b.mem]

\* std::copy of the unread bytes to offset 0, then both cursors move.
Shift(b) ==
  [cap |-> b.cap, rd |-> 0, wr |-> ReadCapacity(b),
   mem |-> [i \in 0..(b.cap - 1) |->
              IF i < ReadCapacity(b) THEN b.mem[b.rd + i] ELSE b.mem[i]]]

ShiftForSpace(b, needed) ==
  IF WriteCapacity(b) < needed /\ b.rd # 0 THEN Shift(b) ELSE b

\* Mutant: the bytes move to the front, the cursors keep their offsets.
ReserveKeepsCursors(b, capacity) ==
  IF capacity <= b.cap
    THEN b
    ELSE [cap |-> capacity, rd |-> b.rd, wr |-> b.wr,
          mem |-> [i \in 0..(capacity - 1) |->
                     IF i < ReadCapacity(b) THEN b.mem[b.rd + i] ELSE Uninit]]

\* Grows only; the unread bytes move to the front of the new allocation.
Reserve(b, capacity) ==
  IF capacity <= b.cap
    THEN b
    ELSE [cap |-> capacity, rd |-> 0, wr |-> ReadCapacity(b),
          mem |-> [i \in 0..(capacity - 1) |->
                     IF i < ReadCapacity(b) THEN b.mem[b.rd + i] ELSE Uninit]]

\* The write_size that Write(data, length) returns.
WriteSize(b, length) ==
  LET room == WriteCapacity(ShiftForSpace(b, length))
  IN  IF room < length THEN room ELSE length

Write(b, data) ==
  Fill(ShiftForSpace(b, Len(data)), SubSeq(data, 1, WriteSize(b, Len(data))))

WriteAll(b, data) ==
  IF Len(data) > Capacity(b) - ReadCapacity(b)
    THEN Fill(Reserve(b, ReadCapacity(b) + Len(data)), data)
    ELSE Fill(ShiftForSpace(b, Len(data)), data)

\* The read_size of ReadSome(buffer, max_length).
ReadSize(b, max_length) ==
  IF ReadCapacity(b) < max_length THEN ReadCapacity(b) ELSE max_length
==============================================================================
