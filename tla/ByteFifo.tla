------------------------------- MODULE ByteFifo -------------------------------
(***************************************************************************)
(* What databento::detail::Buffer promises its callers: a byte queue.      *)
(* Bytes come out in the order they went in, none is lost, repeated or     *)
(* invented, a bounded Write takes everything there is room for however    *)
(* the free space is laid out, and only Clear drops unread bytes.          *)
(* Offsets, shifting and reallocation are not visible here.                *)
(***************************************************************************)
EXTENDS Integers, Sequences

CONSTANTS Byte,         \* the byte values
          MaxWrite,     \* longest piece of data offered in one call
          MaxCapacity,  \* bound: largest capacity asked for
          InitCapacity

VARIABLES q,    \* unread bytes, oldest first
          cap,  \* capacity
          ret   \* what the last call returned

Data == UNION {[1..n -> Byte] : n \in 0..MaxWrite}

Returned(size, bytes) == [size |-> size, bytes |-> bytes, threw |-> FALSE]
Threw == [size |-> 0, bytes |-> << >>, threw |-> TRUE]
Nothing == Returned(0, << >>)

Room == cap - Len(q)

Init == q = << >> /\ cap = InitCapacity /\ ret = Nothing

Put(data) == q' = q \o data /\ UNCHANGED cap /\ ret' = Nothing

Fill(data) == Len(data) <= Room /\ Put(data)

Write(data) ==
  LET n == IF Room < Len(data) THEN Room ELSE Len(data)
  IN  /\ q' = q \o SubSeq(data, 1, n)
      /\ ret' = Returned(n, << >>)
      /\ UNCHANGED cap

WriteAll(data) ==
  /\ q' = q \o data
  /\ cap' = IF Len(data) > Room THEN Len(q) + Len(data) ELSE cap
  /\ ret' = Nothing

Take(n) ==
  /\ q' = SubSeq(q, n + 1, Len(q))
  /\ ret' = Returned(n, SubSeq(q, 1, n))
  /\ UNCHANGED cap

ReadSome(max) == Take(IF Len(q) < max THEN Len(q) ELSE max)

ReadExact(n) ==
  \/ n <= Len(q) /\ Take(n)
  \/ n > Len(q) /\ ret' = Threw /\ UNCHANGED <<q, cap>>

Consume(n) ==
  /\ n <= Len(q)
  /\ q' = SubSeq(q, n + 1, Len(q))
  /\ ret' = Nothing
  /\ UNCHANGED cap

Clear == q' = << >> /\ ret' = Nothing /\ UNCHANGED cap

Reserve(c) ==
  /\ cap' = IF c <= cap THEN cap ELSE c
  /\ ret' = Nothing
  /\ UNCHANGED q

\* Shift and ShiftForSpace are invisible but for the reset of the result.
Rearrange == ret' = Nothing /\ UNCHANGED <<q, cap>>

Next ==
  \/ \E data \in Data : Fill(data) \/ Write(data) \/ WriteAll(data)
  \/ \E n \in 0..MaxCapacity : ReadSome(n) \/ ReadExact(n) \/ Consume(n) \/ Reserve(n)
  \/ Clear
  \/ Rearrange

vars == <<q, cap, ret>>

Spec == Init /\ [][Next]_vars
==============================================================================
