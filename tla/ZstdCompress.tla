----------------------------- MODULE ZstdCompress -----------------------------
(***************************************************************************)
(* databento::detail::ZstdCompressStream: WriteAll, Flush and the          *)
(* destructor, over libzstd's streaming compressor.                        *)
(*                                                                         *)
(* A byte is [id, cost]: cost is what it adds to the compressed size, 0    *)
(* where the data compresses well.  in_buffer_ is its memory, including    *)
(* what a resize leaves behind its size, because z_in_buffer_ keeps        *)
(* pointing there.                                                         *)
(***************************************************************************)
EXTENDS Naturals, Sequences, SequencesExt

CONSTANTS
  InSize,    \* in_size_, ZSTD_CStreamInSize()
  OutSize,   \* out_buffer_.size(), ZSTD_CStreamOutSize()
  Writes,    \* the sequences of bytes a caller may write
  MaxCalls   \* bound on the calls of WriteAll and Flush

ZcByte == [id : Nat, cost : Nat]
ASSUME ZcAssumption == InSize \in Nat /\ OutSize \in Nat /\ \A w \in Writes : w \in Seq(ZcByte)

VARIABLES
  mem,       \* the memory of in_buffer_
  in_size,   \* in_buffer_.size()
  z_in,      \* z_in_buffer_: [size, pos]
  frame,     \* what libzstd has taken of the current frame
  owed,      \* compressed bytes libzstd has not put out
  sent,      \* the content of the frames forwarded to output_
  flushing,  \* where Flush is: "no", "yes", "last" (from the destructor), "gone"
  \* history:
  written,   \* all bytes written
  calls,     \* number of calls
  failed,    \* libzstd reported an error or output_ threw
  lost       \* Flush has read input that shifting the unread part had overwritten

zcVars == <<mem, in_size, z_in, frame, owed, sent, flushing, written, calls, failed, lost>>

Cost(bytes) == FoldLeft(LAMBDA n, b : n + b.cost, 0, bytes)
InBuffer == SubSeq(mem, 1, in_size)
Pending == SubSeq(mem, z_in.pos + 1, z_in.size)

ZcInit ==
  /\ mem = << >> /\ in_size = 0 /\ z_in = [size |-> 0, pos |-> 0]
  /\ frame = << >> /\ owed = 0 /\ sent = << >> /\ flushing = "no"
  /\ written = << >> /\ calls = 0 /\ failed = FALSE /\ lost = FALSE

\* Below in_size_ the data waits.
WriteWaits(data) ==
  LET all == InBuffer \o data
  IN  /\ Len(all) < InSize
      /\ mem' = all /\ in_size' = Len(all) /\ z_in' = [size |-> Len(all), pos |-> 0]
      /\ UNCHANGED <<frame, owed, failed>>

\* Mutant: the unread input is dropped instead of moved to the front.
ShiftedLost(all, pos) == all

\* "Shift unread input to front": the bytes from pos on are copied down, the others stay.
Shifted(all, pos) ==
  [i \in 1..Len(all) |-> IF i <= Len(all) - pos THEN all[i + pos] ELSE all[i]]

\* ZSTD_compressStream2 with ZSTD_e_continue: it takes all of its input, or as much as
\* fills the output buffer, and puts out what it likes; what is put out goes to output_,
\* which may throw.
WriteCompresses(data, pos, out) ==
  LET all == InBuffer \o data
      produced == owed + Cost(SubSeq(all, 1, pos))
  IN  /\ Len(all) >= InSize
      /\ pos <= Len(all) /\ out <= OutSize /\ out <= produced
      /\ pos < Len(all) => out = OutSize
      /\ mem' = Shifted(all, pos) /\ in_size' = Len(all) - pos
      /\ z_in' = [size |-> Len(all), pos |-> pos]
      /\ frame' = frame \o SubSeq(all, 1, pos) /\ owed' = produced - out
      /\ failed' = failed \/ (out > 0 /\ failed' = TRUE)

\* libzstd reports an error, having taken any part of its input: in_buffer_ keeps it all.
WriteThrows(data, pos) ==
  LET all == InBuffer \o data
  IN  /\ Len(all) >= InSize
      /\ mem' = all /\ in_size' = Len(all) /\ z_in' = [size |-> Len(all), pos |-> pos]
      /\ frame' = frame \o SubSeq(all, 1, pos) /\ failed' = TRUE
      /\ UNCHANGED owed

\* Bound: a caller stops where a call has failed, for then nothing is promised to it; the
\* destructor still flushes.
MayCall == flushing = "no" /\ calls < MaxCalls /\ ~failed

ZcWriteAll(data) ==
  /\ MayCall
  /\ calls' = calls + 1 /\ written' = written \o data
  /\ \/ WriteWaits(data)
     \/ \E pos \in 0..(in_size + Len(data)) :
          WriteThrows(data, pos) \/ \E out \in 0..OutSize : WriteCompresses(data, pos, out)
  /\ UNCHANGED <<sent, flushing, lost>>

-----------------------------------------------------------------------------

Flush ==
  /\ flushing = "no"
  /\ \/ MayCall /\ flushing' = "yes" /\ calls' = calls + 1
     \/ flushing' = "last" /\ UNCHANGED calls
  /\ UNCHANGED <<mem, in_size, z_in, frame, owed, sent, written, failed, lost>>

\* What ZSTD_e_end has to put out: what is owed, the rest and the end of the frame.
Remaining == owed + Cost(Pending) + 1

\* The loop of Flush never empties z_out_buffer: it goes round for ever when the rest
\* does not fit.
FlushLoops ==
  /\ flushing \in {"yes", "last"} /\ Remaining > OutSize
  /\ UNCHANGED zcVars

FlushReturns == flushing' = IF flushing = "yes" THEN "no" ELSE "gone"

FlushEnds ==
  /\ flushing \in {"yes", "last"} /\ Remaining <= OutSize /\ FlushReturns
  /\ sent' = Append(sent, frame \o Pending) /\ frame' = << >> /\ owed' = 0
  /\ mem' = << >> /\ in_size' = 0 /\ z_in' = [size |-> 0, pos |-> 0]
  /\ lost' = (lost \/ Pending # InBuffer)
  /\ UNCHANGED <<written, calls, failed>>

\* libzstd reports an error, which is logged: the input is cleared all the same.
FlushGivesUp ==
  /\ flushing \in {"yes", "last"} /\ FlushReturns /\ failed' = TRUE
  /\ sent' = Append(sent, frame) /\ frame' = << >> /\ owed' = 0
  /\ mem' = << >> /\ in_size' = 0 /\ z_in' = [size |-> 0, pos |-> 0]
  /\ UNCHANGED <<written, calls, lost>>

\* output_ throws: the input, which libzstd has taken, is not cleared.  From the destructor
\* the exception ends the program.
FlushThrows ==
  /\ flushing \in {"yes", "last"} /\ Remaining <= OutSize /\ FlushReturns /\ failed' = TRUE
  /\ frame' = << >> /\ owed' = 0 /\ z_in' = [z_in EXCEPT !.pos = z_in.size]
  /\ UNCHANGED <<mem, in_size, sent, written, calls, lost>>

ZcNext ==
  \/ \E data \in Writes : ZcWriteAll(data)
  \/ Flush \/ FlushLoops \/ FlushEnds \/ FlushGivesUp \/ FlushThrows

ZcSpec == ZcInit /\ [][ZcNext]_zcVars

-----------------------------------------------------------------------------

\* Once Flush has returned, the frames decompress to every byte written, in order and
\* once, however the writes were split, deferred or taken in part by libzstd; unless
\* Flush came right behind a WriteAll whose shift had overwritten unread input, or an error
\* was thrown or, from Flush, logged.
FlushedReadsBack ==
  (flushing = "gone" \/ (flushing = "no" /\ in_size = 0 /\ frame = << >> /\ z_in.size = 0))
    => FlattenSeq(sent) = written \/ lost \/ failed
==============================================================================
