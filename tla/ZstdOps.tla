------------------------------- MODULE ZstdOps -------------------------------
(***************************************************************************)
(* databento::detail::ZstdDecodeStream as a value, and the streaming       *)
(* decompressor of libzstd as the stream uses it.                          *)
(*                                                                         *)
(* A unit of compressed input is a token [kind, out, last]: the bytes it   *)
(* decompresses to and whether it is the last of its frame.  A frame is a  *)
(* "magic" token, blocks, and a checksum (which decompresses to nothing)   *)
(* or not; a token of kind "plain" is input that is not compressed.  The   *)
(* stream is the record                                                    *)
(*                                                                         *)
(*   unread      in_buffer_ from z_in_buffer_.pos to z_in_buffer_.size     *)
(*   held        decompressed by libzstd, not yet copied out               *)
(*   suggestion  read_suggestion_, the tokens to read next; 0 at the end   *)
(*               of a frame                                                *)
(***************************************************************************)
EXTENDS Integers, Sequences, SequencesExt

Kinds == {"magic", "data", "corrupt", "plain"}
\* The tokens that decompress to members of B.
TokensOf(B) == [kind : Kinds, out : Seq(B), last : BOOLEAN]
Token(kind, out, last) == [kind |-> kind, out |-> out, last |-> last]

\* The byte of the last block that libzstd gives back to the caller while it still
\* holds output of the frame.
Hostage == Token("data", << >>, TRUE)

\* ZstdDecodeStream(input, in_buffer): the bytes read to detect the compression.
NewZstd(in_buffer) == [unread |-> in_buffer, held |-> << >>, suggestion |-> 1]

\* What tokens decompress to.
Out(tokens) == FlattenSeq([i \in 1..Len(tokens) |-> tokens[i].out])

\* A frame of the input, with more behind it, decompresses to nothing.
EmptyFrame(tokens) ==
  \E j \in 1..(Len(tokens) - 1) : \E i \in 1..j :
    (i = 1 \/ tokens[i - 1].last) /\ tokens[j].last /\ Out(SubSeq(tokens, i, j)) = << >>

Shorter(m, n) == IF m < n THEN m ELSE n

\* libzstd takes token t, unless it holds output or its frame or the input is at an end.
Feed(s, t, room) ==
  IF s.ended \/ s.error \/ s.held # << >>
    THEN [s EXCEPT !.unread = Append(@, t)]
    ELSE LET n == room - Len(s.out)
             fits == Len(t.out) <= n
         IN  [out |-> s.out \o SubSeq(t.out, 1, Shorter(n, Len(t.out))),
              held |-> SubSeq(t.out, n + 1, Len(t.out)),
              unread |-> IF t.last /\ ~fits THEN <<Hostage>> ELSE << >>,
              ended |-> t.last /\ fits,
              error |-> t.kind = "corrupt"]

\* ZSTD_decompressStream: what is held goes out first; a token is taken only when
\* nothing is held; the call ends with its input, its frame or a full output buffer.
ZSTD_decompressStream(held, in, room) ==
  LET start == [out |-> SubSeq(held, 1, Shorter(Len(held), room)),
                held |-> SubSeq(held, room + 1, Len(held)),
                unread |-> << >>, ended |-> FALSE, error |-> FALSE]
      fed[k \in 0..Len(in)] == IF k = 0 THEN start ELSE Feed(fed[k - 1], in[k], room)
  IN  fed[Len(in)]

\* Mutants: no output once the input has ended; input that was not taken is dropped;
\* the loop goes round until there is output.
ReadSomeStepEager(z, new, room) ==
  LET d == ZSTD_decompressStream(z.held, z.unread \o new, room)
      nothing == new = << >>
  IN  [z     |-> IF nothing THEN z
                 ELSE [unread |-> d.unread, held |-> d.held,
                       suggestion |-> IF d.ended THEN 0 ELSE 1],
       out   |-> IF nothing THEN << >> ELSE d.out,
       error |-> d.error, again |-> ~nothing /\ d.out = << >>]
ReadSomeStepDropping(z, new, room) ==
  LET d == ZSTD_decompressStream(z.held, z.unread \o new, room)
  IN  [z     |-> [unread |-> << >>, held |-> d.held, suggestion |-> IF d.ended THEN 0 ELSE 1],
       out   |-> d.out, error |-> d.error, again |-> d.out = << >> /\ new # << >>]
ReadSomeStepForever(z, new, room) ==
  LET d == ZSTD_decompressStream(z.held, z.unread \o new, room)
  IN  [z     |-> [unread |-> d.unread, held |-> d.held, suggestion |-> IF d.ended THEN 0 ELSE 1],
       out   |-> d.out, error |-> d.error, again |-> d.out = << >>]

\* One round of ReadSome's loop: new is what input_->ReadSome returned.  The loop goes
\* round again while there is input and no output.
ReadSomeStep(z, new, room) ==
  LET in == z.unread \o new
      d  == ZSTD_decompressStream(z.held, in, room)
      nothing == in = << >>
  IN  [z     |-> [unread |-> IF nothing THEN << >> ELSE d.unread,
                  held |-> IF nothing THEN z.held ELSE d.held,
                  suggestion |-> IF ~nothing /\ d.ended THEN 0 ELSE 1],
       out   |-> IF nothing THEN << >> ELSE d.out,
       error |-> ~nothing /\ d.error,
       again |-> ~nothing /\ d.out = << >> /\ new # << >>]
==============================================================================
