------------------------------ MODULE Timeseries ------------------------------
(***************************************************************************)
(* Historical::TimeseriesGetRange with callbacks and to a file: one        *)
(* streamed HTTP response, received in chunks of any size, that has an     *)
(* error status, breaks off or ends anywhere; HttpClient::PostRawStream,   *)
(* which tells the content of a good response from that of a bad one; and  *)
(* DbnBufferDecoder, which is pushed the chunks and calls the application. *)
(*                                                                         *)
(* Pieces and tokens are those of DbnDecoder and ZstdOps: [rec, off] is    *)
(* piece off of record rec, record 0 is the prelude and the metadata.      *)
(* zstd_buffer_, a Buffer, is the byte queue it implements (ByteFifo).     *)
(* Upgrades of records are those of DbnDecoder and are left out.           *)
(***************************************************************************)
EXTENDS BufferOps, ZstdOps, FiniteSets

CONSTANTS
  Responses,     \* [tokens, error, broken, readable]: the body that arrives, whether the
                 \* status is an error, whether the connection breaks behind the body,
                 \* whether the metadata can be decoded
  RecordLens,    \* the length of each record
  BufferSize,    \* initial capacity of dbn_buffer_
  MaxRecordLen,  \* kMaxRecordLen
  PreludeLen,    \* kMetadataPreludeSize
  MetadataLen    \* the size of the metadata in the prelude

HeaderLen == PreludeLen + MetadataLen
Magic == [rec |-> 0, off |-> 1]
Header == [k \in 1..HeaderLen |-> [rec |-> 0, off |-> k]]
PiecesOf(r) == [k \in 1..RecordLens[r] |-> [rec |-> r, off |-> k]]

\* What a response decompresses to before it is cut.
Whole == Header \o FlattenSeq([r \in 1..Len(RecordLens) |-> PiecesOf(r)])

\* What does not begin with the magic is anything.
ResponseOk(r) ==
  /\ r.tokens \in Seq(TokensOf([rec : Nat, off : Nat]))
  /\ r.error \in BOOLEAN /\ r.broken \in BOOLEAN /\ r.readable \in BOOLEAN
  /\ LET c == Out(r.tokens)
     IN  c # << >> /\ c[1] = Magic =>
           Len(c) <= Len(Whole) /\ \A i \in 1..Len(c) : c[i] = Whole[i]

ASSUME TimeseriesAssumption ==
  /\ PreludeLen \in Nat \ {0} /\ MetadataLen \in Nat \ {0} /\ BufferSize \in Nat
  /\ MaxRecordLen \in Nat \ {0} /\ BufferSize >= MaxRecordLen /\ BufferSize >= PreludeLen
  /\ Len(RecordLens) \in Nat /\ \A i \in 1..Len(RecordLens) : RecordLens[i] \in 1..MaxRecordLen
  /\ \A r \in Responses : ResponseOk(r)

VARIABLES
  response,   \* the response (constant)
  target,     \* "callbacks" or "file" (constant)
  body,       \* tokens still to arrive
  pc,         \* "request", "receiving", in Process "reading" or "decoding",
              \* "opening" (the store on the file), or "ended"
  err_body,   \* PostRawStream's err_body
  queue,      \* zstd_buffer_
  zstd,       \* zstd_stream_
  buf,        \* dbn_buffer_
  state,      \* state_
  out_file,   \* TimeseriesGetRangeToFile's file: [data, bad]
  outcome,    \* of the call: "none", "returned", "stopped", "threw", "callback threw",
              \* "store threw"
  warned,     \* a partial record was reported to the log
  \* history:
  given       \* the records the callback was given

constVars == <<response, target>>
decoderVars == <<queue, zstd, buf, state, given>>
vars == <<constVars, body, pc, err_body, decoderVars, out_file, outcome, warned>>

Init ==
  /\ response \in Responses /\ target \in {"callbacks", "file"}
  /\ body = response.tokens /\ pc = "request" /\ err_body = << >>
  /\ queue = << >> /\ zstd = NewZstd(<< >>) /\ buf = NewBuffer(BufferSize) /\ state = "Init"
  /\ out_file = [data |-> << >>, bad |-> FALSE]
  /\ outcome = "none" /\ warned = FALSE /\ given = << >>

EndCall(how) == pc' = "ended" /\ outcome' = how

-----------------------------------------------------------------------------
(* PostRawStream.                                                          *)

\* client_.send(req), up to MakeStreamResponseHandler's handler, which keeps the status.
Send ==
  /\ pc = "request"
  /\ \/ pc' = "receiving" /\ UNCHANGED outcome
     \/ response.broken /\ response.tokens = << >> /\ EndCall("threw")
  /\ UNCHANGED <<constVars, body, err_body, decoderVars, out_file, warned>>

Arrived(n) == SubSeq(body, 1, n)

\* Mutant: the content of an error response is passed on as well.
IsErrorStatusLater == FALSE

IsErrorStatus == response.error

ReceiveError(n) ==
  /\ IsErrorStatus
  /\ err_body' = err_body \o Arrived(n)
  /\ UNCHANGED <<pc, decoderVars, out_file>>

\* The start of Process(data, length).
ReceiveContent(n) ==
  /\ ~IsErrorStatus /\ target = "callbacks"
  /\ queue' = queue \o Arrived(n) /\ pc' = "reading"
  /\ UNCHANGED <<err_body, zstd, buf, state, given, out_file>>

\* OutFileStream::WriteAll: after a failed write the stream writes nothing, and nobody asks.
WriteToFile(n) ==
  /\ ~IsErrorStatus /\ target = "file"
  /\ \/ ~out_file.bad /\ out_file' = [out_file EXCEPT !.data = @ \o Arrived(n)]
     \/ out_file' = [out_file EXCEPT !.bad = TRUE]
  /\ UNCHANGED <<pc, err_body, decoderVars>>

Receive(n) ==
  /\ pc = "receiving" /\ n <= Len(body)
  /\ ReceiveError(n) \/ ReceiveContent(n) \/ WriteToFile(n)
  /\ body' = SubSeq(body, n + 1, Len(body))
  /\ UNCHANGED <<constVars, outcome, warned>>

\* Mutant: a connection that breaks is taken for the end.
CheckStatusIgnoringRes == IF IsErrorStatus THEN "threw" ELSE "returned"

\* CheckStatusAndStreamRes at the end of the response.
CheckStatusAndStreamRes == IF IsErrorStatus \/ response.broken THEN "threw" ELSE "returned"

\* The end of the response, and of the call: with callbacks, a warning about what is left;
\* to a file, only once a store is open on it.
ResponseEnds ==
  /\ pc = "receiving" /\ body = << >>
  /\ IF target = "file" /\ CheckStatusAndStreamRes = "returned"
       THEN pc' = "opening" /\ UNCHANGED outcome
       ELSE EndCall(CheckStatusAndStreamRes)
  /\ warned' = (/\ target = "callbacks" /\ CheckStatusAndStreamRes = "returned"
                /\ ReadCapacity(buf) > 0)
  /\ UNCHANGED <<constVars, body, err_body, decoderVars, out_file>>

\* Whether the file is Zstd, and the tokens that end the search for the magic in it.
DetectCompression == out_file.data # << >> /\ out_file.data[1].kind = "magic"
Tells(t) == t.out # << >> \/ t.kind = "corrupt"
Telling == SelectSeq(out_file.data, Tells)

\* The file is cut before its content; ReadExact gives up only where the bytes that
\* DetectCompression has read are a frame of their own.
NoContent == DetectCompression /\ Telling = << >>
GivesUp == Len(out_file.data) = 1 /\ out_file.data[1].last

\* DbnStore{..., file_path}: the constructor of its DbnDecoder, up to the magic.
OpenStore ==
  /\ pc = "opening"
  /\ \/ ~DetectCompression /\ EndCall("store threw")
     \/ /\ DetectCompression /\ Telling # << >>
        /\ EndCall(IF Telling[1].kind # "corrupt" /\ Telling[1].out[1] = Magic
                     THEN "returned" ELSE "store threw")
     \/ NoContent /\ GivesUp /\ EndCall("store threw")
  /\ UNCHANGED <<constVars, body, err_body, decoderVars, out_file, warned>>

\* Otherwise ReadExact goes round for ever.
StoreWaits == pc = "opening" /\ NoContent /\ ~GivesUp
OpenStoreLoops == StoreWaits /\ UNCHANGED vars

-----------------------------------------------------------------------------
(* DbnBufferDecoder::Process.                                              *)

\* Mutant: the buffer is never shifted.
NotShifted == buf

Shifted == ShiftForSpace(buf, MaxRecordLen)

\* A round of ReadSome's loop; with nothing read Process returns Continue.
ReadSome ==
  /\ pc = "reading"
  /\ \E r \in {ReadSomeStep(zstd, SubSeq(queue, 1, Shorter(1, Len(queue))),
                            WriteCapacity(Shifted))} :
       /\ zstd' = r.z
       /\ \/ r.error /\ EndCall("threw") /\ UNCHANGED buf
          \/ ~r.error /\ r.again /\ UNCHANGED <<buf, pc, outcome>>
          \/ /\ ~r.error /\ ~r.again /\ buf' = Fill(Shifted, r.out)
             /\ pc' = IF r.out = << >> THEN "receiving" ELSE "decoding"
             /\ UNCHANGED outcome
  /\ queue' = SubSeq(queue, 2, Len(queue))
  /\ UNCHANGED <<constVars, body, err_body, state, given, out_file, warned>>

ReadOn == pc' = "reading" /\ UNCHANGED <<buf, state, given, outcome>>

\* case Init, which falls through.
DecodePrelude ==
  /\ pc = "decoding" /\ state = "Init"
  /\ \/ ReadCapacity(buf) < PreludeLen /\ ReadOn
     \/ /\ ReadCapacity(buf) >= PreludeLen
        /\ buf.mem[buf.rd] # Magic
        /\ EndCall("threw") /\ UNCHANGED <<buf, state, given>>
     \/ /\ ReadCapacity(buf) >= PreludeLen
        /\ buf.mem[buf.rd] = Magic
        /\ buf' = Reserve(Consume(buf, PreludeLen), MetadataLen)
        /\ state' = "Metadata" /\ UNCHANGED <<pc, given, outcome>>
  /\ UNCHANGED <<constVars, body, err_body, queue, zstd, out_file, warned>>

\* case Metadata, which falls through; metadata_callback_ may throw.
DecodeMetadata ==
  /\ pc = "decoding" /\ state = "Metadata"
  /\ \/ ReadCapacity(buf) < MetadataLen /\ ReadOn
     \/ /\ ReadCapacity(buf) >= MetadataLen /\ ~response.readable
        /\ EndCall("threw") /\ UNCHANGED <<buf, state, given>>
     \/ /\ ReadCapacity(buf) >= MetadataLen /\ response.readable
        /\ buf' = Shift(Consume(buf, MetadataLen)) /\ UNCHANGED given
        /\ \/ state' = "Records" /\ UNCHANGED <<pc, outcome>>
           \/ EndCall("callback threw") /\ UNCHANGED state
  /\ UNCHANGED <<constVars, body, err_body, queue, zstd, out_file, warned>>

BytesNeeded == RecordLens[buf.mem[buf.rd].rec]
HasRecord == ReadCapacity(buf) > 0 /\ ReadCapacity(buf) >= BytesNeeded

\* case Records: record_callback_ returns Continue or Stop, or throws.  Stop cancels the
\* request, which CheckStatusAndStreamRes does not take for an error.
DecodeRecord ==
  /\ pc = "decoding" /\ state = "Records"
  /\ \/ ~HasRecord /\ ReadOn
     \/ /\ HasRecord /\ given' = Append(given, buf.mem[buf.rd].rec)
        /\ \/ buf' = Consume(buf, BytesNeeded) /\ UNCHANGED <<pc, outcome>>
           \/ EndCall("stopped") /\ UNCHANGED buf
           \/ EndCall("callback threw") /\ UNCHANGED buf
        /\ UNCHANGED state
  /\ UNCHANGED <<constVars, body, err_body, queue, zstd, out_file, warned>>

-----------------------------------------------------------------------------

Step ==
  \/ Send \/ \E n \in 1..Len(body) : Receive(n)
  \/ ResponseEnds \/ OpenStore \/ OpenStoreLoops
  \/ ReadSome \/ DecodePrelude \/ DecodeMetadata \/ DecodeRecord

Done == pc = "ended" /\ UNCHANGED vars

Next == Step \/ Done

Spec == Init /\ [][Next]_vars

\* The server ends its response (or the 100 s timeout of the client does) and the thread
\* of the call goes on.
FairSpec == Spec /\ WF_vars(Step)

-----------------------------------------------------------------------------

Content == Out(response.tokens)
WholeRecords ==
  {r \in 1..Len(RecordLens) :
     \E i \in 1..Len(Content) : Content[i] = [rec |-> r, off |-> RecordLens[r]]}
EndsWithFrame == response.tokens # << >> /\ Last(response.tokens).last
Uncorrupted == \A i \in 1..Len(response.tokens) : response.tokens[i].kind # "corrupt"

EmptyFrameInside == EmptyFrame(response.tokens)

Intact ==
  /\ ~response.error /\ ~response.broken /\ response.readable /\ Uncorrupted
  /\ Content # << >> => Content[1] = Magic

\* DbnBufferDecoder hands over a record stream, however the response was cut into chunks,
\* blocks and frames: metadata, each record once and in order, a return only when none
\* is left of a response that came to its end, an exception only for a broken one.
Phase ==
  CASE outcome = "threw" -> "failed"
    [] outcome = "returned" /\ state = "Records" -> "ended"
    [] OTHER -> IF state = "Records" THEN "records" ELSE "opened"
Stream == INSTANCE RecordStream WITH
  total <- Cardinality(WholeRecords), intact <- Intact,
  complete <- EndsWithFrame /\ Uncorrupted /\ ~EmptyFrameInside, phase <- Phase,
  given <- given
ImplementsRecordStream == Stream!Spec

\* A call that returns neither stopped nor warned about has passed on all of a response
\* that is neither an error nor broken off: every piece of it to the decoder and from
\* there to the application, or every byte of it to the file.  Four things go unnoticed:
\* a response that ends right behind the prelude, output that libzstd holds of a frame
\* that never ends, input behind a frame that decompresses to nothing, which Process takes
\* for the end of its chunk, and a failed write.
Handed ==
  CASE state = "Init" -> << >>
    [] state = "Metadata" -> SubSeq(Header, 1, PreludeLen)
    [] OTHER -> Header \o FlattenSeq([i \in 1..Len(given) |-> PiecesOf(given[i])])
ReturnedMeansAll ==
  (outcome = "returned" /\ ~warned) =>
    /\ ~response.error /\ ~response.broken
    /\ target = "callbacks" => (Handed = Content \/ ~EndsWithFrame \/ EmptyFrameInside)
    /\ target = "file" => (out_file.data = response.tokens \/ out_file.bad)

\* An error response calls back nobody, writes nothing and is thrown with its whole body.
ErrorBodyIsThrown ==
  response.error =>
    /\ state = "Init" /\ queue = << >> /\ out_file.data = << >>
    /\ pc = "ended" => outcome = "threw"
    /\ (pc = "ended" /\ body = << >>) => err_body = response.tokens

\* Every call comes to an end, but one to a file whose response is cut before its content:
\* the store's ReadExact waits for more at the end of the file, for ever.
CallEnds == <>(pc = "ended" \/ StoreWaits)
==============================================================================
