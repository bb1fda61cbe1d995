------------------------------ MODULE DbnDecoder ------------------------------
(***************************************************************************)
(* databento::DbnDecoder and the DbnStore around it: the detection of the  *)
(* compression, the metadata, the records and their upgrade to the version *)
(* asked for, over an input that is compressed or not, that a read returns *)
(* any part of and that ends anywhere.                                     *)
(*                                                                         *)
(* The unit of length is a piece: [rec, off] is piece off of record rec.   *)
(* "Record" 0 is the header: one piece of magic, one for the rest of the   *)
(* prelude and MetadataLen of metadata.  The input is a sequence of tokens *)
(* of ZstdOps; one of kind "plain" is a piece of an uncompressed input.    *)
(***************************************************************************)
EXTENDS BufferOps, ZstdOps, Versions, FiniteSets

CONSTANTS
  Sources,       \* inputs: [tokens, version, sized, wellformed]
  Records,       \* the records of an input before it is cut: [len, rtype]
  BufferSizes,   \* the capacities buffer_ may start with
  MaxRecordLen,  \* kMaxRecordLen
  MetadataLen    \* the size of the metadata in the prelude

HeaderLen == 2 + MetadataLen
Magic == [rec |-> 0, off |-> 1]
Header == [k \in 1..HeaderLen |-> [rec |-> 0, off |-> k]]
PiecesOf(r) == [k \in 1..Records[r].len |-> [rec |-> r, off |-> k]]

\* An input before it is cut.
Whole == Header \o FlattenSeq([r \in 1..Len(Records) |-> PiecesOf(r)])

\* An uncompressed input is read by the piece; a block comes behind the magic of its frame.
\* What does not begin with the magic is anything; the encoder writes no version 0, which
\* the decoder would accept.
SourceOk(s) ==
  /\ s.tokens \in Seq(TokensOf([rec : Nat, off : Nat]))
  /\ s.version \in Nat \ {0} /\ s.sized \in BOOLEAN /\ s.wellformed \in BOOLEAN
  /\ s.tokens # << >> /\ s.tokens[1].kind = "plain" =>
       \A i \in 1..Len(s.tokens) : Len(s.tokens[i].out) = 1
  /\ s.tokens # << >> => s.tokens[1].kind # "data"
  /\ LET c == Out(s.tokens)
     IN  c # << >> /\ c[1] = Magic =>
           Len(c) <= Len(Whole) /\ \A i \in 1..Len(c) : c[i] = Whole[i]

ASSUME DecoderAssumption ==
  /\ MaxRecordLen \in Nat \ {0} /\ MetadataLen \in Nat \ {0}
  /\ Len(Records) \in Nat /\ \A i \in 1..Len(Records) : Records[i].len \in 1..MaxRecordLen
  /\ \A s \in Sources : SourceOk(s)
  \* room for a record; and for the magic of a compressed input and the prelude
  /\ \A n \in BufferSizes : n \in Nat /\ n >= MaxRecordLen /\ n >= 3

VARIABLES
  source,        \* the input (constant)
  policy,        \* upgrade_policy_ (constant)
  capacity,      \* the initial capacity of buffer_ (constant)
  input,         \* tokens input_ has not returned
  zstd,          \* the ZstdDecodeStream around it, or NoZstd
  buf,           \* buffer_
  pc,            \* the read in progress, or where the object is between calls
  op,            \* the call in progress
  got,           \* what the ReadExact in progress has copied behind WriteBegin()
  version,       \* version_
  needs_upgrade, \* needs_upgrade_
  metadata,      \* version of the decoded metadata; 0 before
  \* history:
  delivered,     \* the records returned: [rec, layout]
  ended          \* DecodeRecord has returned nullptr

constVars == <<source, policy, capacity>>
readVars == <<input, zstd>>
metaVars == <<version, needs_upgrade, metadata>>
vars == <<constVars, readVars, buf, pc, op, got, metaVars, delivered, ended>>

NoZstd == [unread |-> << >>, held |-> << >>, suggestion |-> -1]
Exact == {"magic", "prelude", "metadata"}
AtRest == {"idle", "failed", "done"}

Init ==
  /\ source \in Sources /\ policy \in Policies /\ capacity \in BufferSizes
  /\ input = source.tokens /\ zstd = NoZstd
  /\ buf = NewBuffer(capacity)
  /\ pc = "detect" /\ op = "none" /\ got = << >>
  /\ version = 0 /\ needs_upgrade = TRUE /\ metadata = 0
  /\ delivered = << >> /\ ended = FALSE

-----------------------------------------------------------------------------
(* The constructor: DetectCompression.                                     *)

IsDbn == input # << >> /\ input[1].kind = "plain" /\ input[1].out = <<Magic>>
IsZstd == input # << >> /\ input[1].kind = "magic"

Throw == pc' = "failed" /\ op' = "none"

Detect ==
  /\ pc = "detect"
  /\ \/ /\ IsDbn
        /\ buf' = Fill(buf, input[1].out) /\ pc' = "idle" /\ UNCHANGED <<op, zstd>>
     \/ /\ IsZstd
        /\ zstd' = NewZstd(<<input[1]>>)
        /\ buf' = Consume(Fill(buf, <<Uninit>>), 1)
        /\ pc' = "magic" /\ UNCHANGED op
     \/ ~IsDbn /\ ~IsZstd /\ Throw /\ UNCHANGED <<buf, zstd>>
  /\ input' = SubSeq(input, 2, Len(input))
  /\ UNCHANGED <<constVars, got, metaVars, delivered, ended>>

-----------------------------------------------------------------------------
(* The calls.                                                              *)

\* DbnStore: "Only one API should be used on a given instance"; Replay "consumes the
\* input".  GetMetadata and NextRecord go through MaybeDecodeMetadata.
GetMetadata ==
  /\ pc = "idle" /\ metadata = 0
  /\ op' = "GetMetadata" /\ pc' = "prelude"
  /\ UNCHANGED <<constVars, readVars, buf, got, metaVars, delivered, ended>>

NextRecord ==
  /\ pc = "idle"
  /\ op' = "NextRecord" /\ pc' = IF metadata = 0 THEN "prelude" ELSE "record"
  /\ UNCHANGED <<constVars, readVars, buf, got, metaVars, delivered, ended>>

Replay ==
  /\ pc = "idle" /\ metadata = 0
  /\ op' = "Replay" /\ pc' = "prelude"
  /\ UNCHANGED <<constVars, readVars, buf, got, metaVars, delivered, ended>>

-----------------------------------------------------------------------------
(* DecodeMetadata and DecodeRecord.                                        *)

\* Mutant: the metadata is read into whatever room there is.
NoReserve(b) == b

\* Reserve(size) ahead of the read of the metadata.  It compares the size with the capacity,
\* not with the room behind what has been read of the header.
ReserveForMetadata(b) == Reserve(b, MetadataLen)

\* DecodeMetadataFields: a version from the future, or fields that do not parse.
DecodeMetadataFieldsThrows == version > kDbnVersion \/ ~source.wellformed

\* The rest of a read of the header, once ReadExact has all of it in data: the prefix
\* behind a compressed magic, DecodeMetadataVersionAndSize (a size below that of the fixed
\* fields throws), DecodeMetadataFields.  Metadata that does not fit behind the cursor has
\* been written past the end of buffer_: nothing is said of what comes after that.
HeaderRead(data) ==
  /\ got' = << >>
  /\ \/ /\ pc = "magic" /\ buf' = Fill(buf, data)
        /\ IF data = <<Magic>> THEN pc' = "idle" /\ UNCHANGED op ELSE Throw
        /\ UNCHANGED metaVars
     \/ /\ pc = "prelude" /\ ~source.sized
        /\ buf' = Fill(buf, data) /\ Throw /\ UNCHANGED metaVars
     \/ /\ pc = "prelude" /\ source.sized
        /\ buf' = ReserveForMetadata(Consume(Fill(buf, data), 2))
        /\ version' = source.version
        /\ needs_upgrade' = NeedsUpgrade(policy, source.version)
        /\ pc' = "metadata" /\ UNCHANGED <<op, metadata>>
     \/ /\ pc = "metadata" /\ WriteCapacity(buf) < MetadataLen
        /\ Throw /\ UNCHANGED <<buf, metaVars>>
     \/ /\ pc = "metadata" /\ WriteCapacity(buf) >= MetadataLen
        /\ DecodeMetadataFieldsThrows
        /\ buf' = Fill(buf, data) /\ Throw /\ UNCHANGED metaVars
     \/ /\ pc = "metadata" /\ WriteCapacity(buf) >= MetadataLen
        /\ ~DecodeMetadataFieldsThrows
        /\ buf' = Shift(Consume(Fill(buf, data), MetadataLen))
        /\ metadata' = MetadataUpgrade(version, policy)
        /\ \/ op = "GetMetadata" /\ pc' = "idle" /\ op' = "none"
           \/ op # "GetMetadata" /\ pc' = "record" /\ UNCHANGED op
        /\ UNCHANGED <<version, needs_upgrade>>
  /\ UNCHANGED <<delivered, ended>>

RecordLen(b) == Records[b.mem[b.rd].rec].len

HasRecord(b) == ReadCapacity(b) > 0 /\ ReadCapacity(b) >= RecordLen(b)

\* FillBuffer's ShiftForSpace, ahead of the read.
Shifted == ShiftForSpace(buf, MaxRecordLen)

\* DecodeRecord, once its record is in the buffer.
DecodeRecord ==
  /\ pc = "record" /\ HasRecord(buf)
  /\ LET rec == buf.mem[buf.rd].rec
         rtype == Records[rec].rtype
     IN  delivered' = Append(delivered,
           [rec |-> rec,
            layout |-> IF needs_upgrade THEN DecodeRecordCompat(version, policy, rtype)
                                        ELSE Layout(rtype, version)])
  /\ buf' = Consume(buf, RecordLen(buf))
  /\ IF op = "Replay" THEN pc' = "callback" /\ UNCHANGED op ELSE pc' = "idle" /\ op' = "none"
  /\ UNCHANGED <<constVars, readVars, got, metaVars, ended>>

\* Replay's record_callback: Continue, or Stop.
Callback ==
  /\ pc = "callback"
  /\ \/ pc' = "record" /\ UNCHANGED op
     \/ pc' = "done" /\ op' = "none"
  /\ UNCHANGED <<constVars, readVars, buf, got, metaVars, delivered, ended>>

\* FillBuffer returned data; at the end of the input a partial record stays behind and
\* DecodeRecord returns nullptr.
Filled(data) ==
  /\ buf' = Fill(Shifted, data)
  /\ \/ data # << >> /\ UNCHANGED <<pc, op, ended>>
     \/ /\ data = << >> /\ ended' = TRUE /\ op' = "none"
        /\ pc' = IF op = "Replay" THEN "done" ELSE "idle"
  /\ UNCHANGED <<got, metaVars, delivered>>

-----------------------------------------------------------------------------
(* Reads of an uncompressed input.                                         *)

Wanted == IF pc = "metadata" THEN MetadataLen - Len(got) ELSE 1
NeedsData == pc = "record" /\ ~HasRecord(buf)

\* What n tokens of an uncompressed input hold.
Plain(n) == [i \in 1..n |-> input[i].out[1]]

ReadExactPlain ==
  /\ zstd = NoZstd /\ pc \in Exact
  /\ \/ /\ Len(input) >= Wanted /\ HeaderRead(Plain(Wanted))
        /\ input' = SubSeq(input, Wanted + 1, Len(input))
     \/ /\ Len(input) < Wanted /\ Throw /\ input' = << >>
        /\ UNCHANGED <<buf, got, metaVars, delivered, ended>>
  /\ UNCHANGED <<constVars, zstd>>

\* A read returns some of what is left, nothing only at the end.
ReadSomePlain(n) ==
  /\ zstd = NoZstd /\ NeedsData
  /\ n <= Len(input) /\ n <= WriteCapacity(Shifted) /\ (n = 0 => input = << >>)
  /\ Filled(Plain(n)) /\ input' = SubSeq(input, n + 1, Len(input))
  /\ UNCHANGED <<constVars, zstd>>

-----------------------------------------------------------------------------
(* Reads through ZstdDecodeStream.                                         *)

NextTokens == SubSeq(input, 1, Shorter(1, Len(input)))
Room == IF pc \in Exact THEN Wanted ELSE WriteCapacity(Shifted)

\* A round of ReadSome's loop, and what its caller does with the result: FillBuffer, or
\* the loop of ReadExact, which goes on unless it has all it wants or a frame has ended.
ReadZstd ==
  /\ zstd # NoZstd /\ (pc \in Exact \/ NeedsData)
  /\ \E r \in {ReadSomeStep(zstd, NextTokens, Room)} :
        /\ zstd' = r.z
        /\ \/ /\ r.error /\ Throw
              /\ UNCHANGED <<buf, got, metaVars, delivered, ended>>
           \/ /\ ~r.error /\ r.again
              /\ UNCHANGED <<buf, pc, op, got, metaVars, delivered, ended>>
           \/ ~r.error /\ ~r.again /\ pc = "record" /\ Filled(r.out)
           \/ /\ ~r.error /\ ~r.again /\ pc \in Exact
              /\ \/ Len(r.out) = Wanted /\ HeaderRead(got \o r.out)
                 \/ /\ Len(r.out) < Wanted /\ r.z.suggestion # 0
                    /\ got' = got \o r.out
                    /\ UNCHANGED <<buf, pc, op, metaVars, delivered, ended>>
                 \/ /\ Len(r.out) < Wanted /\ r.z.suggestion = 0 /\ Throw
                    /\ UNCHANGED <<buf, got, metaVars, delivered, ended>>
  /\ input' = SubSeq(input, 2, Len(input))
  /\ UNCHANGED constVars

-----------------------------------------------------------------------------

Step ==
  \/ Detect \/ DecodeRecord \/ Callback
  \/ ReadExactPlain
  \/ \E n \in 0..Len(input) : ReadSomePlain(n)
  \/ ReadZstd

Call == GetMetadata \/ NextRecord \/ Replay

\* The object is done with: Replay has returned or a call has thrown.
Finished == pc \in {"done", "failed"} /\ UNCHANGED vars

Next == Step \/ Call \/ Finished

Spec == Init /\ [][Next]_vars

\* A call in progress goes on.
FairSpec == Spec /\ WF_vars(Step)

-----------------------------------------------------------------------------
(* The input as the application knows it.                                  *)

Content == Out(source.tokens)
Compressed == source.tokens # << >> /\ source.tokens[1].kind = "magic"
WholeRecords ==
  LET c == Content
  IN  {r \in 1..Len(Records) : \E i \in 1..Len(c) : c[i] = [rec |-> r, off |-> Records[r].len]}

\* A compressed input ends with a frame, and none ends inside the header.
EndsWithFrame == Compressed => Last(source.tokens).last
HeaderInFrame ==
  Compressed => \A i \in 1..Len(source.tokens) :
                  source.tokens[i].last => Len(Out(SubSeq(source.tokens, 1, i))) >= HeaderLen

Uncorrupted == \A i \in 1..Len(source.tokens) : source.tokens[i].kind # "corrupt"

\* The metadata fits into buffer_, but not behind the magic and the prelude, and behind the
\* magic of the compression.
NearCapacity ==
  MetadataLen <= capacity /\ capacity < MetadataLen + (IF Compressed THEN 3 ELSE 2)

\* VersionUpgradePolicy::UpgradeToV2: "Attempting to decode data from newer versions will
\* fail."
TooNew == policy = "UpgradeToV2" /\ source.version > 2

\* Nothing about the input justifies an exception.
Readable ==
  /\ Len(Content) >= HeaderLen /\ Content[1] = Magic /\ Uncorrupted
  /\ source.version <= kDbnVersion /\ source.sized /\ source.wellformed
  /\ HeaderInFrame /\ ~NearCapacity /\ ~TooNew

-----------------------------------------------------------------------------

\* Every piece of the input is in exactly one place: in the metadata or a record handed
\* over, in buffer_, copied by the ReadExact in progress, inside libzstd, in in_buffer_ or
\* not yet read, and in that order, across shifts, short reads, output held back and frame
\* ends.
Handed ==
  IF metadata # 0
    THEN Header \o FlattenSeq([i \in 1..Len(delivered) |-> PiecesOf(delivered[i].rec)])
    ELSE IF pc = "metadata" THEN SubSeq(Header, 1, 2) ELSE << >>
NothingLost ==
  pc # "failed" =>
    Handed \o Unread(buf) \o got \o zstd.held \o Out(zstd.unread) \o Out(input) = Content

\* ReadExact writes the metadata inside buffer_, grown when it is too small for it, unless
\* the metadata is within a few bytes of its capacity: Reserve then keeps the buffer and the
\* room left behind the cursor is too small.
MetadataFits == pc = "metadata" => WriteCapacity(buf) >= MetadataLen \/ NearCapacity

\* What enums.hpp says of UpgradeToV2: data of a newer version does not decode.
NewerVersionsFail == TooNew => metadata = 0 /\ delivered = << >>

\* A record has the layout its type has in the version the metadata reports: the table
\* of DecodeRecordCompat, NeedsUpgrade and Metadata::Upgrade agree.
LayoutMatchesMetadata ==
  \A i \in 1..Len(delivered) :
    delivered[i].layout = Layout(Records[delivered[i].rec].rtype, metadata)

\* DbnDecoder hands over a record stream: metadata, then each record once and in order,
\* nullptr only when none is left, an exception only for an input that is not readable
\* (cut in its header, corrupt, of a version from the future, not parsable), for one that
\* UpgradeToV2 should refuse, where either is taken, and for metadata near the capacity of
\* the buffer, where nothing is known.
\* A frame inside the input that decompresses to nothing can stop a read, so that nullptr
\* is then not the end.
Phase == IF pc = "failed" THEN "failed"
         ELSE IF ended /\ ~EmptyFrame(source.tokens) THEN "ended"
         ELSE IF metadata = 0 THEN "opened" ELSE "records"
Stream == INSTANCE RecordStream WITH
  total <- Cardinality(WholeRecords), intact <- Readable,
  complete <- EndsWithFrame /\ Uncorrupted, phase <- Phase,
  given <- [i \in 1..Len(delivered) |-> delivered[i].rec]
ImplementsRecordStream == Stream!Spec

\* The constructor, GetMetadata, NextRecord and Replay come to an end on every input,
\* unless a ReadExact of the header finds a compressed one at its end, which it never
\* notices.
Starved == zstd # NoZstd /\ pc \in Exact /\ input = << >> /\ zstd.unread = << >>
CallsEndUnlessStarved == pc \notin AtRest ~> pc \in AtRest \/ Starved
==============================================================================
