# Verification of databento-cpp

TLA+ models of the parts of databento-cpp where order, time and failure matter: the
live client (threads, session, handshake, subscriptions, connection), the byte buffer under
every decoder, the decoders of files and of streamed responses with their decompression,
the encoders, the batch download, the symbol maps, and the tables and upgrades that must
agree with each other. TLC checks them on small instances; TLAPS proves the buffer, the
threaded client, the live session with its handshake, subscriptions and connection, the batch
download, the file decoder, the streamed response, the compressing stream and the symbol maps
for every value of their constants.

`PROJECT.json` lists the components, runs, mutants, findings, hazards and theorems,
and maps every definition that models code to its lines.

## 1. Inventory

| Component | State | Operations | Talks to | What is hard | Correct when |
|---|---|---|---|---|---|
| `detail::Buffer` | allocation, read and write cursor | Write, WriteAll, ReadSome, ReadExact, Fill, Consume, Shift, ShiftForSpace, Reserve, Clear | every decoder, directly through its cursors | long call sequences, growth, a full buffer | it is a byte queue; no uninitialised byte is read |
| `LiveThreaded` | `keep_going`, `last_cb_ret` with mutex and condition variable, `thread_id_`, the thread | Start, BlockForStop (2), Reconnect, Resubscribe, move, destructor; the callbacks run on the processing thread | `LiveBlocking`, the application's threads | interleavings, lost wakeups, joins, restarts, exceptions from callbacks | waiters learn of a stop; nothing runs after it; metadata precedes records |
| `LiveBlocking`: authentication | deadline, buffer, session id | Authenticate, DecodeChallenge, DecodeAuthResp | gateway over `LiveConnection` | splits, silence, close, deadline arithmetic | it ends in time; accepted means accepted; bytes behind the response survive |
| `LiveBlocking`: subscriptions | `sub_counter_`, `subscriptions_` | Subscribe (4), SubscribeWithSnapshot, Resubscribe, Reconnect | gateway | writes failing between chunks, reconnects, id exhaustion | gateway and client agree; no replay on Resubscribe |
| `LiveBlocking`: session | buffer, `last_read_time_`, `current_record_`, connection | Start, NextRecord (2), TryNextRecord, FillBuffer (2), Stop, Reconnect | gateway, `Buffer`, `DbnDecoder` | splits, timeouts in mid-record, heartbeat, close behind data | records once, in order, whole; errors mean what they say; calls return |
| Batch download | file on disk, running hash, retry count | BatchDownload (2): CheckIfFileExists, DownloadFile, VerifyHash | HTTP server, file system | retry and resume, crashes, error bodies, full disk | files only grow towards their content; verified means intact |
| `TcpClient` | socket | connect with retries, WriteAll, ReadExact, ReadSome, Close | kernel | timeouts, EINTR, backoff | a call honours its timeout |
| `LiveConnection`, `ZstdDecodeStream` | inner reader, held input | SetCompression, ReadSome, ReadExact | `TcpClient` | held output, truncated frames, a silent gateway, replacement | the session arrives byte for byte; a close is reported last |
| `DbnDecoder`, `DbnBufferDecoder` | buffer, version, compat buffer | DecodeMetadata, DecodeRecord, Process | any `IReadable` | input ending anywhere, incremental input, upgrades | the records of the input, each once |
| `DbnStore` | `has_decoded_metadata_` | Replay, GetMetadata, NextRecord | `DbnDecoder` | call order | metadata is decoded once |
| `DbnEncoder`, `ZstdCompressStream` | input waiting to be compressed | EncodeMetadata, EncodeRecord; WriteAll, Flush | any `IWritable` | lengths computed apart from what is written; input taken in part | what is written reads back |
| Symbol maps | a map | construction from metadata, OnRecord, operator[] | metadata, live records | interval boundaries, old formats, record sizes | the maps of one metadata agree |
| `Historical`, `HttpClient` | none | one request each; streamed responses | HTTP server, `DbnBufferDecoder`, files | error bodies, broken responses, chunks cut anywhere, callbacks that stop or throw | all records or an error |
| Records, versions, enums, publishers | none | Upgrade, ToString, FromString, tables | decoders | positional initialisers, tables kept by hand | fields survive; tables agree |
| Formatting, flags, dates, builder | none | conversions | - | - | - |

The interactions: `LiveThreaded` owns a `LiveBlocking` that only its processing thread
may use while it runs; `LiveBlocking` reads through `LiveConnection` into a `Buffer` and
hands out records that point into it; the application's threads share only
`last_cb_ret` and `keep_going` with the processing thread.

## 2. Modules

Pointers become offsets, bytes become tokens, time becomes ticks; control flow, guards,
early returns and the order of assignments are kept.

| Module | Models | Notes |
|---|---|---|
| `BufferOps` | each method of `Buffer` as an operator on a value `[cap, rd, wr, mem]` | used by `Buffer`, `LiveBlocking`, `DbnDecoder` and `Timeseries` |
| `Buffer` | a buffer whose callers call anything, keeping the two unchecked preconditions of Fill and Consume | refines `ByteFifo` |
| `ByteFifo` | the promise: a byte queue with a capacity | abstract |
| `Data_proofs` | proofs about `Buffer`, `ZstdCompress`, `SymbolMaps` and `Files` | |
| `StreamLemmas` | lemmas every proof about streams needs: induction, concatenation, the methods of `BufferOps`, the decompressor of `ZstdOps`, an input made of a header and parts | no state |
| `LiveThreaded` | ProcessingThread, ExceptionHandler, NotifyOfStop, BlockForStop, destructor, move assignment | one action per point where another thread can intervene |
| `LiveThreaded_proofs` | proofs about `LiveThreaded` | |
| `LiveAuth` | Authenticate with DecodeChallenge and DecodeAuthResp, and the `poll()` under them | a `key=value` pair is one token |
| `LiveSubscriptions` | Subscribe, Resubscribe, the subscription part of Reconnect and Stop, write failures | |
| `LiveBlocking_proofs` | proofs about `LiveBlocking`, `LiveSubscriptions` and `LiveAuth` | |
| `LiveBlocking` | Start, the reading calls, heartbeat, Stop, Reconnect, composed with `LiveSubscriptions` and `BufferOps` | the unit of length is a piece of a record |
| `BatchDownload` | BatchDownload, DownloadFile, CheckIfFileExists, VerifyHash, GetRawStream, OutFileStream, crashes | a digest is the bytes it was computed from |
| `BatchDownload_proofs` | proofs about `BatchDownload` | |
| `ZstdOps` | `ZstdDecodeStream` as a value, over what libzstd promises a streaming caller | a token is a block, a checksum or a frame header |
| `DbnDecoder` | the constructor with DetectCompression, DecodeMetadata, DecodeRecord, DecodeRecordCompat, and `DbnStore` on top, composed with `BufferOps` and `ZstdOps` | refines `RecordStream` |
| `DbnDecoder_proofs` | proofs about `DbnDecoder` | |
| `RecordStream` | the promise of a reader: metadata, each record once and in order, then the end | abstract |
| `Versions` | the layout of a record type per version; NeedsUpgrade, DecodeRecordCompat, Metadata::Upgrade | the decision, taken in three places of the code |
| `LiveConnection` | `TcpClient`'s connect loop and timed reads, SetCompression, reads through `ZstdOps`, Start and Reconnect as far as they touch the connection | the client's `Buffer` is the byte queue it implements |
| `LiveConnection_proofs` | proofs about `LiveConnection` | |
| `Timeseries` | TimeseriesGetRange with callbacks and to a file, PostRawStream, `DbnBufferDecoder` | refines `RecordStream` |
| `Timeseries_proofs` | proofs about `Timeseries` | |
| `Publishers`, `Enums` | the generated tables of `publishers.cpp` and `enums.cpp`, as functions | one definition per function, split where the table is long |
| `Records` | the fields of the versioned records, their Upgrade functions, sizes, schema tables | a struct is the list of its fields in order, an initialiser the list of what it is given |
| `MetadataCodec` | DbnEncoder::EncodeMetadata, CalcLength and DbnDecoder::DecodeMetadataFields | a file is a sequence of `[val, len]`: reading with another length gives `Garbled` |
| `ZstdCompress` | `ZstdCompressStream` over libzstd's compressor | keeps the memory behind `in_buffer_`'s size, which `z_in_buffer_` still points into |
| `SymbolMaps` | `TsSymbolMap`, `PitSymbolMap`, SymbologyResolution::CreateSymbolMap | |
| `Files` | a file of metadata and records, written by DbnEncoder and read by DbnDecoder again and again, composed of `MetadataCodec` and `Records` | |
| `Codec` | one conversion at a time: the tables, `Files`, `ZstdCompress` and `SymbolMaps`, or a `Buffer` and its callers | |
| `MC*` | constants for TLC | |

How state and actions correspond to the code:

- **LiveThreaded.** `pc` is the processing thread's place in `ProcessingThread`, with a
  state for each callback and each step of `NotifyOfStop`; `waiter[w]` is a thread's
  place in `BlockForStop`, where the wait of a condition variable is check, enqueue
  (still locked) and wait; `session` is what the calls on `blocking` leave of the
  connection. `callbacks` are the optional ones given to Start.
  Callbacks return, throw, reconnect, or call `Start` again, as they like.
  Exceptions that escape the exception callback end the process.
- **LiveAuth.** `left` is the time to the deadline, `wait` the time until the pending
  `poll()` gives up, and `PollFor` is the rule of `TcpClient::ReadSome` that 0 means no
  timeout. The gateway sends its lines in pieces of any size at any time, may be silent
  and may close.
- **LiveSubscriptions.** `received` is what reached the gateway on this connection.
  A write may succeed and be lost: `send()` takes the bytes for a gateway that has just
  closed. `mirrored` (history) says that no write has failed or been lost on it and, after a
  Reconnect, that Resubscribe has run, which asks again for a subscription that was lost.
  `caught_up` (history) says that no subscription recorded before this connection awaits
  Resubscribe. `in_order` (history) says that the application has never subscribed between
  Reconnect and Resubscribe; ids agree only as long as it holds.
- **LiveBlocking.** `buf` is the buffer, `wire` what has arrived and is unread,
  `silence` is now - `last_read_time_`. A reading call is a sequence of steps (`call`),
  one per `poll()`, so the gateway and the clock interleave with it. The buffer is never
  smaller than `kMaxRecordLen`; metadata may be of any length. `Reserve` compares with the
  capacity and not with the room behind the authentication response and the prelude, so
  metadata that only just fits the buffer is read past its end: `StartOverruns`, behind
  which nothing is claimed.
- **BatchDownload.** `disk` maps files to their bytes; `unflushed` is how much of the
  current file a crash can lose; the server may fail a request at any byte, answer with
  an error status, or (by `MayIgnoreRange`) ignore the Range header; a write may fail
  (by `DiskMayFail`). `foreign` and `short` (history) are the files that this, or
  foreign bytes on disk, spoils; the properties say what still holds of the others.
- **DbnDecoder.** `source` is the input, `input` what is left of it; a piece of content
  travels from there through `zstd.unread` (`in_buffer_`), `zstd.held` (inside libzstd)
  and `got` (a ReadExact in progress) to `buf`. `pc` names the read in progress; each
  read of the input is a step. Content is decompressed as libzstd does it for a
  streaming caller: what is held goes out first, a block is decompressed only when
  nothing is held, and the last byte of a frame is given back to the caller while output
  of the frame is held. Of a record only its length, type and the version of its layout
  are kept; of the metadata, the version, whether the length in the prelude is large enough
  (`sized`, tested before the metadata is read) and whether its fields parse
  (`wellformed`, found out behind the read). Metadata of any length is read; where Reserve
  leaves too little room (`NearCapacity`) the read overruns the buffer and the call fails.
- **LiveConnection.** `pc` is what the client's thread does: connecting, polling or
  sleeping in InitSocket, authenticating, reading the header in Start, in a timed read, or
  idle; "short", "rejected" and "garbled" are the exceptions of ReadExact, Authenticate and
  libzstd. `poll` is the time left of the poll or sleep, `deadline` PollForConnect's. `old` is
  where the client stood when it called Reconnect: the connection, its stream and the buffer
  stay until the new `LiveConnection` is constructed, so that after a constructor that throws
  (`ReconnectThrows`) the application is back on the old one. Start reads the prelude and the
  metadata with a ReadExact each (`Wanted`). Each
  round of ZstdDecodeStream's loop is a step, so the gateway, the clock and signals come in
  between.
- **Timeseries.** A response is a sequence of tokens with a status, possibly broken off;
  `Receive` takes any number of tokens. `queue` is `zstd_buffer_`, `buf` `dbn_buffer_`,
  `state` `state_`; each `case` of Process is an action, and the fallthrough is the next
  one being enabled. The callback stops, throws or goes on; the file fails at any write.
  Behind a response to a file comes the `DbnStore` on it (`OpenStore`), whose constructor
  throws on a file it cannot make out and does not return on a compressed one without
  content (`OpenStoreLoops`).
- **ZstdCompress.** libzstd takes any part of the input and puts out any part of what it
  owes. It may fail in WriteAll, which throws (`WriteThrows`), and in Flush, which logs and
  goes on (`FlushGivesUp`); the output may throw in both. `failed` (history) records it;
  by `MayCall` the caller stops there, and the destructor flushes all the same.
- **Codec.** `job` says what is converted. A text job prints and parses an enumerator; a
  file job is `Files`: it encodes and decodes metadata with a record of an older version, any
  number of rounds, each with a policy of its choice; a stream job is `ZstdCompress`, a
  symbols job `SymbolMaps`, a buffer job `Buffer` under any calls. The publisher and schema jobs have no steps, only a table to agree with.

## 3. Runs

Passing runs:

| Run | Checks | Distinct states, and the instance |
|---|---|---|
| `LiveThreaded` | NoLostWakeup, MetadataBeforeRecords, NoUseAfterStop; StopReachesWaiters, DestroyCompletes | 16 956; two waiting threads, one with a timeout, contend with the notifier and each other; all choices of optional callbacks |
| `LiveAuth` | AuthenticatedMeansAccepted, KeepsBytesAfterResponse; AuthEndsButForTwoCases | 9 509; nine responses, three challenges, every split, silence and close at every point; a clock of half milliseconds, so that a timeout truncates to 0 |
| `LiveSubscriptions` | GatewayMirrorsClient, IdsAgree, ResubscribeDropsStarts | 520 696; lists below, at and above one and two chunks; ids up to 3, so they are exhausted; writes fail or are lost at every message |
| `LiveBlocking` | RecordsInOrder, MetadataFits, OnlyClosedWhenDrained, HeartbeatMeansSilence; CallsReturn | 470 789; two records of 3 and metadata of 4, in a buffer of 6, the least that holds it, and in one of 3, which Start grows to 4: records straddle the end of both, and after a Reconnect the grown buffer has exactly the metadata's size |
| `LiveConnection` | DecodesSession, ClosedMeansDrained, ConnectTriesAll; CallsEnd | 395 519; two addresses, one, three or four attempts, capped backoff and none, plain sessions and sessions of one and two frames with blocks larger than the buffer, an empty frame inside, a header in two frames, two connections and reconnects that fail |
| `BatchDownload` | PrefixesOnly, ReturnedComplete, VerifiedIntact; CallEnds | 34 591; two files, one without a supported hash, all prefixes and some foreign bytes on disk, three attempts, any number of calls and crashes |
| `DbnDecoder` | NothingLost, MetadataFits, LayoutMatchesMetadata, refinement of `RecordStream`; CallsEndUnlessStarved | 108 870; three records behind metadata of 4, uncompressed, in one frame of up to three blocks, in two frames or in three with an empty one inside, with and without checksum, cut or corrupt behind every token; versions 1 to 4 and all policies; a buffer of 3, which grows, of 6, exactly enough behind the prelude of an uncompressed input and one too few behind that of a compressed one, and of 7, enough for both |
| `Timeseries` | ReturnedMeansAll, ErrorBodyIsThrown, refinement of `RecordStream`; CallEnds | 20 659; four records in one and two frames, and in two with an empty one between them, cut, corrupt, broken off, with an error status or unreadable metadata, in chunks of every size; files that are empty, unrecognisable or without content |
| `Codec` | TablesAgree, MetadataReadsBack, UpgradesKeepRecords, UnreadIsInitialised, FlushedReadsBack, SymbolMapsAgree, refinement of `ByteFifo` by `Buffer` | 78 721; the whole tables; metadata of versions 0 to 4 with and without optional fields, symbols at, below and above the limit; every changed record type, version and ts_out; four writes or flushes with buffers of 3, with errors at any of them; mappings that overlap, are empty, inverse or malformed, four dates; a buffer of 3 growing to 5, writes of up to 2 of 2 byte values: grown, shifted, full and wrapped layouts all occur |

Runs that show a disagreement between the code and what the repository says of it
(details in `PROJECT.json`, "findings"):

| Run | What TLC shows |
|---|---|
| `LiveThreadedStartStop` | Stop for an exception of the Start loop never wakes `BlockForStop()` |
| `BatchDownloadRetry` | a retry after the last byte skips the checksum |
| `DbnDecoderNewer` | version 3 data decodes under `UpgradeToV2`, which `enums.hpp:651` says fails |

Where a property of a passing run has an exception, the exception is what the code does
and the comment on the property says so:

- `AuthEndsButForTwoCases`: a gateway that closes behind its greeting leaves
  DecodeChallenge reading for ever, since the test for a closed socket looks at the buffer,
  which the greeting keeps non-empty; a read entered with less than a millisecond left gets
  a timeout of 0, which means none.
- `CallsEndUnlessStarved`, the third part of `CallsEnd`, and `CallEnds` of `Timeseries`
  (`StoreWaits`): ReadExact of a compressed
  input that ends inside the header goes round for ever, although the comment at
  `zstd_stream.cpp:34` announces a check; opening such a file, the
  `DbnStore` of TimeseriesGetRangeToFile on a file without content, or Start on a compressed
  session that the gateway closes, does not return.
- `MetadataFits` of `DbnDecoder` and of `LiveBlocking` (`NearCapacity`): metadata that fits
  the buffer but not the room behind what was read before it. Reserve keeps such a buffer and
  ReadExact writes past its end. In `LiveBlocking` this includes a second session with the
  same metadata on a buffer that the first has grown to exactly its size.
- `CallsEnd`: a signal restarts the whole timeout of a read, but not of a connect.
- `VerifiedIntact` (`short`), `ReturnedMeansAll` (`bad`): a failed write goes unnoticed;
  BatchDownload has hashed the bytes and calls the truncated file verified.
- `ReturnedMeansAll`: a response that ends right behind the prelude leaves no unread bytes
  to warn about, and a response cut inside a frame may leave its output inside libzstd.
  Here and in `ImplementsRecordStream` of `Timeseries` (`EmptyFrameInside`): ReadSome returns
  0 for a frame that decompresses to nothing, which Process takes for the end of the chunk,
  so what is behind it waits for the next chunk and is lost if there is none.
- `ClosedMeansDrained`: the held output of a frame that the gateway did not finish is lost;
  and what is behind a frame that decompresses to nothing may be left unread, since ReadSome
  takes a round without output for the end of its input.
- `AuthenticatedMeansAccepted`: DecodeAuthResp does not see the last pair of a response that
  ends with a separator.
- `ConnectTriesAll`: the first backoff of one second ignores `max_wait`.
- `TablesAgree`: `SType::Smart` and `RType::OhlcvDeprecated` print as "Unknown";
  RTypeFromSchema throws for `Tcbbo`; SizeOfSchema throws for eight schemas, `OhlcvEod`,
  `Status`, `Bbo1S`, `Bbo1M`, `Cmbp1`, `Cbbo1S`, `Cbbo1M` and `Tcbbo`. The property names
  them and holds for every other, so that a row that is dropped, or added, is noticed.
- `MetadataReadsBack`: version 1 files are read with symbols of 22 bytes, whatever
  `symbol_cstr_len` they were written with.
- `FlushedReadsBack` (`lost`): a Flush right behind a WriteAll of which libzstd took only a
  part reads the input from where it was before the shift. (`failed`): an error that WriteAll
  threw or Flush logged leaves frames that are not complete. And Flush loops for ever when
  the end of the frame does not fit its output buffer (`FlushLoops`).
- `SymbolMapsAgree`: overlapping intervals of one mapping are resolved differently by the
  two maps, CreateSymbolMap does not skip empty symbols as they do, and operator[] adds an
  empty symbol for an unknown instrument.
- `ImplementsRecordStream` of `DbnDecoder` (`HeaderInFrame`): metadata that continues in a
  second zstd frame is refused. (`TooNew`): data newer than version 2 under `UpgradeToV2` may
  decode, as it does, or fail, as `enums.hpp` says. (`NearCapacity`): where the metadata is
  read past the buffer's end nothing is claimed. (`Phase`): behind an empty frame inside the input, nullptr is
  not the end.

Smaller disagreements met on the way are recorded as notes of the hazards:
`metadata_callback` runs once per session, not "exactly once"; the authentication
timeout and the timeout of NextRecord are those of one read, not of the call; the
session id of a response that ends in a separator is not parsed. Three hazards are
covered in part or not at all, because the code gives no bound or reports success: by how
much a call outlasts its timeout (`live_blocking.cpp:308`), reads under periodic signals
(`tcp_client.cpp:221`) and a file with a failed write (`file_stream.cpp:57`), of which only
`PrefixesOnly` speaks.

**Bounds.** Named where they are declared (`MaxCapacity`, `MaxWrite`, `MaxLate`,
`MaxSubs`, `MaxMessages`, `MaxRecords`, `MaxConnections`, `MaxCalls`). Two records or subscriptions are enough for
order, and for one to be complete while the next is partial; the smallest buffers hold
just the largest record, the tightest size the code permits, and the others are at the limits
of the room for the metadata; clocks saturate one tick above the largest value they are compared with. `BatchDownload` needs
no bound: a file longer than expected is refused by the code. In `DbnDecoder` the
largest block is the whole input and larger than any buffer, so that libzstd holds output over several reads, and
the frames end at every place of the content. `LiveConnection` uses the smallest buffer that
holds prelude and metadata, so that every larger block leaves output held; two connections are
enough for a stale stream to meet a new greeting. In `Codec` the tables are complete, and
the number of rounds of a file job is unbounded (its states repeat).

**Fairness.** Client code that can take a step does, and time passes (weak fairness).
Threads also get a contended mutex eventually (strong fairness of the lock actions,
which the scheduler provides although C++ does not promise it). Nothing is assumed of
the gateway, nor of `blocking.Start()`, which reads without a timeout; in
`BatchDownload` a silent server counts as a failed request (`HttpClient` sets a read
timeout of 100 s), and in `Timeseries` the response ends for the same reason. A call on
`DbnDecoder` goes on as long as it can. In `LiveConnection` the clock advances, a poll that
has expired returns and the thread that can receive does; nothing is asked of the gateway
or of `connect()`. The one deadlock that remains, a destructor waiting for a thread
inside `Start()`, is the first disjunct of `DestroyCompletes`.

## 4. Proofs

For every set of bytes, every capacity and every length (`Data_proofs`, from
`BufferAssumption`):

- `UnreadInitialised`: the cursors stay ordered inside the allocation and no fresh byte is
  unread; `MakesRoom`: ShiftForSpace makes contiguous room whenever the space exists;
- `Refinement`: `BufSpec => ImplementsFifo`.

The invariant is `UnreadIsInitialised`, which includes the type of the buffer. One lemma per method says what it does
to the unread bytes as a sequence (`FillLemma`, `ConsumeLemma`, `ShiftLemma`,
`ReserveLemma`, `WriteLemma`, ...); `NextLemma` combines them, showing at once that a
step keeps the invariant and is a step of the queue.

For any set of waiting threads (`LiveThreaded_proofs`, from `ThreadsAssumption`):
`TypeCorrect`, `StopMeansClosedHolds`, `NoLostWakeupHolds`, `MetadataBeforeRecordsHolds`,
`NoUseAfterStopHolds` (with `SilentAfterStop`, no callback or read after a Stop) and `NoSelfJoinHolds`. Of these
`TypeOK`, `StopMeansClosed` and `NoSelfJoin` are in no run, since the proof covers them. None is
inductive alone. `IInv` adds: the thread's id is published from its first step on; the
session is closed from `blocking.Stop()` to the end; `last_cb_ret` is Stop exactly from
the store in `NotifyOfStop` on, and the mutex is held by whoever is between lock and
unlock. The last is the heart of `NoLostWakeup`: a thread that has seen no Stop and has
not yet enqueued holds the mutex, so the store cannot come between.

For every size of the buffers and every sequence of writes and flushes, with failures anywhere
(`Data_proofs`, from `ZcAssumption`): `FlushedReadsBackHolds`. The invariant `ZcInv` says that what was written is,
in this order, the content of the frames sent, what libzstd has taken of the current frame and
what is in `in_buffer_` (`ZcFlow`), unless a Flush has read input that a shift had moved
(`lost`) or a call has failed (`failed`). WriteAll keeps it because the shift drops exactly what libzstd took.

For every metadata, date and instrument (`Data_proofs`, from `SymbolsAssumption`):
`SymbolMapsAgreeHolds`, about the three ways the code resolves a symbol. Their loops are
recursive functions that run over mappings and, inside, over intervals, and stop at the first
one that throws; each is shown to be such a run that ends in one way (`RunsAlike`). The slice
of the map over time and the map of a day are then compared side by side, by induction over
the intervals of a mapping (`IntervalShown`, `MappingShown`) and over the mappings
(`MappingsAgree`): the insertion of an interval changes the slice exactly when the day is in
it (`SliceInsert`), and because the intervals of a mapping are disjoint, the one found for
the day is the one inserted for it. That the symbology answer gives the same map needs that
no interval is skipped (`NoneSkipped`, `ResolutionAgrees`). `SmInv` carries the comparison
through a session: the map is the one of the day, below what was announced and above what was
looked up in vain.

For all metadata, with any symbols, mappings, intervals and length of symbols, and every
sequence of policies (`Data_proofs`, from `FilesAssumption`): `MetadataReadsBackHolds`. What
is written is a concatenation of parts, and `Stands(part, c, i)` says where in the file c a
part begins. Three lines of lemmas run side by side over the parts: what the encoder's
function for a part writes (`RepeatedParts`, `IntervalParts`, `MappingsParts`,
`FixedFieldsV1`, ...); how long it is (`StandsLengths`, `LengthsCat`), which adds up to the
length that CalcLength computed beforehand (`MappingsLength`, `FieldLengths`, `FieldsFit`),
padding included; and that the decoder's function, started where the part stands, returns
what was encoded and stops behind it (`RepeatedReads`, `MappingReads`, `MappingsReads`,
`SchemaReads`, ...). `MetadataReads` puts them together: what is read is what was written, but
for version 0, which is written as 1, and the length of symbols, which version 1 does not
record. The property is not inductive, since it says nothing of a file that is written and
not read yet; `FileInv` adds that such a file is the encoding of the metadata, and that the
metadata can always be written once more (`Upgrading`, `OnceMore`).

For every text of a message and every sequence of policies (`Data_proofs`, from
`FilesAssumption`): `UpgradesKeepRecordsHolds`. What a positional initialiser with the copies
behind it gives is told row by row (`InitialiserIs`), and the tables of the three conversions
of InstrumentDefMsg are gone through once each (`RowsV1ToV2`, `RowsV1ToV3`, `RowsV2ToV3`): a
field is copied, or initialised from the field of its name, or new. Hence 1 to 2 to 3 and 1 to
3 give the same (`DefChains`). `Chain` says this of any record type: the fields of a record in
each version, such that every upgrade the decoder may choose leads from one to the next.
`RecordInv` says that the record is on the chain of the one the file started with; the
property alone is not inductive, because it does not say what the fields are in between.

For every length of records, metadata, response and buffer, every timeout and every split
of the stream (`LiveBlocking_proofs`, from `SessionAssumption`): `RecordsInOrderHolds`,
`OnlyClosedWhenDrainedHolds`, `HeartbeatMeansSilenceHolds`, `MetadataFitsHolds`. Nothing is
assumed of the metadata's length: Reserve gives a buffer of its size and keeps what is unread,
or leaves the buffer alone, and then the room is the capacity less the response and the
prelude. The invariant says that what is
unread in the buffer followed by what is on the wire (`Pending`) is one unbroken run of
pieces (`Chain`) which ends with the last piece sent and, once the session has started,
begins with the first piece of the first record not returned (`Unbroken`). Every step moves
bytes inside `Pending` or takes a whole record off its front; that a record's pieces are the
next ones of the run is an induction over it (`RecordRun`). `OnlyClosedWhenDrained` needs
that a call which waits has no record in the buffer (`NoRecordYet`): a full buffer would
hold one, so `recv()` returning 0 means the end of the stream. `HeartbeatMeansSilence` needs
that the client has not read for longer than the gateway has been silent only while
something is on the wire (`SilenceShared`).

For every list of symbols, chunk size and largest id (`LiveBlocking_proofs`, from
`SubscriptionsAssumption`): `GatewayMirrorsClientHolds`, `IdsAgreeHolds`,
`ResubscribeDropsStartsHolds`, and, in the composed session where the gateway streams while
the application subscribes, `SessionKeepsSubscriptions`. `TakeAll` is the gateway's side, a
recursive function over the messages; `TakeParts` splits it at any message,
`OneSubscription` shows by induction over the chunks that the messages of one subscription
make one request with all its symbols, and `ManySubscriptions` the same of a Resubscribe.
The ids need an order: they grow until exhausted, the counter is not behind them while the
gateway mirrors them and is 0 on a new connection (`SubOrder`); so `MaxId` gives back the
recorded id of each subscription (`IdsAgain`).

For every greeting, challenge and response, every split, delay and close, and what follows the
response (`LiveBlocking_proofs`, from `AuthAssumption`): `AuthenticatedMeansAcceptedHolds` and
`KeepsBytesAfterResponseHolds`. The invariant `AuthInv` says, for each place in Authenticate,
that what the client has not consumed, in the buffer, on the wire or unsent, is what the
gateway still has to say: greeting, challenge, response and the rest (`Tells`), or a beginning
of it once the gateway has closed. So the line that DecodeChallenge or DecodeAuthResp cuts at
the first newline is the line sent, and a verdict is about that line (`Verdict`). What
DecodeAuthResp makes of a line is an induction over its loop.

For every configuration, session and buffer (`LiveConnection_proofs`, from
`ConnectionAssumption`): `ConnectTriesAllHolds`, where the number of addresses tried and of
waits follow from the two loop counters (`LoopInv`), `DecodesSessionHolds` and
`ClosedMeansDrainedHolds`. While a new connection is made, both speak of the old one, and
`OldInv` says where Reconnect may have been called from, so that `Phase`, the place of the
client on the connection it still has, is one of the application's.

For every input, metadata length and size of the buffer (`DbnDecoder_proofs`, from `DecoderAssumption`):
`NothingLostHolds`, `MetadataFitsHolds`, `LayoutMatchesMetadataHolds` and
`ImplementsRecordStreamHolds`. That the metadata fits rests on `FitInv`, the position of the
cursors from the constructor to the end of the prelude; the proofs of the other three split
on whether Reserve grows the buffer, keeps it with room, or keeps it without. Both
byte-for-byte theorems use the same relation, `InPlace`: what the reader has, what the decompressor holds, what it has not read
and what is still to come are the content, in this order. `StreamLemmas` shows once that
libzstd's feeding of tokens (`DecompressLemma`, an induction over the input), a round of
ReadSome's loop (`RoundLemma`) and a plain read keep it, and what the two modules add is
what the client does with the bytes. In `DbnDecoder` the records handed out are then the
front of the content because the length and type decoded are those of the record whose
first piece is at the read position (`RecordsFront`, `FrontFacts`).

`ClosedMeansDrained`, and the end of the stream in `ImplementsRecordStream`, need to know
what a read of 0 bytes means: that libzstd got no input or made nothing of it. The latter
happens only behind an empty frame; otherwise all has been read (`AllIsRead`), and output can
be held of an unfinished frame only. The refinement of `RecordStream` (`SInv`) adds the place
of the decompressor between the frames (`PlaceInv`) and the reason of each exception: an input
that DetectCompression refuses, a header that breaks off, continues in another frame or does
not parse, a corrupt block (`DetectBreaks`, `HeaderBreaks`, `PlainBreaks`, `ZstdBreaks`).
Each is shown to make the input unreadable in the sense of the abstract specification.
`EndInv` says that nullptr is returned with less than a record left; `CountedFacts` turns the
pieces into a number of whole records.

For every response, its status, frames, blocks and cuts, and every length of records, metadata
and buffer (`Timeseries_proofs`, from `TimeseriesAssumption`): `ErrorBodyIsThrownHolds`,
`ReturnedMeansAllHolds` and the refinement `ImplementsRecordStreamHolds`, `Spec =>
ImplementsRecordStream`. The invariant `IInv` has four parts: the records given are the first
ones (`TypeInv`); the error body, or the file, followed by what is still to arrive is the
response (`SinkInv`); a call that returns has had all of it (`EndInv`); and for the decoder
(`DecodingInv`)

- what was handed over and what is unread in the buffer, what libzstd holds, the queue and
  what is still to arrive are the content, in this order (`PlacePart`). It is `InPlace`
  again, with the place of libzstd in the response (`TailOf`): output is held only of the
  last token read, so that none is held behind the end of a frame;
- outside of the decoder the buffer holds no whole record and has room (`BufferPart`):
  without room ReadSome would read 0 bytes and Process would take it for the end of the
  chunk. This is where the sizes and ShiftForSpace enter;
- between two chunks the queue and the decompressor's input are used up, unless a frame
  inside the response is empty (`QueuePart`).

For the refinement, `NextRecord` shows that the record at the read position is the next of
the response and that it is among the whole ones, and `WholeExactly` that n records have
been handed over of a response with n whole records when less than a record is left. Each
exception is traced to its cause: an error status or a break (`ResponseEndsStep`,
`SendStep`), a corrupt token (`RoundStep`), a first piece that is not the magic
(`PreludeStep`), unreadable metadata (`MetadataStep`).

For every job, disk and number of retries (`BatchDownload_proofs`, from
`DownloadAssumption`): `PrefixesOnlyHolds`, `ReturnedCompleteHolds`, `VerifiedIntactHolds`.
The invariant adds that the range asked for is the size on disk, that the rest of the body
continues it, and that the running hash has seen what is on disk (`RangeMatchesDisk`,
`RestContinues`, `HashMirrorsFile`).

Assumptions on constants beyond types, and why the code justifies them:

- buffers (`BufferSizes`) hold a record and what precedes the metadata (the magic of the compression and
  the prelude of a file; the authentication response and the prelude of a session), which are
  some hundred bytes of 64 KiB; the metadata itself may be of any length;
- a session is of one kind of token, plain bytes or uncorrupted frames: a corrupt frame
  makes libzstd throw, and the session is over;
- a file's version is at least 1, as `dbn_encoder.cpp:92` writes it (the decoder would
  accept 0); its content is a beginning of a header and records, and it does not begin with
  a compressed block without a frame header, which is no zstd input;
- the gateway's lines hold no newline, and its responses are made of known pairs, any two
  with a separator between them: the loop of DecodeAuthResp looks for these and nothing else;
- dates are day numbers, a mapping is a sequence of intervals, and instrument ids are
  numbers; what is written to a compressing stream is a sequence of bytes;
- the parts of a date in metadata are within a calendar's, and what a misplaced read gives
  (`Garbled`) is told apart from every value of a field: it stands for a wrong one;
- what is on disk before a download is a sequence of bytes or nothing;
- a response that begins with the magic is a beginning of a header and records, and one that
  does not is anything; `dbn_buffer_` holds the largest record and the prelude (64 KiB in
  the code).

Induction over data is by `SetInduction`: a set of numbers that contains 0 and the
successor of each member is `Nat`, from the well-foundedness of `<` in the library.

Only model-checked:

- liveness (StopReachesWaiters, DestroyCompletes, CallsReturn, CallsEnd, CallEnds,
  AuthEndsButForTwoCases, CallsEndUnlessStarved), outside the prover's reach;
- `TablesAgree` of `Codec`: finite tables, with no constant to generalise over; TLC evaluates
  them in full, and the prover has no theory of the concatenation of strings.

## 5. Not modelled

- Calls on `LiveThreaded` that use `blocking` from another thread while the processing
  thread runs: the code excludes them by comment, and a data race has no outcome to check.
- Moves of a `LiveBlocking` or `LiveConnection` with compression on: the reader keeps a
  pointer to the moved-from client (`live_connection.cpp:48`).
- `HttpStreamReader` and OpenPostStream, the pulled form of a streamed response. Its
  ReadSome reports a broken connection as the end of the data.
- The building of requests and the parsing of JSON answers: one request, one answer, no
  state.
- A `Replay` after `GetMetadata`, which `DbnStore`'s header excludes.
- `LiveBuilder`, flag sets, dates, printing and comparison of records, logging, the
  wrapper of SHA-256: stateless.
- The bytes of the CRAM reply and the wording of requests.

## 6. Plan

Done: the buffer and its proofs; the threaded client and its proofs; authentication;
subscriptions; the live session composed of them; the live connection with retries and
compression; batch download; the file decoder with decompression; the streamed response;
encoder, metadata, upgrades, tables, compression and symbol maps.

The proofs of the buffer, the threaded client, the handshake, the session with its
subscriptions, the connection, the batch download, the file decoder, the streamed response,
the compressing stream, the symbol maps, the metadata and the upgrades of records: every
safety invariant and refinement of the runs but `TablesAgree`.

Next, in this order:

1. `HttpStreamReader` under `DbnDecoder`, as a third kind of input.
2. `LiveThreaded` composed with `LiveBlocking`.
3. The parsing of the historical API's responses.
