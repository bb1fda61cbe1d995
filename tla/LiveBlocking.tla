----------------------------- MODULE LiveBlocking -----------------------------
(***************************************************************************)
(* databento::LiveBlocking after a successful constructor: Start, the ways *)
(* of taking records off the connection, heartbeat monitoring, Stop and    *)
(* Reconnect, with the subscriptions of LiveSubscriptions, against a       *)
(* gateway that sends, falls silent or closes whenever it likes and a TCP  *)
(* stream that splits what it sends anywhere.  The connection is           *)
(* uncompressed.                                                           *)
(*                                                                         *)
(* The unit of length is a piece of a record.  A byte of the stream is a   *)
(* record [rec, off, len]: piece off of a record of len pieces; the        *)
(* metadata is "record" 0, one piece for the prelude and MetadataLen more. *)
(* Time is in ticks.                                                       *)
(***************************************************************************)
EXTENDS BufferOps, LiveSubscriptions

CONSTANTS
  BufferSizes,     \* what the application may have set buffer_size to
  HeaderLen,       \* sizeof(RecordHeader)
  MaxRecordLen,    \* kMaxRecordLen
  RecordLens,      \* lengths of the records the gateway sends
  AuthLen,         \* length of the authentication response
  MetadataLen,     \* length of the metadata after the prelude
  HbTimeout,       \* heartbeat_interval_ + kHeartbeatTimeoutMargin, or the default
  Timeouts,        \* timeouts the application passes to NextRecord and FillBuffer
  MaxRecords       \* bound: records the gateway sends per connection

ASSUME SessionAssumption ==
  /\ HeaderLen \in Nat \ {0} /\ MaxRecordLen \in Nat /\ HeaderLen <= MaxRecordLen
  /\ MetadataLen \in Nat \ {0}
  /\ RecordLens \subseteq HeaderLen..MaxRecordLen
  /\ AuthLen \in Nat
  /\ \A n \in BufferSizes : n \in Nat /\ n >= MaxRecordLen /\ n >= AuthLen + 1
  /\ HbTimeout \in Nat \ {0} /\ Timeouts \subseteq Nat \ {0}

VARIABLES
  started,        \* Start has returned on this connection
  buf,            \* buffer_
  silence,        \* now - last_read_time_, saturating above HbTimeout
  call,           \* the call in progress
  wait,           \* ticks until its poll() gives up
  \* the gateway and the network:
  wire,           \* arrived and not yet read
  sent,           \* the last piece sent on this connection
  gw_silence,     \* time since the gateway last sent, saturating
  \* history:
  delivered       \* records returned to the application on this connection

connVars == <<conn, started, gw, sent>>
clockVars == <<silence, gw_silence>>
streamVars == <<started, buf, silence, call, wait, wire, sent, gw_silence, delivered>>
vars == <<subVars, streamVars>>

Idle == [op |-> "none", timeout |-> 0]
Polling == {"header", "body", "header_forever", "body_forever", "fill"}

\* What Authenticate leaves of the buffer: the response, filled in and consumed.
AfterAuth(b) == Consume(Fill(Clear(b), [i \in 1..AuthLen |-> Uninit]), AuthLen)

NothingSent == [rec |-> 0, off |-> 0, len |-> 0]

Init ==
  /\ SubInit
  /\ \E n \in BufferSizes : buf = AfterAuth(NewBuffer(n))
  /\ started = FALSE /\ silence = 0
  /\ call = Idle /\ wait = 0
  /\ wire = << >> /\ sent = NothingSent /\ gw_silence = 0
  /\ delivered = << >>

-----------------------------------------------------------------------------
(* The gateway, the network and the clock.                                 *)

Metadata == [k \in 1..(MetadataLen + 1) |->
               [rec |-> 0, off |-> k, len |-> MetadataLen + 1]]

\* The piece after sent: the next of its record, or the first of a new one of len.
Following(len) ==
  IF sent.off < sent.len THEN [sent EXCEPT !.off = @ + 1]
                         ELSE [rec |-> sent.rec + 1, off |-> 1, len |-> len]

GatewaySends(len) ==
  /\ gw = "streaming"
  /\ IF sent.off < sent.len THEN len = sent.len ELSE sent.rec < MaxRecords
  /\ sent' = Following(len) /\ wire' = Append(wire, Following(len)) /\ gw_silence' = 0
  /\ UNCHANGED <<conn, started, gw, buf, silence, call, wait, ret, idVars, delivered>>

GatewayCloses == ConnectionLost /\ UNCHANGED streamVars

Up(t) == IF t > HbTimeout THEN t ELSE t + 1

\* poll() reports the socket: bytes to read, or the end of the stream.  A socket the
\* client has closed is never reported.
Ready == conn = "open" /\ (wire # << >> \/ gw = "closed")

Tick ==
  /\ call.op \in Polling => Ready \/ wait > 0
  /\ silence' = Up(silence) /\ gw_silence' = Up(gw_silence)
  /\ wait' = IF call.op \in Polling /\ wait > 0 THEN wait - 1 ELSE wait
  /\ UNCHANGED <<connVars, buf, idVars, call, ret, wire, delivered>>

-----------------------------------------------------------------------------
(* Start, Stop, Reconnect.                                                 *)

\* WriteAll("start_session\n") and the wait for the prelude.  Start succeeds once per
\* connection; an authenticated gateway answers with its metadata, and one that has closed
\* may still take the write.
Start ==
  /\ call = Idle /\ ~started
  /\ \/ /\ conn = "open"
        /\ call' = [op |-> "prelude", timeout |-> 0]
        /\ \/ gw = "authenticated" /\ gw' = "streaming" /\ gw_silence' = 0
              /\ wire' = Metadata /\ sent' = Last(Metadata)
           \/ /\ gw \in {"unauthenticated", "closed"}
              /\ UNCHANGED <<gw, wire, sent, gw_silence>>
        /\ UNCHANGED ret
     \/ ~Writable /\ ret' = "tcp_error" /\ UNCHANGED <<call, gw, wire, sent, gw_silence>>
  /\ UNCHANGED <<conn, started, buf, idVars, silence, wait, delivered>>

\* connection_.ReadExact: recv with MSG_WAITALL, no timeout.
CanReadExact(n) == Len(wire) >= n
ReadExactFails ==
  /\ call.op \in {"prelude", "metadata"}
  /\ gw = "closed"
  /\ ~CanReadExact(IF call.op = "prelude" THEN 1 ELSE MetadataLen)
  /\ call' = Idle /\ ret' = "tcp_error" /\ wire' = << >>
  /\ UNCHANGED <<connVars, buf, idVars, clockVars, wait, delivered>>

\* Mutant: the metadata is read into whatever room there is.
NoReserve(b) == b

\* Reserve(size) ahead of the read of the metadata.  It compares the size with the capacity,
\* not with the room behind the authentication response and the prelude.
ReserveForMetadata(b) == Reserve(b, MetadataLen)

\* Prelude: Fill, decode, Consume, Reserve(size).
StartPrelude ==
  /\ call.op = "prelude" /\ CanReadExact(1)
  /\ buf' = ReserveForMetadata(Consume(Fill(buf, SubSeq(wire, 1, 1)), 1))
  /\ wire' = SubSeq(wire, 2, Len(wire))
  /\ call' = [call EXCEPT !.op = "metadata"]
  /\ UNCHANGED <<connVars, idVars, clockVars, wait, ret, delivered>>

\* Mutant: last_read_time_ is not set.
StartMetadataStale ==
  /\ call.op = "metadata" /\ CanReadExact(MetadataLen) /\ WriteCapacity(buf) >= MetadataLen
  /\ buf' = Shift(Consume(Fill(buf, SubSeq(wire, 1, MetadataLen)), MetadataLen))
  /\ wire' = SubSeq(wire, MetadataLen + 1, Len(wire))
  /\ call' = Idle /\ ret' = "metadata" /\ started' = TRUE
  /\ UNCHANGED <<conn, gw, sent, idVars, clockVars, wait, delivered>>

\* Metadata: Fill, decode, Consume, Shift; last_read_time_ is set.
StartMetadata ==
  /\ call.op = "metadata" /\ CanReadExact(MetadataLen) /\ WriteCapacity(buf) >= MetadataLen
  /\ buf' = Shift(Consume(Fill(buf, SubSeq(wire, 1, MetadataLen)), MetadataLen))
  /\ wire' = SubSeq(wire, MetadataLen + 1, Len(wire))
  /\ call' = Idle /\ ret' = "metadata" /\ started' = TRUE /\ silence' = 0
  /\ UNCHANGED <<conn, gw, sent, idVars, gw_silence, wait, delivered>>

\* ReadExact writes past the end of the buffer: undefined, and nothing is said of the
\* session from here on.
StartOverruns ==
  /\ call.op = "metadata" /\ WriteCapacity(buf) < MetadataLen
  /\ call' = [call EXCEPT !.op = "overrun"]
  /\ UNCHANGED <<connVars, buf, idVars, clockVars, wait, ret, wire, delivered>>

Stop ==
  /\ call = Idle /\ Stopped /\ wire' = << >>
  /\ UNCHANGED <<started, sent, buf, clockVars, call, wait, delivered>>

\* Reconnect fails to connect, or replaces the connection before anything else
\* changes; last_read_time_ is set once it has authenticated too.
Reconnect ==
  /\ call = Idle
  /\ \/ ReconnectFailed /\ UNCHANGED streamVars
     \/ /\ \/ Reconnected("authenticated") /\ buf' = AfterAuth(buf) /\ silence' = 0
           \/ Reconnected("unauthenticated") /\ buf' = Clear(buf) /\ UNCHANGED silence
        /\ wire' = << >> /\ sent' = NothingSent /\ gw_silence' = 0
        /\ started' = FALSE /\ delivered' = << >>
        /\ UNCHANGED <<call, wait>>

\* The two operations on subscriptions leave the stream alone.
SubscribeCall(syms, start) == call = Idle /\ Subscribe(syms, start) /\ UNCHANGED streamVars
ResubscribeCall == call = Idle /\ Resubscribe /\ UNCHANGED streamVars

-----------------------------------------------------------------------------
(* Taking records.                                                         *)

\* BufferRecordHeader()->Size(): the length is in the first byte of the header.
RecordSize(b) == b.mem[b.rd].len

HasRecord(b) == ReadCapacity(b) >= HeaderLen /\ ReadCapacity(b) >= RecordSize(b)

\* Mutant: the record is not consumed.
ReturnRecordAgain(b) ==
  /\ buf' = b /\ delivered' = Append(delivered, b.mem[b.rd].rec)
  /\ call' = Idle /\ ret' = "record"

\* ConsumeBufferedRecord; the record returned points at the consumed bytes.
ReturnRecord(b) ==
  /\ buf' = Consume(b, RecordSize(b))
  /\ delivered' = Append(delivered, b.mem[b.rd].rec)
  /\ call' = Idle /\ ret' = "record"

Forever(op) == op \in {"header_forever", "body_forever"}

\* The next FillBuffer of the call, with the whole timeout again.
PollAgain(op) == call' = [call EXCEPT !.op = op] /\ wait' = call.timeout

\* NextRecord(timeout), and NextRecord() which passes the heartbeat timeout and
\* calls it again until it has a record.
NextRecord(op, timeout) ==
  /\ call = Idle /\ started
  /\ \/ /\ HasRecord(buf) /\ ReturnRecord(buf)
        /\ UNCHANGED wait
     \/ /\ ~HasRecord(buf)
        /\ call' = [op |-> IF ReadCapacity(buf) < HeaderLen THEN op
                           ELSE IF op = "header" THEN "body" ELSE "body_forever",
                    timeout |-> timeout]
        /\ wait' = timeout /\ ret' = "none"
        /\ UNCHANGED <<buf, delivered>>
  /\ UNCHANGED <<connVars, idVars, silence, gw_silence, wire>>

NextRecordTimeout(timeout) == NextRecord("header", timeout)
NextRecordForever == NextRecord("header_forever", HbTimeout)

TryNextRecord ==
  /\ call = Idle /\ started
  /\ \/ HasRecord(buf) /\ ReturnRecord(buf)
     \/ ~HasRecord(buf) /\ ret' = "nullptr" /\ UNCHANGED <<buf, delivered, call>>
  /\ UNCHANGED <<connVars, idVars, clockVars, wire, wait>>

FillBufferCall(timeout) ==
  /\ call = Idle /\ started
  /\ call' = [op |-> "fill", timeout |-> timeout] /\ wait' = timeout
  /\ ret' = "none"
  /\ UNCHANGED <<connVars, buf, idVars, silence, gw_silence, wire, delivered>>

\* Mutant: no ShiftForSpace.
NotShifted == buf

\* FillBuffer's ShiftForSpace, ahead of the read.
Shifted == ShiftForSpace(buf, MaxRecordLen)

\* FillBuffer reads what has arrived and fits, n bytes; the caller goes on with what
\* the buffer then holds.
Available(b) == IF Len(wire) < WriteCapacity(b) THEN Len(wire) ELSE WriteCapacity(b)

ReadSome ==
  LET n == Available(Shifted)
      filled == Fill(Shifted, SubSeq(wire, 1, n))
  IN
  /\ call.op \in Polling /\ Ready /\ n > 0
  /\ wire' = SubSeq(wire, n + 1, Len(wire)) /\ silence' = 0
  /\ \/ /\ call.op # "fill" /\ ReadCapacity(filled) >= RecordSize(filled)
        /\ ReturnRecord(filled) /\ UNCHANGED wait
     \/ /\ call.op # "fill" /\ ReadCapacity(filled) < RecordSize(filled)
        /\ buf' = filled
        /\ PollAgain(IF Forever(call.op) THEN "body_forever" ELSE "body")
        /\ UNCHANGED <<delivered, ret>>
     \/ /\ call.op = "fill" /\ buf' = filled /\ call' = Idle /\ ret' = "ok"
        /\ UNCHANGED <<delivered, wait>>
  /\ UNCHANGED <<connVars, idVars, gw_silence>>

\* recv() returns 0: the stream has ended, or there was no room to read into.
ReadsNothing ==
  /\ call.op \in Polling /\ Ready
  /\ Available(Shifted) = 0
  /\ buf' = Shifted
  /\ call' = Idle /\ ret' = IF call.op = "fill" THEN "end_of_stream" ELSE "gateway_closed"
  /\ UNCHANGED <<connVars, idVars, clockVars, wire, wait, delivered>>

\* recv() fails on a connection that was reset.
ReadFails ==
  /\ call.op \in Polling /\ Ready /\ gw = "closed"
  /\ buf' = Shifted
  /\ call' = Idle /\ ret' = "tcp_error" /\ wire' = << >>
  /\ UNCHANGED <<connVars, idVars, clockVars, wait, delivered>>

\* Mutant: the heartbeat is not monitored.
HeartbeatIgnored == FALSE

\* CheckHeartbeatTimeout throws.
HeartbeatExpired == silence > HbTimeout

\* poll() gives up: CheckHeartbeatTimeout, then nullptr, or another round of
\* NextRecord() with the header test again.
PollTimesOut ==
  /\ call.op \in Polling /\ ~Ready /\ wait = 0
  /\ buf' = Shifted
  /\ \/ /\ call.op # "fill" /\ HeartbeatExpired
        /\ call' = Idle /\ ret' = "heartbeat_timeout" /\ UNCHANGED wait
     \/ /\ call.op # "fill" /\ ~HeartbeatExpired /\ ~Forever(call.op)
        /\ call' = Idle /\ ret' = "nullptr" /\ UNCHANGED wait
     \/ /\ ~HeartbeatExpired /\ Forever(call.op)
        /\ PollAgain(IF ReadCapacity(buf) < HeaderLen THEN "header_forever"
                                                     ELSE "body_forever")
        /\ UNCHANGED ret
     \/ /\ call.op = "fill" /\ call' = Idle /\ ret' = "timeout" /\ UNCHANGED wait
  /\ UNCHANGED <<connVars, idVars, clockVars, wire, delivered>>

-----------------------------------------------------------------------------

CallStep ==
  \/ ReadSome \/ ReadsNothing \/ ReadFails \/ PollTimesOut

Next ==
  \/ \E len \in RecordLens : GatewaySends(len)
  \/ GatewayCloses
  \/ Tick
  \/ \E syms \in SymbolLists, start \in Starts : SubscribeCall(syms, start)
  \/ ResubscribeCall
  \/ Start \/ StartPrelude \/ StartMetadata \/ StartOverruns \/ ReadExactFails
  \/ Stop \/ Reconnect
  \/ \E t \in Timeouts : NextRecordTimeout(t)
  \/ \E t \in Timeouts \cup {HbTimeout} : FillBufferCall(t)
  \/ NextRecordForever \/ TryNextRecord
  \/ CallStep

Spec == Init /\ [][Next]_vars

\* Time passes and a call that can go on does.
FairSpec == Spec /\ WF_vars(CallStep) /\ WF_vars(Tick)

-----------------------------------------------------------------------------

\* Start writes the metadata inside the buffer, grown when it is too small for it, unless
\* the metadata is within a few bytes of the capacity: Reserve then keeps the buffer and the
\* room left behind the authentication response and the prelude is too small.  That is so by
\* chance on a first connection, and always behind a Reconnect when the Start before it grew
\* the buffer to the very size of the same metadata.
NearCapacity == MetadataLen <= buf.cap /\ buf.cap < AuthLen + 1 + MetadataLen
MetadataFits ==
  call.op \in {"metadata", "overrun"} => WriteCapacity(buf) >= MetadataLen \/ NearCapacity

\* The records returned on a connection are the ones the gateway sent on it, each
\* once and in order, whatever the splits, timeouts in mid-record, shifts of the
\* buffer and the mix of NextRecord, TryNextRecord and FillBuffer; each is decoded from its
\* first byte, because the unread bytes of a started session begin at a record boundary.
Framed ==
  started /\ ReadCapacity(buf) > 0 =>
    /\ buf.mem[buf.rd].off = 1
    /\ \A i \in buf.rd..(buf.wr - 2) :
         IF buf.mem[i].off = buf.mem[i].len
           THEN buf.mem[i + 1].off = 1 /\ buf.mem[i + 1].rec = buf.mem[i].rec + 1
           ELSE buf.mem[i + 1] = [buf.mem[i] EXCEPT !.off = @ + 1]
RecordsInOrder == Framed /\ \A i \in 1..Len(delivered) : delivered[i] = i

\* "Gateway closed the session" is thrown only when it did and nothing it sent
\* before is left undelivered but a record it did not finish.
ClosedStep ==
  ret' = "gateway_closed" /\ ret = "none" =>
    gw = "closed" /\ wire = << >> /\ ~HasRecord(buf')
OnlyClosedWhenDrained == [][ClosedStep]_vars

\* HeartbeatTimeoutError means that the gateway has sent nothing for longer than the
\* timeout: a stale last_read_time_ (a slow application, a Reconnect, a restart)
\* never raises it against a gateway that is sending.
HeartbeatStep ==
  ret' = "heartbeat_timeout" /\ ret = "none" /\ conn = "open"
    => gw_silence > HbTimeout
HeartbeatMeansSilence == [][HeartbeatStep]_vars

\* NextRecord() and NextRecord(timeout) come back: with a record, nullptr or an
\* exception, also from a gateway that falls silent in the middle of a record.
CallsReturn == call.op \in Polling ~> call = Idle
==============================================================================
