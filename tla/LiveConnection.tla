---------------------------- MODULE LiveConnection ----------------------------
(***************************************************************************)
(* databento::detail::LiveConnection: TcpClient's connect loop, the switch *)
(* from plain to decompressed reads at Start, timed reads through          *)
(* ZstdDecodeStream and TcpReadable, and the replacement of the connection *)
(* by Reconnect, against a gateway that is slow, silent or closes, and     *)
(* signals that interrupt every poll.                                      *)
(*                                                                         *)
(* Tokens are those of ZstdOps; one of kind "plain" is sent uncompressed.  *)
(* The client's Buffer is the byte queue it implements (ByteFifo).  Time   *)
(* is in seconds.                                                          *)
(***************************************************************************)
EXTENDS ZstdOps, FiniteSets

CONSTANTS
  Confs,          \* RetryConf: [max_attempts, max_wait, connect_timeout]
  Addresses,      \* how many addresses getaddrinfo returns
  Sessions,       \* the sessions of a gateway: [compressed, tokens]
  PreludeLen,     \* length of the prelude, the first ReadExact of Start
  HeaderLen,      \* and of prelude and metadata, the second
  BufferSize,     \* capacity of the client's buffer
  Timeouts,       \* timeouts a caller may pass; 0 means none
  MaxConnections  \* bound on connections

\* What a gateway sends: valid blocks, or single bytes (which are strings here).
SessionToken(compressed) ==
  {t \in TokensOf(STRING) :
     IF compressed THEN t.kind \notin {"plain", "corrupt"} ELSE t.kind = "plain" /\ Len(t.out) = 1}

ASSUME ConnectionAssumption ==
  /\ \A c \in Confs : c.max_attempts \in Nat /\ c.max_wait \in Nat /\ c.connect_timeout \in Nat
  /\ \A s \in Sessions : s.compressed \in BOOLEAN /\ s.tokens \in Seq(SessionToken(s.compressed))
  /\ Addresses \in Nat \ {0} /\ PreludeLen \in Nat \ {0}
  /\ HeaderLen \in Nat /\ HeaderLen >= PreludeLen
  /\ BufferSize \in Nat /\ BufferSize >= HeaderLen
  /\ Timeouts \subseteq Nat /\ MaxConnections \in Nat \ {0}

VARIABLES
  conf, session,  \* the configuration and the gateway's session (constant)
  pc,             \* what the client is doing
  old,            \* where its connection was when Reconnect was called, or "none"
  attempt, addr,  \* InitSocket's loops
  backoff,        \* and its backoff
  poll,           \* seconds until the poll or sleep in progress ends; -1 for never
  deadline,       \* seconds until PollForConnect's deadline
  timeout,        \* the timeout of the read in progress
  zstd,           \* zstd_stream_, or NoZstd
  script,         \* what the gateway has yet to send
  wire,           \* what has arrived and is unread
  open,           \* the gateway has not closed the connection
  buf,            \* unread bytes of the client's buffer
  \* history:
  connections,    \* connections asked for
  tried, waits,   \* of this connection: the calls of ConnectTo, the sleeps
  taken,          \* bytes of this session the application has had
  interrupted     \* a signal has interrupted the read in progress

constVars == <<conf, session>>
connectVars == <<attempt, addr, backoff, deadline, tried, waits, old>>
readVars == <<timeout, zstd, wire, buf, interrupted>>
gatewayVars == <<script, open>>
vars == <<constVars, connectVars, readVars, gatewayVars, pc, poll, connections, taken>>

NoZstd == [unread |-> << >>, held |-> << >>, suggestion |-> -1]
Greeting == Token("plain", <<"greeting">>, FALSE)
Connecting == {"connecting", "polling", "sleeping"}

\* Where connection_ is: a constructor in progress, or one that failed, has not replaced it.
Phase == IF pc \in Connecting \cup {"failed"} THEN old ELSE pc

Forever(seconds) == IF seconds = 0 THEN -1 ELSE seconds

\* InitSocket, up to its loops.
InitSocket ==
  /\ pc' = "connecting" /\ attempt' = 0 /\ addr' = 1 /\ backoff' = 1
  /\ poll' = -1 /\ deadline' = -1 /\ tried' = 0 /\ waits' = << >>

Init ==
  /\ conf \in Confs /\ session \in Sessions
  /\ pc = "connecting" /\ attempt = 0 /\ addr = 1 /\ backoff = 1
  /\ poll = -1 /\ deadline = -1 /\ tried = 0 /\ waits = << >>
  /\ old = "none" /\ timeout = 0 /\ zstd = NoZstd /\ wire = << >> /\ buf = << >> /\ interrupted = FALSE
  /\ script = << >> /\ open = FALSE /\ connections = 1 /\ taken = << >>

-----------------------------------------------------------------------------
(* TcpClient::InitSocket and ConnectTo.                                    *)

MaxAttempts == IF conf.max_attempts > 1 THEN conf.max_attempts ELSE 1

\* Mutant: the backoff grows without its cap.
BackoffUncapped == backoff * 2

NextBackoff == Shorter(backoff * 2, conf.max_wait)

\* Mutant: the stream of the old connection survives.
ReplacedKeepingStream == zstd

\* connection_ = LiveConnection{...}: the new one has no zstd_stream_.
Replaced == NoZstd

\* The constructor returns: only now is an old connection replaced, and the client's buffer
\* cleared.
Connected ==
  /\ pc' = "auth" /\ old' = "none"
  /\ script' = <<Greeting>> /\ open' = TRUE /\ wire' = << >>
  /\ zstd' = Replaced /\ buf' = << >> /\ taken' = << >>
  /\ poll' = -1 /\ timeout' = 0
  /\ UNCHANGED <<attempt, addr, backoff, deadline, waits>>

\* ConnectTo returned an error: the next address, the next attempt, or TcpError.
AddressFails ==
  /\ \/ /\ addr < Addresses /\ addr' = addr + 1 /\ pc' = "connecting" /\ poll' = -1
        /\ UNCHANGED waits
     \/ /\ addr = Addresses /\ attempt + 1 = MaxAttempts /\ pc' = "failed" /\ poll' = -1
        /\ UNCHANGED <<addr, waits>>
     \/ /\ addr = Addresses /\ attempt + 1 < MaxAttempts /\ pc' = "sleeping"
        /\ poll' = backoff /\ waits' = Append(waits, backoff)
        /\ UNCHANGED addr
  /\ UNCHANGED <<attempt, backoff, deadline, old, timeout, wire, zstd, buf, gatewayVars, taken>>

\* ::connect succeeds, fails or is in progress.
Connect ==
  /\ pc = "connecting" /\ tried' = tried + 1
  /\ \/ Connected
     \/ AddressFails
     \/ /\ pc' = "polling"
        /\ poll' = Forever(conf.connect_timeout) /\ deadline' = Forever(conf.connect_timeout)
        /\ UNCHANGED <<attempt, addr, backoff, waits, old, timeout, wire, zstd, buf, gatewayVars, taken>>
  /\ UNCHANGED <<constVars, interrupted, connections>>

\* PollForConnect returns: connected, an error of the socket, or the timeout.
PollForConnectReturns ==
  /\ pc = "polling"
  /\ \/ poll # 0 /\ Connected
     \/ AddressFails
  /\ UNCHANGED <<constVars, tried, interrupted, connections>>

\* Mutant: a poll that a signal interrupts starts over.
PollFromStart == conf.connect_timeout

\* EINTR: what is left of the deadline.
PollRest == IF deadline = -1 THEN -1 ELSE deadline

ConnectInterrupted ==
  /\ pc = "polling" /\ poll' = PollRest
  /\ UNCHANGED <<constVars, connectVars, readVars, gatewayVars, pc, connections, taken>>

Wake ==
  /\ pc = "sleeping" /\ poll = 0
  /\ pc' = "connecting" /\ attempt' = attempt + 1 /\ addr' = 1 /\ poll' = -1
  /\ backoff' = NextBackoff
  /\ UNCHANGED <<constVars, deadline, tried, waits, old, readVars, gatewayVars, connections, taken>>

-----------------------------------------------------------------------------
(* Reads: plain, or through zstd_stream_.                                  *)

\* What the buffer holds when the ReadExact in progress returns.
Wanted == IF Len(buf) < PreludeLen THEN PreludeLen ELSE HeaderLen

\* Where a client that is reading wants to put at most this many bytes.
Room == (IF pc = "start" THEN Wanted ELSE BufferSize) - Len(buf)
Reading == pc \in {"auth", "start", "read"}

\* A read of the client has put data in its buffer: Authenticate and Start go on until they
\* have what they want, but a ReadExact gives up where a frame ends before it has; ReadSome
\* returns Ok.
Got(data, ended) ==
  LET have == Len(buf \o data) IN
  /\ buf' = IF pc = "auth" THEN << >> ELSE buf \o data
  /\ pc' = CASE pc = "auth" -> "authenticated"
             [] pc = "start" /\ have < Wanted /\ ended -> "short"
             [] pc = "start" /\ have < HeaderLen /\ (have >= Wanted \/ ~ended) -> "start"
             [] OTHER -> "idle"

\* recv returns n plain bytes.
RecvPlain(n) ==
  /\ Reading /\ zstd = NoZstd
  /\ n <= Len(wire) /\ n <= Room
  /\ Got([i \in 1..n |-> IF wire[i].kind = "plain" THEN wire[i].out[1] ELSE "compressed"], FALSE)
  /\ wire' = SubSeq(wire, n + 1, Len(wire)) /\ poll' = -1
  /\ UNCHANGED <<constVars, connectVars, gatewayVars, timeout, zstd, interrupted, connections, taken>>

\* The end of a round of ZstdDecodeStream::ReadSome, r, in which its poll returned the
\* given status: another round with the whole timeout, data, or that status.
RoundEnds(r, status) ==
  /\ zstd' = r.z /\ wire' = SubSeq(wire, 2, Len(wire))
  /\ \/ r.error /\ pc' = "garbled" /\ poll' = -1 /\ UNCHANGED buf
     \/ ~r.error /\ r.again /\ poll' = Forever(timeout) /\ UNCHANGED <<pc, buf>>
     \/ ~r.error /\ r.out # << >> /\ Got(r.out, r.z.suggestion = 0) /\ poll' = -1
     \/ /\ ~r.error /\ ~r.again /\ r.out = << >> /\ UNCHANGED buf
        \* ReadExact asks again, whatever the status, but behind the end of a frame.
        /\ IF pc = "start" THEN pc' = (IF r.z.suggestion = 0 THEN "short" ELSE "start") /\ UNCHANGED poll
           ELSE pc' = (IF status = "Closed" THEN "closed" ELSE "idle") /\ poll' = -1
  /\ UNCHANGED <<constVars, connectVars, gatewayVars, timeout, interrupted, connections, taken>>

RecvZstd ==
  /\ Reading /\ zstd # NoZstd /\ wire # << >>
  /\ \E r \in {IF wire[1].kind = "plain"
                 THEN [z |-> zstd, out |-> << >>, error |-> TRUE, again |-> FALSE]
                 ELSE ReadSomeStep(zstd, <<wire[1]>>, Room)} : RoundEnds(r, "Ok")

\* recv returns 0.  A plain ReadExact throws, a plain ReadSome reports Closed.
RecvClosed ==
  /\ Reading /\ wire = << >> /\ ~open
  /\ \/ /\ zstd # NoZstd
        /\ \E r \in {ReadSomeStep(zstd, << >>, Room)} : RoundEnds(r, "Closed")
     \/ /\ zstd = NoZstd /\ pc' = (IF pc = "auth" THEN "rejected" ELSE "closed") /\ poll' = -1
        /\ UNCHANGED <<constVars, connectVars, gatewayVars, readVars, connections, taken>>

\* The poll times out with nothing to read.
RecvTimesOut ==
  /\ pc = "read" /\ poll = 0 /\ wire = << >> /\ open
  /\ \/ /\ zstd # NoZstd
        /\ \E r \in {ReadSomeStep(zstd, << >>, Room)} : RoundEnds(r, "Timeout")
     \/ /\ zstd = NoZstd /\ pc' = "idle" /\ poll' = -1
        /\ UNCHANGED <<constVars, connectVars, gatewayVars, readVars, connections, taken>>

\* EINTR: ReadSome polls again with the whole timeout.
ReadInterrupted ==
  /\ pc = "read" /\ poll' = Forever(timeout) /\ interrupted' = TRUE
  /\ UNCHANGED <<constVars, connectVars, gatewayVars, pc, timeout, zstd, wire, buf, connections, taken>>

-----------------------------------------------------------------------------
(* The client's calls.                                                     *)

SetCompression == IF session.compressed THEN NewZstd(<< >>) ELSE zstd

\* Start: start_session is written, then the reader switched.
Start ==
  /\ pc = "authenticated"
  /\ pc' = "start" /\ zstd' = SetCompression
  /\ script' = session.tokens
  /\ UNCHANGED <<constVars, connectVars, open, poll, timeout, wire, buf, interrupted, connections, taken>>

ReadSome(t) ==
  /\ pc = "idle" /\ Len(buf) < BufferSize
  /\ pc' = "read" /\ timeout' = t /\ poll' = Forever(t) /\ interrupted' = FALSE
  /\ UNCHANGED <<constVars, connectVars, gatewayVars, zstd, wire, buf, connections, taken>>

\* The application consumes what it has read.
Take(n) ==
  /\ pc = "idle" /\ n <= Len(buf)
  /\ taken' = taken \o SubSeq(buf, 1, n) /\ buf' = SubSeq(buf, n + 1, Len(buf))
  /\ UNCHANGED <<constVars, connectVars, gatewayVars, pc, poll, timeout, zstd, wire, interrupted, connections>>

\* The client of a constructor that threw is not there to call anything.
Reconnect ==
  /\ pc \in {"idle", "closed", "short", "garbled", "stopped"} \/ (pc = "rejected" /\ connections > 1)
  /\ connections < MaxConnections
  /\ InitSocket /\ old' = pc /\ connections' = connections + 1
  /\ UNCHANGED <<constVars, readVars, gatewayVars, taken>>

\* The new connection's constructor throws: connection_ and the buffer are as they were.
ReconnectThrows ==
  /\ pc = "failed" /\ old # "none" /\ pc' = old
  /\ UNCHANGED <<constVars, connectVars, readVars, gatewayVars, poll, connections, taken>>

Close ==
  /\ pc = "idle" /\ pc' = "stopped"
  /\ UNCHANGED <<constVars, connectVars, readVars, gatewayVars, poll, connections, taken>>

-----------------------------------------------------------------------------

GatewaySends ==
  /\ open /\ script # << >> /\ Phase # "stopped"
  /\ wire' = Append(wire, script[1]) /\ script' = SubSeq(script, 2, Len(script))
  /\ UNCHANGED <<constVars, connectVars, pc, poll, open, timeout, zstd, buf, interrupted, connections, taken>>

GatewayCloses ==
  /\ open /\ Phase # "stopped" /\ open' = FALSE
  /\ UNCHANGED <<constVars, connectVars, pc, poll, readVars, script, connections, taken>>

Less(n) == IF n > 0 THEN n - 1 ELSE n
Tick ==
  /\ poll > 0
  /\ poll' = Less(poll) /\ deadline' = Less(deadline)
  /\ UNCHANGED <<constVars, attempt, addr, backoff, tried, waits, old, readVars, gatewayVars, pc, connections, taken>>

Client ==
  \/ Connect \/ PollForConnectReturns \/ Wake
  \/ \E n \in 1..BufferSize : RecvPlain(n)
  \/ RecvZstd \/ RecvClosed \/ RecvTimesOut
  \/ Start \/ (\E t \in Timeouts : ReadSome(t)) \/ (\E n \in 1..BufferSize : Take(n))
  \/ Reconnect \/ ReconnectThrows \/ Close

Done == pc \in {"stopped", "failed", "rejected", "closed", "short", "garbled"} /\ UNCHANGED vars

Next == Client \/ ConnectInterrupted \/ ReadInterrupted \/ GatewaySends \/ GatewayCloses \/ Tick \/ Done

\* A poll that has expired returns; the others wait for the network.
Expired == poll = 0 /\ (PollForConnectReturns \/ Wake \/ RecvTimesOut)

\* The client's thread runs, expired polls return and the clock advances.  Nothing is
\* asked of the gateway.
Spec ==
  /\ Init /\ [][Next]_vars
  /\ WF_vars(Tick) /\ WF_vars(Expired) /\ WF_vars(Connect)
  /\ WF_vars(RecvZstd) /\ WF_vars(RecvClosed) /\ WF_vars(\E n \in 1..BufferSize : RecvPlain(n))

-----------------------------------------------------------------------------

Content == Out(session.tokens)

\* What the application has had, what the client, libzstd and the wire hold and what the
\* gateway has not sent is the session, byte for byte and in order, across the switch to
\* decompression, short reads, timeouts, closes and new connections, while one is being made
\* and after an attempt to make one has failed; the greeting of a new connection never
\* reaches the decompressor of an old one.
DecodesSession ==
  /\ pc # "garbled"
  /\ Phase \in {"start", "idle", "read", "closed", "short"} =>
       taken \o buf \o zstd.held \o Out(zstd.unread) \o Out(wire) \o Out(script) = Content

\* The last token that the gateway sent ended its frame.
FrameEnded == session.tokens[Len(session.tokens) - Len(script)].last

\* A close is reported behind every byte that arrived, the output of a finished frame that
\* did not fit the buffer included.  Only what libzstd holds of a frame that the gateway left
\* unfinished is lost, and what follows a frame that decompresses to nothing may be left
\* unread: ReadSome takes a round without output for the end of its input.
ClosedMeansDrained ==
  pc = "closed" =>
    /\ wire = << >> /\ (zstd.unread = << >> \/ EmptyFrame(session.tokens))
    /\ zstd.held # << >> => ~FrameEnded

TwoTo[n \in Nat] == IF n = 0 THEN 1 ELSE 2 * TwoTo[n - 1]

\* The constructor fails only when every address has been tried in every attempt, with waits
\* that double up to max_wait; the first wait of a second ignores max_wait.
ConnectTriesAll ==
  /\ pc = "failed" => tried = Addresses * MaxAttempts /\ Len(waits) = MaxAttempts - 1
  /\ \A i \in 1..Len(waits) : waits[i] = IF i = 1 THEN 1 ELSE Shorter(TwoTo[i - 1], conf.max_wait)

\* Connecting ends, interrupted as often as it may be, unless no timeout was asked for; a
\* timed read ends unless a signal interrupts it, which starts its timeout anew; Start ends
\* when the gateway closes, unless the session is compressed, where ReadExact goes round
\* for ever.
CallsEnd ==
  /\ (pc \in Connecting /\ conf.connect_timeout # 0) ~> pc \notin Connecting
  /\ (pc = "read" /\ timeout # 0) ~> (pc # "read" \/ interrupted)
  /\ (pc = "start" /\ ~open /\ ~session.compressed) ~> pc # "start"
==============================================================================
