------------------------ MODULE LiveConnection_proofs ------------------------
(***************************************************************************)
(* The connect loop of TcpClient and the bytes of a session, for every     *)
(* retry configuration, number of addresses, session of the gateway, size  *)
(* of the buffer and timeout.                                              *)
(***************************************************************************)
EXTENDS LiveConnection, StreamLemmas

\* The i-th wait of the connect loop.
Backoff(i) == IF i = 1 THEN 1 ELSE Shorter(TwoTo[i - 1], conf.max_wait)

\* The loops of InitSocket: how often ConnectTo was called, and the waits so far.
LoopInv ==
  /\ conf \in Confs
  /\ waits \in Seq(Nat) /\ \A i \in 1..Len(waits) : waits[i] = Backoff(i)
  /\ pc \in Connecting \cup {"failed"} =>
       /\ addr \in 1..Addresses /\ attempt \in 0..(MaxAttempts - 1)
       /\ tried = attempt * Addresses + addr - (IF pc = "connecting" THEN 1 ELSE 0)
       /\ Len(waits) = attempt + (IF pc = "sleeping" THEN 1 ELSE 0)
       /\ backoff = Backoff(attempt + 1)
       /\ pc = "sleeping" => addr = Addresses /\ attempt + 1 < MaxAttempts
       /\ pc = "failed" => addr = Addresses /\ attempt + 1 = MaxAttempts

\* What Reconnect was called from.
OldInv == old \in {"none", "idle", "closed", "short", "garbled", "rejected", "stopped"}

InSession == Phase \in {"start", "idle", "read", "closed", "short"}
Tok == SessionToken(session.compressed)

\* Before a session there are no bytes but the greeting, and no decompressor.
GreetingInv ==
  /\ pc \in {"auth", "authenticated"} => zstd = NoZstd /\ buf = << >> /\ taken = << >>
  /\ pc = "auth" => \/ wire = << >> /\ script = <<Greeting>>
                    \/ wire = <<Greeting>> /\ script = << >>
  /\ pc = "authenticated" => wire = << >> /\ script = << >>

\* In a session, its bytes are in their places.
Placed(t, b, z, w, s) ==
  /\ t \in Seq(STRING) /\ b \in Seq(STRING) /\ (z = NoZstd <=> ~session.compressed)
  /\ InPlace(Cat(t, b), z, w, s, STRING, Tok, Content)
BytesInv ==
  /\ session \in Sessions /\ Phase # "garbled"
  /\ InSession => Placed(taken, buf, zstd, wire, script) /\ Len(buf) <= BufferSize
  /\ pc = "start" => Len(buf) < HeaderLen
  /\ pc = "read" => Len(buf) < BufferSize

-----------------------------------------------------------------------------
(* The connect loop.                                                       *)

\* The powers of two.
LEMMA TwoToLemma == TwoTo[0] = 1 /\ \A n \in Nat : TwoTo[n] \in Nat /\ TwoTo[n + 1] = 2 * TwoTo[n]
<1> DEFINE Up(n, g) == g \in [0..n -> Nat] /\ g[0] = 1 /\ \A k \in 1..n : g[k] = 2 * g[k - 1]
           Is(f) == f = [n \in Nat |-> IF n = 0 THEN 1 ELSE 2 * f[n - 1]]
<1>1. ASSUME NEW n \in Nat PROVE \E g : Up(n, g)
  <2> DEFINE step == [k \in 1..n |-> [x \in Nat |-> 2 * x]]
  <2>1. 1 \in Nat /\ step \in [1..n -> [Nat -> Nat]]
    OBVIOUS
  <2>2. PICK g : Recurs(g, Nat, n, 1, step)
    BY <2>1, RecursionExists
  <2>3. g \in [0..n -> Nat] /\ g[0] = 1 /\ \A k \in 1..n : g[k] = step[k][g[k - 1]]
    BY <2>2 DEF Recurs
  <2>4. ASSUME NEW k \in 1..n PROVE g[k] = 2 * g[k - 1]
    <3>1. g[k - 1] \in Nat
      BY <2>3
    <3> QED
      BY <2>3, <3>1
  <2> QED
    BY <2>3, <2>4
<1>2. ASSUME NEW m \in Nat, NEW g, Up(m, g), NEW h, Up(m + 1, h) PROVE g[m] = h[m]
  <2> DEFINE S == {k \in Nat : k <= m => g[k] = h[k]}
  <2>1. 0 \in S
    BY <1>2
  <2>2. ASSUME NEW k \in S PROVE k + 1 \in S
    <3> SUFFICES ASSUME k + 1 <= m PROVE g[k + 1] = h[k + 1]
      BY <2>2
    <3>1. k + 1 \in 1..m /\ k + 1 \in 1..(m + 1) /\ (k + 1) - 1 = k /\ k <= m
      BY <2>2
    <3>2. g[k] = h[k]
      BY <2>2, <3>1
    <3> QED
      BY <1>2, <3>1, <3>2
  <2>3. S = Nat
    BY <2>1, <2>2, SetInduction
  <2> QED
    BY <2>3
<1> DEFINE G(n) == CHOOSE g : Up(n, g)
           F == [n \in Nat |-> G(n)[n]]
<1>3. \A n \in Nat : Up(n, G(n))
  <2> HIDE DEF Up
  <2> QED
    BY <1>1, Zenon
<1> HIDE DEF G
<1>4. \A n \in Nat : F[n] = G(n)[n] /\ F[n] \in Nat
  BY <1>3
<1>5. F[0] = 1
  BY <1>3, <1>4
<1>6. ASSUME NEW n \in Nat PROVE F[n + 1] = 2 * F[n]
  <2>1. n + 1 \in Nat /\ n + 1 \in 1..(n + 1) /\ (n + 1) - 1 = n
    OBVIOUS
  <2>2. G(n + 1)[n + 1] = 2 * G(n + 1)[n]
    BY <1>3, <2>1
  <2>3. G(n)[n] = G(n + 1)[n]
    <3> HIDE DEF Up
    <3>1. Up(n, G(n)) /\ Up(n + 1, G(n + 1))
      BY <1>3, <2>1
    <3> QED
      BY <1>2, <3>1
  <2> QED
    BY <1>4, <2>1, <2>2, <2>3
<1> HIDE DEF F
<1>7. F = [n \in Nat |-> IF n = 0 THEN 1 ELSE 2 * F[n - 1]]
  <2>1. F = [n \in Nat |-> F[n]]
    BY DEF F
  <2>2. ASSUME NEW n \in Nat PROVE F[n] = IF n = 0 THEN 1 ELSE 2 * F[n - 1]
    <3>1. CASE n = 0
      BY <1>5, <3>1
    <3>2. CASE n # 0
      <4>1. n - 1 \in Nat /\ (n - 1) + 1 = n
        BY <3>2
      <4> QED
        BY <1>6, <3>2, <4>1
    <3> QED
      BY <3>1, <3>2
  <2> QED
    BY <2>1, <2>2
<1>8. Is(TwoTo)
  BY <1>7, Zenon DEF TwoTo
<1>9. \A n \in Nat : TwoTo[n] = IF n = 0 THEN 1 ELSE 2 * TwoTo[n - 1]
  BY <1>8, Zenon
<1>10. TwoTo[0] = 1
  BY <1>9
<1>11. \A n \in Nat : TwoTo[n + 1] = 2 * TwoTo[n]
  <2> SUFFICES ASSUME NEW n \in Nat PROVE TwoTo[n + 1] = 2 * TwoTo[n]
    OBVIOUS
  <2>1. n + 1 \in Nat /\ n + 1 # 0 /\ (n + 1) - 1 = n
    OBVIOUS
  <2>2. TwoTo[n + 1] = IF n + 1 = 0 THEN 1 ELSE 2 * TwoTo[(n + 1) - 1]
    BY <1>9, <2>1, Zenon
  <2> QED
    BY <2>1, <2>2
<1> DEFINE S == {n \in Nat : TwoTo[n] \in Nat}
<1>12. 0 \in S
  BY <1>10
<1>13. ASSUME NEW n \in S PROVE n + 1 \in S
  BY <1>11, <1>13
<1>14. S = Nat
  BY <1>12, <1>13, SetInduction
<1> QED
  BY <1>10, <1>11, <1>14

\* The waits double up to max_wait.
LEMMA BackoffLemma ==
  ASSUME conf \in Confs, NEW i \in Nat \ {0}
  PROVE  Backoff(i) \in Nat /\ Shorter(Backoff(i) * 2, conf.max_wait) = Backoff(i + 1)
<1> DEFINE w == conf.max_wait
           a == TwoTo[i - 1]
           b == TwoTo[i]
<1>1. w \in Nat
  BY ConnectionAssumption
<1>2. a \in Nat /\ b = 2 * a /\ (i + 1) - 1 = i /\ i + 1 # 1
  <2>1. i - 1 \in Nat /\ (i - 1) + 1 = i
    OBVIOUS
  <2> QED
    BY <2>1, TwoToLemma
<1>3. i = 1 => a = 1
  BY TwoToLemma
<1>4. Backoff(i) = (IF i = 1 THEN 1 ELSE IF a < w THEN a ELSE w)
      /\ Backoff(i + 1) = IF b < w THEN b ELSE w
  BY <1>2 DEF Backoff, Shorter
<1>5. Shorter(Backoff(i) * 2, w) = IF Backoff(i) * 2 < w THEN Backoff(i) * 2 ELSE w
  BY DEF Shorter
<1> HIDE DEF w, a, b
<1> QED
  <2>1. Backoff(i) \in Nat
    BY <1>1, <1>2, <1>4
  <2>2. Shorter(Backoff(i) * 2, w) = Backoff(i + 1)
    BY <1>1, <1>2, <1>3, <1>4, <1>5
  <2> QED
    BY <2>1, <2>2 DEF w


\* Facts the constants give.
LEMMA ConfFacts ==
  ASSUME conf \in Confs
  PROVE  Addresses \in Nat /\ Addresses >= 1 /\ MaxAttempts \in Nat /\ MaxAttempts >= 1
<1>1. conf.max_attempts \in Nat
  BY ConnectionAssumption
<1> QED
  BY <1>1, ConnectionAssumption DEF MaxAttempts

\* A failed call of ConnectTo goes on to the next address, waits or gives up.
LEMMA AddressFailsLoop ==
  ASSUME LoopInv, AddressFails, UNCHANGED conf,
         addr \in 1..Addresses, attempt \in 0..(MaxAttempts - 1),
         tried' = attempt * Addresses + addr, Len(waits) = attempt,
         backoff = Backoff(attempt + 1)
  PROVE  LoopInv'
<1>1. conf \in Confs /\ conf' = conf /\ waits \in Seq(Nat)
      /\ \A i \in 1..Len(waits) : waits[i] = Backoff(i)
  BY DEF LoopInv
<1>2. MaxAttempts' = MaxAttempts /\ \A i : Backoff(i)' = Backoff(i)
  BY <1>1 DEF MaxAttempts, Backoff
<1>3. /\ Addresses \in Nat /\ Addresses >= 1 /\ MaxAttempts \in Nat /\ MaxAttempts >= 1
      /\ attempt \in Nat /\ attempt + 1 \in Nat \ {0}
  BY <1>1, ConfFacts
<1>4. attempt' = attempt /\ backoff' = backoff
  BY DEF AddressFails
<1>5. CASE addr < Addresses /\ addr' = addr + 1 /\ pc' = "connecting" /\ waits' = waits
  <2>1. tried' = attempt * Addresses + addr' - 1
    <3>1. attempt * Addresses \in Int
      BY <1>3
    <3> QED
      BY <1>5, <3>1
  <2>2. addr' \in 1..Addresses /\ attempt' \in 0..(MaxAttempts' - 1) /\ Len(waits') = attempt' + 0
    BY <1>2, <1>3, <1>4, <1>5
  <2>3. (backoff = Backoff(attempt + 1))'
    BY <1>1, <1>4 DEF Backoff
  <2>4. (waits \in Seq(Nat) /\ \A i \in 1..Len(waits) : waits[i] = Backoff(i))'
    BY <1>1, <1>2, <1>5
  <2> QED
    BY <1>1, <1>4, <1>5, <2>1, <2>2, <2>3, <2>4 DEF LoopInv, Connecting
<1>6. CASE addr = Addresses /\ attempt + 1 = MaxAttempts /\ pc' = "failed" /\ addr' = addr /\ waits' = waits
  <2>1. tried' = attempt * Addresses + addr' - 0
    <3>1. attempt * Addresses \in Int
      BY <1>3
    <3> QED
      BY <1>6, <3>1
  <2> QED
    BY <1>1, <1>2, <1>3, <1>4, <1>6, <2>1 DEF LoopInv, Connecting
<1>7. CASE /\ addr = Addresses /\ attempt + 1 < MaxAttempts /\ pc' = "sleeping" /\ addr' = addr
           /\ waits' = Append(waits, backoff)
  <2>1. tried' = attempt * Addresses + addr' - 0
    <3>1. attempt * Addresses \in Int
      BY <1>3
    <3> QED
      BY <1>7, <3>1
  <2>2. backoff \in Nat
    BY <1>1, <1>3, BackoffLemma
  <2>3. waits' \in Seq(Nat) /\ Len(waits') = attempt + 1
    BY <1>1, <1>7, <2>2
  <2>4. \A i \in 1..Len(waits') : waits'[i] = Backoff(i)
    BY <1>1, <1>3, <1>7, <2>2, <2>3
  <2> QED
    BY <1>1, <1>2, <1>3, <1>4, <1>7, <2>1, <2>3, <2>4 DEF LoopInv, Connecting
<1> QED
  BY <1>5, <1>6, <1>7 DEF AddressFails

\* Away from the connect loop nothing is asked but that the waits stay.
LEMMA LeavesLoop ==
  ASSUME LoopInv, UNCHANGED <<conf, waits>>, pc' \notin Connecting \cup {"failed"}
  PROVE  LoopInv'
<1>1. \A i : Backoff(i)' = Backoff(i)
  BY DEF Backoff
<1> QED
  BY <1>1 DEF LoopInv

\* Steps that leave the loop where it is.
LEMMA StaysInLoop ==
  ASSUME LoopInv, UNCHANGED <<conf, waits, attempt, addr, backoff, tried, pc>>
  PROVE  LoopInv'
<1>1. MaxAttempts' = MaxAttempts /\ \A i : Backoff(i)' = Backoff(i)
  BY DEF MaxAttempts, Backoff
<1> QED
  BY <1>1 DEF LoopInv

\* The first constructor replaces nothing.
LEMMA OldInit == Init => OldInv
  BY DEF Init, OldInv

\* Only Reconnect has an old connection, and only a client outside of its calls reconnects.
LEMMA OldNext == OldInv /\ [Next]_vars => OldInv'
<1> SUFFICES ASSUME OldInv, [Next]_vars PROVE OldInv'
  OBVIOUS
<1> USE DEF connectVars
<1>1. CASE Connect \/ PollForConnectReturns
  BY <1>1 DEF Connect, PollForConnectReturns, Connected, AddressFails, OldInv
<1>2. CASE Reconnect
  BY <1>2 DEF Reconnect, OldInv
<1>3. CASE \/ Wake \/ Start \/ (\E t \in Timeouts : ReadSome(t)) \/ (\E n \in 1..BufferSize : Take(n))
           \/ ReconnectThrows \/ Close \/ ConnectInterrupted \/ ReadInterrupted
           \/ GatewaySends \/ GatewayCloses \/ Tick \/ Done \/ UNCHANGED vars
  BY <1>3
  DEF Wake, Start, ReadSome, Take, ReconnectThrows, Close, ConnectInterrupted, ReadInterrupted,
      GatewaySends, GatewayCloses, Tick, Done, vars, OldInv
<1>4. CASE \/ (\E n \in 1..BufferSize : RecvPlain(n)) \/ RecvZstd \/ RecvClosed \/ RecvTimesOut
  BY <1>4 DEF RecvPlain, RecvZstd, RecvClosed, RecvTimesOut, RoundEnds, OldInv
<1> QED
  BY <1>1, <1>2, <1>3, <1>4 DEF Next, Client

\* The constructor enters the loops.
LEMMA LoopInit == Init => LoopInv
<1> SUFFICES ASSUME Init PROVE LoopInv
  OBVIOUS
<1>1. conf \in Confs /\ pc = "connecting" /\ attempt = 0 /\ addr = 1 /\ backoff = 1 /\ tried = 0 /\ waits = << >>
  BY DEF Init
<1>2. Addresses \in Nat /\ Addresses >= 1 /\ MaxAttempts \in Nat /\ MaxAttempts >= 1
  BY <1>1, ConfFacts
<1>3. Backoff(0 + 1) = 1 /\ 0 * Addresses = 0 /\ << >> \in Seq(Nat) /\ Len(<< >>) = 0
  BY <1>2 DEF Backoff
<1> QED
  BY <1>1, <1>2, <1>3 DEF LoopInv, Connecting

\* Every step keeps the loops' counters, and the waits, in step with each other.
LEMMA LoopStep == LoopInv /\ OldInv /\ [Next]_vars => LoopInv'
<1> SUFFICES ASSUME LoopInv, OldInv, [Next]_vars PROVE LoopInv'
  OBVIOUS
<1>0. conf \in Confs /\ Addresses \in Nat /\ Addresses >= 1 /\ MaxAttempts \in Nat /\ MaxAttempts >= 1
  BY ConfFacts DEF LoopInv
<1>1. CASE Connect
  <2>1. /\ pc = "connecting" /\ tried' = tried + 1 /\ conf' = conf
        /\ addr \in 1..Addresses /\ attempt \in 0..(MaxAttempts - 1)
        /\ tried = attempt * Addresses + addr - 1 /\ Len(waits) = attempt + 0
        /\ backoff = Backoff(attempt + 1)
    BY <1>1 DEF Connect, LoopInv, Connecting, constVars
  <2>2. tried' = attempt * Addresses + addr /\ Len(waits) = attempt
    <3>1. attempt \in Nat /\ attempt * Addresses \in Int
      BY <1>0, <2>1
    <3> QED
      BY <2>1, <3>1
  <2>3. CASE Connected
    BY <2>1, <2>3, LeavesLoop DEF Connected, Connecting
  <2>4. CASE AddressFails
    BY <2>1, <2>2, <2>4, AddressFailsLoop
  <2>5. CASE pc' = "polling" /\ UNCHANGED <<attempt, addr, backoff, waits>>
    <3>1. MaxAttempts' = MaxAttempts /\ \A i : Backoff(i)' = Backoff(i)
      BY <2>1 DEF MaxAttempts, Backoff
    <3>2. waits \in Seq(Nat) /\ \A i \in 1..Len(waits) : waits[i] = Backoff(i)
      BY DEF LoopInv
    <3>3. tried' = attempt * Addresses + addr - 0 /\ Len(waits) = attempt + 0
      <4>1. attempt \in Nat /\ attempt * Addresses \in Int
        BY <1>0, <2>1
      <4> QED
        BY <2>1, <2>2, <4>1
    <3> QED
      BY <1>0, <2>1, <2>5, <3>1, <3>2, <3>3 DEF LoopInv, Connecting
  <2> QED
    BY <1>1, <2>3, <2>4, <2>5 DEF Connect
<1>2. CASE PollForConnectReturns
  <2>1. /\ pc = "polling" /\ tried' = tried /\ conf' = conf
        /\ addr \in 1..Addresses /\ attempt \in 0..(MaxAttempts - 1)
        /\ tried = attempt * Addresses + addr - 0 /\ Len(waits) = attempt + 0
        /\ backoff = Backoff(attempt + 1)
    BY <1>2 DEF PollForConnectReturns, LoopInv, Connecting, constVars
  <2>2. tried' = attempt * Addresses + addr /\ Len(waits) = attempt
    <3>1. attempt \in Nat /\ attempt * Addresses \in Int
      BY <1>0, <2>1
    <3> QED
      BY <2>1, <3>1
  <2>3. CASE Connected
    BY <2>1, <2>3, LeavesLoop DEF Connected, Connecting
  <2>4. CASE AddressFails
    BY <2>1, <2>2, <2>4, AddressFailsLoop
  <2> QED
    BY <1>2, <2>3, <2>4 DEF PollForConnectReturns
<1>3. CASE Wake
  <2>1. /\ pc = "sleeping" /\ pc' = "connecting" /\ attempt' = attempt + 1 /\ addr' = 1
        /\ backoff' = NextBackoff /\ tried' = tried /\ waits' = waits /\ conf' = conf
    BY <1>3 DEF Wake, constVars
  <2>2. /\ addr = Addresses /\ attempt \in 0..(MaxAttempts - 1) /\ attempt + 1 < MaxAttempts
        /\ tried = attempt * Addresses + addr - 0 /\ Len(waits) = attempt + 1
        /\ backoff = Backoff(attempt + 1) /\ waits \in Seq(Nat)
        /\ \A i \in 1..Len(waits) : waits[i] = Backoff(i)
    BY <2>1 DEF LoopInv, Connecting
  <2>3. MaxAttempts' = MaxAttempts /\ \A i : Backoff(i)' = Backoff(i)
    BY <2>1 DEF MaxAttempts, Backoff
  <2>4. attempt \in Nat /\ attempt + 1 \in Nat \ {0}
    BY <1>0, <2>2
  <2>5. backoff' = Backoff(attempt' + 1)
    BY <1>0, <2>1, <2>2, <2>4, BackoffLemma DEF NextBackoff
  <2>6. tried' = attempt' * Addresses + addr' - 1
    <3>1. \A a, n \in Nat : a * n + n - 0 = (a + 1) * n + 1 - 1
      OBVIOUS
    <3> QED
      BY <1>0, <2>1, <2>2, <2>4, <3>1
  <2>7. Len(waits') = attempt' + 0
    BY <2>1, <2>2, <2>4
  <2> QED
    BY <1>0, <2>1, <2>2, <2>3, <2>4, <2>5, <2>6, <2>7 DEF LoopInv, Connecting
<1>4. CASE Reconnect
  <2>1. /\ pc' = "connecting" /\ attempt' = 0 /\ addr' = 1 /\ backoff' = 1 /\ tried' = 0
        /\ waits' = << >> /\ conf' = conf
    BY <1>4 DEF Reconnect, InitSocket, constVars
  <2>2. MaxAttempts' = MaxAttempts /\ Backoff(0 + 1)' = 1
    BY <2>1 DEF MaxAttempts, Backoff
  <2>3. 0 * Addresses = 0 /\ << >> \in Seq(Nat) /\ Len(<< >>) = 0
    BY <1>0
  <2> QED
    BY <1>0, <2>1, <2>2, <2>3 DEF LoopInv, Connecting
<1>5. CASE ConnectInterrupted \/ Tick \/ GatewaySends \/ GatewayCloses \/ UNCHANGED vars \/ Done
  BY <1>5, StaysInLoop
  DEF ConnectInterrupted, Tick, GatewaySends, GatewayCloses, vars, Done, constVars, connectVars
<1>6. CASE ReadInterrupted \/ Start \/ (\E t \in Timeouts : ReadSome(t)) \/ (\E n \in 1..BufferSize : Take(n))
           \/ Close \/ ReconnectThrows
  BY <1>6, LeavesLoop
  DEF ReadInterrupted, Start, ReadSome, Take, Close, ReconnectThrows, OldInv, constVars, connectVars, Connecting
<1>7. CASE \/ (\E n \in 1..BufferSize : RecvPlain(n)) \/ RecvZstd \/ RecvClosed \/ RecvTimesOut
  <2>1. UNCHANGED <<conf, waits>>
    BY <1>7 DEF RecvPlain, RecvZstd, RecvClosed, RecvTimesOut, RoundEnds, constVars, connectVars
  <2>2. pc' \notin Connecting \cup {"failed"}
    BY <1>7
    DEF RecvPlain, RecvZstd, RecvClosed, RecvTimesOut, RoundEnds, Got, Reading, Connecting
  <2> QED
    BY <2>1, <2>2, LeavesLoop
<1> QED
  BY <1>1, <1>2, <1>3, <1>4, <1>5, <1>6, <1>7 DEF Next, Client

\* The constructor gives up only when every address has been tried in every attempt, with
\* waits that double up to max_wait (TcpClient::InitSocket).
THEOREM ConnectTriesAllHolds == Spec => []ConnectTriesAll
<1>1. LoopInv => ConnectTriesAll
  <2> SUFFICES ASSUME LoopInv PROVE ConnectTriesAll
    OBVIOUS
  <2>1. Addresses \in Nat /\ Addresses >= 1 /\ MaxAttempts \in Nat /\ MaxAttempts >= 1
    BY ConfFacts DEF LoopInv
  <2>2. ASSUME pc = "failed" PROVE tried = Addresses * MaxAttempts /\ Len(waits) = MaxAttempts - 1
    <3>1. /\ attempt \in 0..(MaxAttempts - 1) /\ attempt + 1 = MaxAttempts
          /\ tried = attempt * Addresses + Addresses - 0 /\ Len(waits) = attempt + 0
      BY <2>2 DEF LoopInv
    <3>2. \A a, n \in Nat : a * n + n - 0 = n * (a + 1)
      OBVIOUS
    <3>3. attempt \in Nat
      BY <2>1, <3>1
    <3> QED
      BY <2>1, <3>1, <3>2, <3>3
  <2>3. \A i \in 1..Len(waits) : waits[i] = IF i = 1 THEN 1 ELSE Shorter(TwoTo[i - 1], conf.max_wait)
    BY DEF LoopInv, Backoff
  <2> QED
    BY <2>2, <2>3 DEF ConnectTriesAll
<1> QED
  BY <1>1, OldInit, OldNext, LoopInit, LoopStep, PTL DEF Spec


-----------------------------------------------------------------------------
(* The bytes of a session.                                                 *)

\* What a gateway may send in its session.
LEMMA TokFacts ==
  ASSUME session \in Sessions
  PROVE  /\ Tok \in SUBSET TokensOf(STRING) /\ session.compressed \in BOOLEAN
         /\ session.tokens \in Seq(Tok)
         /\ session.compressed => /\ Hostage \in Tok
                                  /\ \A t \in Tok : t.kind # "corrupt" /\ t.kind # "plain"
         /\ ~session.compressed => \A t \in Tok : t.kind = "plain" /\ Len(t.out) = 1
<1>1. session.compressed \in BOOLEAN /\ session.tokens \in Seq(Tok)
  BY ConnectionAssumption DEF Tok
<1>2. Tok \in SUBSET TokensOf(STRING)
  BY DEF Tok, SessionToken, TokensOf
<1>3. ASSUME session.compressed PROVE Hostage \in Tok
  <2>1. << >> \in Seq(STRING)
    OBVIOUS
  <2>2. Hostage \in TokensOf(STRING) /\ Hostage.kind = "data"
    BY <2>1 DEF Hostage, Token, TokensOf, Kinds
  <2> QED
    BY <1>3, <2>2 DEF Tok, SessionToken
<1>4. ASSUME session.compressed PROVE \A t \in Tok : t.kind # "corrupt" /\ t.kind # "plain"
  BY <1>4 DEF Tok, SessionToken
<1>5. ASSUME ~session.compressed PROVE \A t \in Tok : t.kind = "plain" /\ Len(t.out) = 1
  BY <1>5 DEF Tok, SessionToken
<1> QED
  BY <1>1, <1>2, <1>3, <1>4, <1>5

\* A round of the decompressor's loop moves bytes from the wire to the client.
LEMMA PlacedRound ==
  ASSUME session \in Sessions, session.compressed, NEW new \in Seq(Tok), NEW ww \in Seq(Tok),
         NEW t, NEW b, NEW z, NEW s, Placed(t, b, z, Cat(new, ww), s), NEW room \in Nat, NEW r,
         r = ReadSomeStep(z, new, room)
  PROVE  /\ Placed(t, Cat(b, r.out), r.z, ww, s)
         /\ ~r.error /\ r.out \in Seq(STRING) /\ Len(r.out) <= room
         /\ (r.again => r.out = << >>)
<1> DEFINE B == STRING
           c == Content
<1>1. t \in Seq(B) /\ b \in Seq(B) /\ InPlace(Cat(t, b), z, Cat(new, ww), s, B, Tok, c)
  BY DEF Placed
<1>2. Tok \in SUBSET TokensOf(B) /\ Hostage \in Tok /\ \A k \in Tok : k.kind # "corrupt"
  BY TokFacts
<1> HIDE DEF B, c
<1>3. /\ InPlace(Cat(Cat(t, b), r.out), r.z, ww, s, B, Tok, c)
      /\ r.out \in Seq(B) /\ Len(r.out) <= room /\ r.z.suggestion \in {0, 1} /\ ~r.error
      /\ (r.again => r.out = << >>)
  BY <1>1, <1>2, InPlaceRound
<1>4. Cat(b, r.out) \in Seq(B) /\ Cat(t, Cat(b, r.out)) = Cat(Cat(t, b), r.out)
  <2> DEFINE o == r.out
  <2>1. t \in Seq(B) /\ b \in Seq(B) /\ o \in Seq(B)
    BY <1>1, <1>3
  <2> HIDE DEF o
  <2>2. Cat(b, o) \in Seq(B) /\ Cat(t, Cat(b, o)) = Cat(Cat(t, b), o)
    BY <2>1, CatFacts
  <2> QED
    BY <2>2 DEF o
<1>5. r.z # NoZstd
  BY <1>3 DEF NoZstd
<1> QED
  BY <1>1, <1>3, <1>4, <1>5 DEF Placed, B, c

\* recv moves plain bytes from the wire to the client.
LEMMA PlacedPlain ==
  ASSUME session \in Sessions, ~session.compressed,
         NEW t, NEW b, NEW z, NEW w, NEW s, Placed(t, b, z, w, s), NEW n \in 0..Len(w)
  PROVE  /\ Placed(t, Cat(b, FirstBytes(w, n)), z, SubSeq(w, n + 1, Len(w)), s)
         /\ FirstBytes(w, n) \in Seq(STRING) /\ Len(FirstBytes(w, n)) = n
         /\ \A i \in 1..n : w[i].kind = "plain"
<1> DEFINE B == STRING
           o == FirstBytes(w, n)
           c == Content
           ww == SubSeq(w, n + 1, Len(w))
<1>1. t \in Seq(B) /\ b \in Seq(B) /\ z = NoZstd /\ InPlace(Cat(t, b), z, w, s, B, Tok, c)
  BY DEF Placed
<1>2. Tok \in SUBSET TokensOf(B) /\ \A k \in Tok : k.kind = "plain" /\ Len(k.out) = 1
  BY TokFacts
<1>3. Len(w) \in Nat /\ \A i \in 1..Len(w) : w[i] \in Tok
  BY <1>1, ElementOfSeq DEF InPlace
<1>4. SingleBytes(w) /\ \A i \in 1..n : w[i].kind = "plain"
  BY <1>2, <1>3 DEF SingleBytes
<1>5. z.held = << >> /\ z.unread = << >>
  BY <1>1 DEF NoZstd
<1> HIDE DEF B, c, o
<1>6. InPlace(Cat(Cat(t, b), o), z, ww, s, B, Tok, c) /\ o \in Seq(B) /\ Len(o) = n
  <2> DEFINE x == Cat(t, b)
  <2>1. InPlace(x, z, w, s, B, Tok, c) /\ SingleBytes(w) /\ Tok \in SUBSET TokensOf(B)
    BY <1>1, <1>2, <1>4
  <2> HIDE DEF x
  <2>2. /\ InPlace(Cat(x, FirstBytes(w, n)), z, SubSeq(w, n + 1, Len(w)), s, B, Tok, c)
        /\ FirstBytes(w, n) \in Seq(B) /\ Len(FirstBytes(w, n)) = n
    BY <1>5, <2>1, InPlacePlain
  <2> QED
    BY <2>2 DEF o, x
<1> HIDE DEF ww
<1>7. Cat(b, o) \in Seq(B) /\ Cat(t, Cat(b, o)) = Cat(Cat(t, b), o)
  BY <1>1, <1>6, CatFacts
<1>8. Placed(t, Cat(b, o), z, ww, s)
  BY <1>1, <1>6, <1>7 DEF Placed, B, c
<1> QED
  BY <1>4, <1>6, <1>8 DEF o, ww, B

\* The application takes bytes out of the client's buffer.
LEMMA PlacedTake ==
  ASSUME session \in Sessions, NEW t, NEW b, NEW z, NEW w, NEW s, Placed(t, b, z, w, s),
         NEW n \in 0..Len(b)
  PROVE  /\ Placed(Cat(t, SubSeq(b, 1, n)), SubSeq(b, n + 1, Len(b)), z, w, s)
         /\ Len(SubSeq(b, n + 1, Len(b))) <= Len(b)
<1> DEFINE B == STRING
           x == SubSeq(b, 1, n)
           y == SubSeq(b, n + 1, Len(b))
<1>1. t \in Seq(B) /\ b \in Seq(B) /\ Len(b) \in Nat
  BY DEF Placed
<1>2. x \in Seq(B) /\ y \in Seq(B) /\ Len(y) = Len(b) - n
  BY <1>1, TakeDrop
<1>3. Cat(x, y) = b
  BY <1>1, Rejoined DEF Cat
<1> HIDE DEF B, x, y
<1>4. Cat(t, x) \in Seq(B) /\ Cat(Cat(t, x), y) = Cat(t, b)
  BY <1>1, <1>2, <1>3, CatFacts
<1>5. Len(y) <= Len(b)
  BY <1>1, <1>2
<1> QED
  BY <1>2, <1>4, <1>5 DEF Placed, B, x, y

\* A token of the gateway arrives.
LEMMA PlacedSend ==
  ASSUME session \in Sessions, NEW t, NEW b, NEW z, NEW w, NEW s, Placed(t, b, z, w, s), s # << >>
  PROVE  Placed(t, b, z, Append(w, s[1]), SubSeq(s, 2, Len(s)))
<1> DEFINE B == STRING
           c == Content
           x == Cat(t, b)
<1>1. InPlace(x, z, w, s, B, Tok, c)
  BY DEF Placed
<1>2. Tok \in SUBSET TokensOf(B)
  BY TokFacts
<1> HIDE DEF B, c, x
<1>3. InPlace(x, z, Append(w, s[1]), SubSeq(s, 2, Len(s)), B, Tok, c)
  BY <1>1, <1>2, InPlaceSend
<1> QED
  BY <1>3 DEF Placed, B, c, x

-----------------------------------------------------------------------------

\* What the bytes' places say of the next state.
PlacedNext == Placed(taken', buf', zstd', wire', script')

\* It is the next state's placement.
LEMMA PlacedPrime ==
  ASSUME PlacedNext, UNCHANGED session
  PROVE  Placed(taken, buf, zstd, wire, script)'
  BY DEF PlacedNext, Placed, Tok, Content

\* A step inside a session.
LEMMA SessionStep ==
  ASSUME BytesInv, UNCHANGED session, Phase' \in {"start", "idle", "read", "closed", "short"},
         PlacedNext, Len(buf') <= BufferSize,
         pc' = "start" => Len(buf') < HeaderLen, pc' = "read" => Len(buf') < BufferSize
  PROVE  GreetingInv' /\ BytesInv'
<1>1. Placed(taken, buf, zstd, wire, script)'
  BY PlacedPrime
<1>2. GreetingInv'
  BY DEF GreetingInv, Phase, Connecting
<1> QED
  BY <1>1, <1>2 DEF BytesInv, InSession, Phase, Connecting

\* A step outside of one.
LEMMA OutsideStep ==
  ASSUME BytesInv, UNCHANGED session, Phase' \notin {"start", "idle", "read", "closed", "short", "garbled"}
  PROVE  BytesInv'
  BY DEF BytesInv, InSession, Phase, Connecting

\* A step of the clock, a signal, a constructor or the end of the connection.
LEMMA QuietStep ==
  ASSUME GreetingInv, BytesInv, UNCHANGED <<session, taken, buf, zstd, wire, script>>,
         Phase' \in {Phase, "stopped"},
         pc' \in {"auth", "authenticated", "start", "read"} => pc' = pc
  PROVE  GreetingInv' /\ BytesInv'
<1>1. CASE Phase' = Phase
  <2>1. GreetingInv'
    BY DEF GreetingInv
  <2>2. InSession' <=> InSession
    BY <1>1 DEF InSession
  <2>3. InSession' => Placed(taken, buf, zstd, wire, script)'
    BY <2>2 DEF BytesInv, Placed, Tok, Content
  <2> QED
    BY <1>1, <2>1, <2>2, <2>3 DEF BytesInv
<1>2. CASE Phase' = "stopped"
  <2>1. GreetingInv'
    BY DEF GreetingInv
  <2> QED
    BY <1>2, <2>1, OutsideStep
<1> QED
  BY <1>1, <1>2

\* Data reaches the client's buffer in a session.
LEMMA GotStep ==
  ASSUME BytesInv, UNCHANGED <<session, taken, script>>, pc \in {"start", "read"},
         NEW data \in Seq(STRING), Len(data) <= Room, NEW ended, Got(data, ended),
         Placed(taken, Cat(buf, data), zstd', wire', script)
  PROVE  GreetingInv' /\ BytesInv'
<1>1. buf \in Seq(STRING) /\ Len(buf) <= BufferSize /\ BufferSize \in Nat /\ HeaderLen \in Nat
      /\ BufferSize >= HeaderLen
  BY ConnectionAssumption DEF BytesInv, InSession, Placed, Phase, Connecting
<1>2. Len(buf \o data) = Len(buf) + Len(data) /\ Len(buf) \in Nat /\ Len(data) \in Nat
  BY <1>1
<1>3. buf' = buf \o data
  BY DEF Got
<1>4. Len(buf') <= BufferSize
  BY <1>1, <1>2, <1>3, ConnectionAssumption DEF Room, Wanted
<1>5. PlacedNext
  BY <1>3 DEF PlacedNext, Cat
<1>6. pc' \in {"start", "idle", "short"} /\ (pc' = "start" => Len(buf') < HeaderLen)
  BY <1>3 DEF Got
<1> QED
  BY <1>4, <1>5, <1>6, SessionStep DEF Phase, Connecting

\* A round of the decompressor's loop ends.
LEMMA RoundStep ==
  ASSUME BytesInv, UNCHANGED <<session, taken, script>>, pc \in {"start", "read"}, zstd # NoZstd,
         NEW new \in Seq(Tok), NEW ww \in Seq(Tok), wire = Cat(new, ww), wire' = ww,
         NEW r, r = ReadSomeStep(zstd, new, Room), NEW status, RoundEnds(r, status)
  PROVE  GreetingInv' /\ BytesInv'
<1>1. /\ session \in Sessions /\ Placed(taken, buf, zstd, wire, script) /\ Len(buf) <= BufferSize
      /\ (pc = "start" => Len(buf) < HeaderLen) /\ (pc = "read" => Len(buf) < BufferSize)
  BY DEF BytesInv, InSession, Phase, Connecting
<1>2. session.compressed /\ buf \in Seq(STRING)
  BY <1>1, TokFacts DEF Placed
<1>3. Room \in Nat
  <2>1. Len(buf) \in Nat
    BY <1>2
  <2> QED
    BY <1>1, <2>1, ConnectionAssumption DEF Room, Wanted
<1>4. /\ Placed(taken, Cat(buf, r.out), r.z, ww, script)
      /\ ~r.error /\ r.out \in Seq(STRING) /\ Len(r.out) <= Room /\ (r.again => r.out = << >>)
  BY <1>1, <1>2, <1>3, PlacedRound
<1>5. zstd' = r.z
  BY DEF RoundEnds
<1>6. Placed(taken, Cat(buf, r.out), zstd', wire', script)
  BY <1>4, <1>5
<1>7. CASE Got(r.out, r.z.suggestion = 0)
  BY <1>4, <1>6, <1>7, GotStep
<1>8. CASE r.out = << >> /\ buf' = buf /\ pc' \in {pc, "idle", "closed", "short"}
  <2>1. Cat(buf, r.out) = buf'
    BY <1>2, <1>8 DEF Cat
  <2>2. PlacedNext
    BY <1>6, <2>1 DEF PlacedNext
  <2> QED
    BY <1>1, <1>8, <2>2, SessionStep DEF Phase, Connecting
<1> QED
  BY <1>4, <1>7, <1>8 DEF RoundEnds

\* recv returns plain bytes, in authentication or in a session.
LEMMA RecvPlainStep ==
  ASSUME GreetingInv, BytesInv, NEW n \in 1..BufferSize, RecvPlain(n)
  PROVE  GreetingInv' /\ BytesInv'
<1>1. /\ n \in Nat /\ n # 0 /\ n <= Len(wire) /\ n <= Room /\ zstd = NoZstd /\ zstd' = zstd
      /\ wire' = SubSeq(wire, n + 1, Len(wire)) /\ script' = script /\ session' = session /\ taken' = taken
      /\ pc \in {"auth", "start", "read"} /\ session \in Sessions
  BY ConnectionAssumption DEF RecvPlain, Reading, constVars, gatewayVars, BytesInv
<1>2. CASE pc = "auth"
  <2>1. pc' = "authenticated" /\ buf' = << >>
    BY <1>2 DEF RecvPlain, Got
  <2>2. wire = <<Greeting>> /\ script = << >>
    BY <1>1, <1>2 DEF GreetingInv
  <2>3. wire' = << >>
    BY <1>1, <2>2
  <2>4. zstd' = NoZstd /\ taken' = << >>
    BY <1>1, <1>2 DEF GreetingInv
  <2>5. GreetingInv'
    BY <1>1, <2>1, <2>2, <2>3, <2>4 DEF GreetingInv
  <2> QED
    BY <1>1, <2>1, <2>5, OutsideStep DEF Phase, Connecting
<1>3. CASE pc \in {"start", "read"}
  <2> DEFINE o == FirstBytes(wire, n)
  <2>1. Placed(taken, buf, zstd, wire, script)
    BY <1>3 DEF BytesInv, InSession, Phase, Connecting
  <2>2. ~session.compressed /\ wire \in Seq(Tok)
    BY <1>1, <2>1 DEF Placed, InPlace
  <2>3. n \in 0..Len(wire)
    BY <1>1, <2>2
  <2>4. /\ Placed(taken, Cat(buf, o), zstd, wire', script)
        /\ o \in Seq(STRING) /\ Len(o) = n /\ \A i \in 1..n : wire[i].kind = "plain"
    <3>1. session \in Sessions
      BY <1>1
    <3>2. /\ Placed(taken, Cat(buf, FirstBytes(wire, n)), zstd, SubSeq(wire, n + 1, Len(wire)), script)
          /\ FirstBytes(wire, n) \in Seq(STRING) /\ Len(FirstBytes(wire, n)) = n
          /\ \A i \in 1..n : wire[i].kind = "plain"
      BY <2>1, <2>2, <2>3, <3>1, PlacedPlain
    <3> QED
      BY <1>1, <3>2
  <2>5. [i \in 1..n |-> IF wire[i].kind = "plain" THEN wire[i].out[1] ELSE "compressed"] = o
    <3>1. \A i \in 1..n : wire[i].kind = "plain"
      BY <2>4
    <3> QED
      BY <3>1, Zenon DEF FirstBytes
  <2>6. Got(o, FALSE)
    BY <2>5 DEF RecvPlain
  <2> HIDE DEF o
  <2> QED
    BY <1>1, <1>3, <2>4, <2>6, GotStep
<1> QED
  BY <1>1, <1>2, <1>3

\* A read of a compressed session: of a token, or of nothing.
LEMMA RecvZstdStep ==
  ASSUME GreetingInv, BytesInv, RecvZstd
  PROVE  GreetingInv' /\ BytesInv'
<1>1. zstd # NoZstd /\ wire # << >> /\ pc \in {"start", "read"} /\ session \in Sessions
  BY DEF RecvZstd, Reading, GreetingInv, BytesInv
<1>2. Placed(taken, buf, zstd, wire, script)
  BY <1>1 DEF BytesInv, InSession, Phase, Connecting
<1>3. wire \in Seq(Tok) /\ session.compressed
  BY <1>1, <1>2, TokFacts DEF Placed, InPlace
<1>4. <<wire[1]>> \in Seq(Tok) /\ SubSeq(wire, 2, Len(wire)) \in Seq(Tok)
      /\ wire = Cat(<<wire[1]>>, SubSeq(wire, 2, Len(wire)))
  BY <1>1, <1>3, FirstToken DEF Cat
<1>5. wire[1].kind # "plain"
  <2>1. Len(wire) \in Nat /\ Len(wire) # 0
    BY <1>1, <1>3, EmptySeq
  <2>2. wire[1] \in Tok
    BY <1>3, <2>1, ElementOfSeq
  <2> QED
    BY <1>1, <1>3, <2>2, TokFacts
<1>6. PICK r : r = ReadSomeStep(zstd, <<wire[1]>>, Room) /\ RoundEnds(r, "Ok")
  BY <1>5 DEF RecvZstd
<1>7. UNCHANGED <<session, taken, script>> /\ wire' = SubSeq(wire, 2, Len(wire))
  BY <1>6 DEF RoundEnds, constVars, gatewayVars
<1> QED
  BY <1>1, <1>4, <1>6, <1>7, RoundStep

\* A round of a read that found nothing on the wire.
LEMMA EmptyRoundStep ==
  ASSUME GreetingInv, BytesInv, pc \in {"auth", "start", "read"}, wire = << >>, zstd # NoZstd,
         NEW r, r = ReadSomeStep(zstd, << >>, Room), NEW status, RoundEnds(r, status)
  PROVE  GreetingInv' /\ BytesInv'
<1>1. pc \in {"start", "read"}
  BY DEF GreetingInv
<1>2. UNCHANGED <<session, taken, script>> /\ wire' = SubSeq(wire, 2, Len(wire))
  BY DEF RoundEnds, constVars, gatewayVars
<1>3. wire' = << >> /\ << >> \in Seq(Tok) /\ wire = Cat(<< >>, << >>)
  BY <1>2 DEF Cat
<1> QED
  BY <1>1, <1>2, <1>3, RoundStep

\* The session starts: all of it is still to be sent.
LEMMA StartStep ==
  ASSUME GreetingInv, BytesInv, Start
  PROVE  GreetingInv' /\ BytesInv'
<1>1. /\ pc' = "start" /\ zstd = NoZstd /\ buf = << >> /\ taken = << >> /\ wire = << >>
      /\ script' = session.tokens /\ zstd' = SetCompression /\ session \in Sessions
      /\ UNCHANGED <<session, buf, taken, wire>>
  BY DEF Start, GreetingInv, BytesInv, constVars
<1>2. session.tokens \in Seq(Tok) /\ session.compressed \in BOOLEAN /\ Out(<< >>) = << >>
      /\ Out(session.tokens) \in Seq(STRING)
  BY <1>1, TokFacts, TokenParts
<1>3. /\ zstd'.unread = << >> /\ zstd'.held = << >>
      /\ (zstd' = NoZstd <=> ~session.compressed)
  <2>1. CASE session.compressed
    BY <1>1, <2>1 DEF SetCompression, NewZstd, NoZstd
  <2>2. CASE ~session.compressed
    BY <1>1, <2>2 DEF SetCompression, NoZstd
  <2> QED
    BY <2>1, <2>2
<1>4. Flow(Cat(<< >>, << >>), << >>, << >>, << >>, Out(session.tokens)) = Content
  BY <1>2 DEF Flow, Cat, Content
<1>5. PlacedNext
  <2>1. << >> \in Seq(STRING) /\ << >> \in Seq(Tok) /\ Cat(<< >>, << >>) \in Seq(STRING)
    BY DEF Cat
  <2> QED
    BY <1>1, <1>2, <1>3, <1>4, <2>1 DEF PlacedNext, Placed, InPlace, StreamOf
<1>6. Len(buf') = 0
  BY <1>1
<1> QED
  BY <1>1, <1>5, <1>6, SessionStep, ConnectionAssumption DEF Phase, Connecting

\* A client that connects has no bytes of a session.
LEMMA SessionInit == Init => GreetingInv /\ BytesInv
  BY DEF Init, GreetingInv, BytesInv, InSession, Connecting, Phase

\* Every step of the client, the gateway, the clock or a signal keeps the bytes in place.
LEMMA SessionNext == OldInv /\ GreetingInv /\ BytesInv /\ [Next]_vars => GreetingInv' /\ BytesInv'
<1> SUFFICES ASSUME OldInv, GreetingInv, BytesInv, [Next]_vars PROVE GreetingInv' /\ BytesInv'
  OBVIOUS
<1> USE DEF constVars, connectVars, readVars, gatewayVars
<1>1. CASE Connect \/ PollForConnectReturns
  <2>1. pc \in Connecting /\ session' = session
    BY <1>1 DEF Connect, PollForConnectReturns, Connecting
  <2>2. CASE Connected
    <3>1. /\ pc' = "auth" /\ wire' = << >> /\ script' = <<Greeting>>
          /\ zstd' = NoZstd /\ buf' = << >> /\ taken' = << >>
      BY <2>2 DEF Connected, Replaced
    <3>2. GreetingInv'
      BY <3>1 DEF GreetingInv
    <3> QED
      BY <2>1, <3>1, <3>2, OutsideStep DEF Phase, Connecting
  <2>3. CASE ~Connected
    <3>1. pc' \in Connecting \cup {"failed"} /\ UNCHANGED <<old, zstd, buf, taken, wire, script>>
      BY <1>1, <2>3 DEF Connect, PollForConnectReturns, AddressFails, Connecting
    <3> QED
      BY <2>1, <3>1, QuietStep DEF Phase, Connecting
  <2> QED
    BY <2>2, <2>3
<1>2. CASE Wake \/ Reconnect \/ ReconnectThrows
  <2>1. UNCHANGED <<session, zstd, buf, taken, wire, script>>
    BY <1>2 DEF Wake, Reconnect, ReconnectThrows
  <2>2. CASE Wake
    BY <2>1, <2>2, QuietStep DEF Wake, Phase, Connecting
  <2>3. CASE Reconnect
    BY <2>1, <2>3, QuietStep DEF Reconnect, InitSocket, Phase, Connecting
  <2>4. CASE ReconnectThrows
    BY <2>1, <2>4, QuietStep DEF ReconnectThrows, OldInv, Phase, Connecting
  <2> QED
    BY <1>2, <2>2, <2>3, <2>4
<1>3. ASSUME NEW n \in 1..BufferSize, RecvPlain(n) PROVE GreetingInv' /\ BytesInv'
  BY <1>3, RecvPlainStep
<1>4. CASE RecvZstd
  BY <1>4, RecvZstdStep
<1>5. ASSUME pc \in {"auth", "start", "read"}, wire = << >>, zstd = NoZstd,
             pc' \in {"rejected", "closed", "idle"}, pc = "auth" => pc' = "rejected",
             UNCHANGED <<session, zstd, wire, buf, taken, script>>
      PROVE  GreetingInv' /\ BytesInv'
  <2>1. CASE pc' = "rejected"
    BY <1>5, <2>1, OutsideStep DEF GreetingInv, Phase, Connecting
  <2>2. CASE pc' # "rejected"
    <3>1. Placed(taken, buf, zstd, wire, script) /\ Len(buf) <= BufferSize
      BY <1>5, <2>2 DEF BytesInv, InSession, Phase, Connecting
    <3>2. PlacedNext
      BY <1>5, <3>1 DEF PlacedNext
    <3> QED
      BY <1>5, <2>2, <3>1, <3>2, SessionStep DEF Phase, Connecting
  <2> QED
    BY <2>1, <2>2
<1>6. CASE RecvClosed
  <2>1. pc \in {"auth", "start", "read"} /\ wire = << >>
    BY <1>6 DEF RecvClosed, Reading
  <2>2. CASE zstd # NoZstd
    <3>1. PICK r : r = ReadSomeStep(zstd, << >>, Room) /\ RoundEnds(r, "Closed")
      BY <1>6, <2>2 DEF RecvClosed
    <3> QED
      BY <2>1, <2>2, <3>1, EmptyRoundStep
  <2>3. CASE zstd = NoZstd
    BY <1>5, <1>6, <2>1, <2>3 DEF RecvClosed
  <2> QED
    BY <2>2, <2>3
<1>7. CASE RecvTimesOut
  <2>1. pc = "read" /\ wire = << >>
    BY <1>7 DEF RecvTimesOut
  <2>2. CASE zstd # NoZstd
    <3>1. PICK r : r = ReadSomeStep(zstd, << >>, Room) /\ RoundEnds(r, "Timeout")
      BY <1>7, <2>2 DEF RecvTimesOut
    <3> QED
      BY <2>1, <2>2, <3>1, EmptyRoundStep
  <2>3. CASE zstd = NoZstd
    BY <1>5, <1>7, <2>1, <2>3 DEF RecvTimesOut
  <2> QED
    BY <2>2, <2>3
<1>8. CASE Start
  BY <1>8, StartStep
<1>9. ASSUME NEW t \in Timeouts, ReadSome(t) PROVE GreetingInv' /\ BytesInv'
  <2>1. /\ pc = "idle" /\ pc' = "read" /\ Len(buf) < BufferSize
        /\ UNCHANGED <<session, zstd, wire, buf, taken, script>>
    BY <1>9 DEF ReadSome
  <2>2. Placed(taken, buf, zstd, wire, script) /\ Len(buf) <= BufferSize
    BY <2>1 DEF BytesInv, InSession, Phase, Connecting
  <2>3. PlacedNext
    BY <2>1, <2>2 DEF PlacedNext
  <2> QED
    BY <2>1, <2>2, <2>3, SessionStep DEF Phase, Connecting
<1>10. ASSUME NEW n \in 1..BufferSize, Take(n) PROVE GreetingInv' /\ BytesInv'
  <2>1. /\ pc = "idle" /\ pc' = pc /\ n <= Len(buf)
        /\ taken' = taken \o SubSeq(buf, 1, n) /\ buf' = SubSeq(buf, n + 1, Len(buf))
        /\ UNCHANGED <<session, zstd, wire, script>> /\ session \in Sessions
    BY <1>10 DEF Take, BytesInv
  <2>2. Placed(taken, buf, zstd, wire, script) /\ Len(buf) <= BufferSize
    BY <2>1 DEF BytesInv, InSession, Phase, Connecting
  <2>3. n \in 0..Len(buf) /\ Len(buf) \in Nat
    BY <2>1, <2>2, ConnectionAssumption DEF Placed
  <2>4. /\ Placed(Cat(taken, SubSeq(buf, 1, n)), SubSeq(buf, n + 1, Len(buf)), zstd, wire, script)
        /\ Len(SubSeq(buf, n + 1, Len(buf))) <= Len(buf)
    BY <2>1, <2>2, <2>3, PlacedTake
  <2>5. PlacedNext /\ Len(buf') <= Len(buf) /\ buf' \in Seq(STRING)
    BY <2>1, <2>4 DEF PlacedNext, Placed, Cat
  <2>6. Len(buf') <= BufferSize
    BY <2>2, <2>3, <2>5, ConnectionAssumption
  <2> QED
    BY <2>1, <2>5, <2>6, SessionStep DEF Phase, Connecting
<1>11. CASE GatewaySends
  <2>1. /\ script # << >> /\ wire' = Append(wire, script[1]) /\ script' = SubSeq(script, 2, Len(script))
        /\ UNCHANGED <<session, pc, old, zstd, buf, taken>> /\ session \in Sessions
    BY <1>11 DEF GatewaySends, BytesInv
  <2>2. CASE InSession
    <3>1. /\ Placed(taken, buf, zstd, wire, script) /\ Len(buf) <= BufferSize
          /\ (pc = "start" => Len(buf) < HeaderLen) /\ (pc = "read" => Len(buf) < BufferSize)
      BY <2>2 DEF BytesInv
    <3>2. Placed(taken, buf, zstd, Append(wire, script[1]), SubSeq(script, 2, Len(script)))
      BY <2>1, <3>1, PlacedSend
    <3>3. PlacedNext
      BY <2>1, <3>2 DEF PlacedNext
    <3> QED
      BY <2>1, <2>2, <3>1, <3>3, SessionStep DEF InSession, Phase, Connecting
  <2>3. CASE ~InSession
    <3>1. BytesInv'
      BY <2>1, <2>3, OutsideStep DEF InSession, BytesInv, Phase, Connecting
    <3>2. CASE pc = "auth"
      <4>1. wire = << >> /\ script = <<Greeting>>
        BY <2>1, <3>2 DEF GreetingInv
      <4>2. wire' = <<Greeting>> /\ script' = << >>
        BY <2>1, <4>1
      <4> QED
        BY <2>1, <3>1, <3>2, <4>2 DEF GreetingInv, Connecting
    <3>3. CASE pc # "auth"
      BY <2>1, <3>1, <3>3 DEF GreetingInv, Connecting
    <3> QED
      BY <3>2, <3>3
  <2> QED
    BY <2>2, <2>3
<1>12. CASE Close \/ ConnectInterrupted \/ ReadInterrupted \/ GatewayCloses \/ Tick \/ Done \/ UNCHANGED vars
  <2>1. UNCHANGED <<session, taken, buf, zstd, wire, script, old>> /\ pc' \in {pc, "stopped"}
    BY <1>12 DEF Close, ConnectInterrupted, ReadInterrupted, GatewayCloses, Tick, Done, vars
  <2> QED
    BY <2>1, QuietStep DEF Phase, Connecting
<1> QED
  BY <1>1, <1>2, <1>3, <1>4, <1>6, <1>7, <1>8, <1>9, <1>10, <1>11, <1>12 DEF Next, Client

\* LiveConnection loses, repeats and reorders no byte of a session, compressed or plain, and
\* never feeds a decompressor what is not of its session (LiveConnection, ZstdDecodeStream and
\* TcpReadable): for every session, buffer size and split of the reads.
THEOREM DecodesSessionHolds == Spec => []DecodesSession
<1>1. GreetingInv /\ BytesInv => DecodesSession
  <2> SUFFICES ASSUME BytesInv PROVE DecodesSession
    OBVIOUS
  <2>1. pc # "garbled" /\ (InSession => Placed(taken, buf, zstd, wire, script))
    BY DEF BytesInv, Phase, Connecting
  <2>2. ASSUME Placed(taken, buf, zstd, wire, script)
        PROVE  taken \o buf \o zstd.held \o Out(zstd.unread) \o Out(wire) \o Out(script) = Content
    BY <2>2, Zenon DEF Placed, InPlace, Flow, Cat
  <2> QED
    BY <2>1, <2>2, Zenon DEF DecodesSession, InSession
<1> QED
  BY <1>1, OldInit, OldNext, SessionInit, SessionNext, PTL DEF Spec

-----------------------------------------------------------------------------
(* The place of the decompressor in a session, and what a close leaves.    *)

SessionPlaced == session.compressed => Reaches(session.tokens, zstd, wire, script)
ClosedAtEnd ==
  /\ ~open /\ wire = << >> /\ (zstd.unread = << >> \/ EmptyFrame(session.tokens))
  /\ zstd.held # << >> => zstd.unread = << >>
PlaceInv ==
  /\ InSession => SessionPlaced
  /\ Phase = "closed" => ClosedAtEnd

\* Steps that leave the place alone.
LEMMA PlaceSame ==
  ASSUME PlaceInv, UNCHANGED <<session, zstd, wire, script>>, InSession' => InSession,
         Phase' = "closed" => Phase = "closed" /\ ~open'
  PROVE  PlaceInv'
<1>1. SessionPlaced' <=> SessionPlaced
  BY DEF SessionPlaced
<1>2. Phase' = "closed" => ClosedAtEnd'
  BY DEF PlaceInv, ClosedAtEnd
<1> QED
  BY <1>1, <1>2 DEF PlaceInv

\* A round of the decompressor's loop.
LEMMA PlaceOfRound ==
  ASSUME GreetingInv, BytesInv, PlaceInv, UNCHANGED <<session, script, open>>, pc \in {"start", "read"},
         zstd # NoZstd, NEW new \in Seq(Tok), NEW ww \in Seq(Tok), wire = Cat(new, ww), wire' = ww,
         NEW r, r = ReadSomeStep(zstd, new, Room), NEW status, RoundEnds(r, status),
         status = "Closed" => wire = << >> /\ ~open
  PROVE  PlaceInv'
<1>1. /\ session \in Sessions /\ Placed(taken, buf, zstd, wire, script) /\ Len(buf) <= BufferSize
      /\ (pc = "start" => Len(buf) < HeaderLen) /\ (pc = "read" => Len(buf) < BufferSize)
  BY DEF BytesInv, InSession, Phase, Connecting
<1>2. session.compressed /\ buf \in Seq(STRING)
  BY <1>1, TokFacts DEF Placed
<1>3. Room \in Nat /\ Room # 0
  <2>1. Len(buf) \in Nat
    BY <1>2
  <2> QED
    BY <1>1, <2>1, ConnectionAssumption DEF Room, Wanted
<1>4. ~r.error /\ r.out \in Seq(STRING)
  BY <1>1, <1>2, <1>3, PlacedRound
<1>5. zstd' = r.z
  BY DEF RoundEnds
<1>6. Tok \in SUBSET TokensOf(STRING) /\ Hostage \in Tok /\ session.tokens \in Seq(Tok)
  BY <1>1, <1>2, TokFacts
<1>7. StreamOf(zstd, STRING, Tok) /\ script \in Seq(Tok)
  BY <1>1 DEF Placed, InPlace
<1>8. Reaches(session.tokens, zstd, Cat(new, ww), script)
  BY <1>2 DEF PlaceInv, InSession, SessionPlaced, Phase, Connecting
<1> DEFINE T == Tok
           ts == session.tokens
           B == STRING
<1>a. new \in Seq(T) /\ ww \in Seq(T) /\ script \in Seq(T) /\ ts \in Seq(T) /\ T \in SUBSET TokensOf(B)
      /\ Hostage \in T /\ StreamOf(zstd, B, T) /\ Reaches(ts, zstd, Cat(new, ww), script)
  BY <1>6, <1>7, <1>8
<1> HIDE DEF T, ts, B
<1>9. ReachesBy(r, ts, zstd, new, ww, script)
  BY <1>3, <1>4, <1>a, ReachesRound
<1>10. SessionPlaced'
  BY <1>5, <1>9 DEF ReachesBy, SessionPlaced, ts
<1>11. ASSUME pc' = "closed" PROVE ClosedAtEnd'
  <2>1. ~r.again /\ r.out = << >> /\ status = "Closed"
    BY <1>4, <1>11 DEF RoundEnds, Got
  <2>2. ww = << >>
    <3>1. \A x, y \in Seq(Tok) : Cat(x, y) = << >> => y = << >>
      <4>1. \A x, y \in Seq(Tok) : x \o y = << >> => y = << >>
        OBVIOUS
      <4> QED
        BY <4>1 DEF Cat
    <3> QED
      BY <2>1, <3>1
  <2>3. (zstd'.unread = << >> \/ EmptyFrame(ts)) /\ (zstd'.held # << >> => zstd'.unread = << >>)
    BY <1>5, <1>9, <2>1 DEF ReachesBy
  <2> QED
    BY <2>1, <2>2, <2>3 DEF ClosedAtEnd, ts
<1>12. Phase' = pc'
  BY DEF RoundEnds, Got, Phase, Connecting
<1> QED
  BY <1>10, <1>11, <1>12 DEF PlaceInv

\* Before the session there is no place to be in.
LEMMA PlaceInit == Init => PlaceInv
  BY DEF Init, PlaceInv, InSession, Phase, Connecting

\* Every step keeps the place, and a close is reported only at the end of the input.
LEMMA PlaceNext == GreetingInv /\ BytesInv /\ PlaceInv /\ [Next]_vars => PlaceInv'
<1> SUFFICES ASSUME GreetingInv, BytesInv, PlaceInv, [Next]_vars PROVE PlaceInv'
  OBVIOUS
<1> USE DEF constVars, connectVars, readVars, gatewayVars
<1>0. session \in Sessions
  BY DEF BytesInv
<1>a. Phase = "closed" => ~open
  BY DEF PlaceInv, ClosedAtEnd
<1>b. CASE Connect \/ PollForConnectReturns
  <2>1. CASE Connected
    BY <2>1 DEF Connected, PlaceInv, InSession, Phase, Connecting
  <2>2. CASE ~Connected
    <3>1. /\ pc \in Connecting /\ pc' \in Connecting \cup {"failed"}
          /\ UNCHANGED <<session, old, zstd, wire, script, open>>
      BY <1>b, <2>2 DEF Connect, PollForConnectReturns, AddressFails, Connecting
    <3>2. Phase' = Phase
      BY <3>1 DEF Phase
    <3> QED
      BY <1>a, <3>1, <3>2, PlaceSame DEF InSession
  <2> QED
    BY <2>1, <2>2
<1>1. CASE Wake \/ Reconnect \/ ReconnectThrows
  <2>1. UNCHANGED <<session, zstd, wire, script, open>>
    BY <1>1 DEF Wake, Reconnect, ReconnectThrows
  <2>2. Phase' = Phase
    BY <1>1 DEF Wake, Reconnect, ReconnectThrows, InitSocket, Phase, Connecting
  <2> QED
    BY <1>a, <2>1, <2>2, PlaceSame DEF InSession
<1>2. ASSUME zstd = NoZstd, zstd' = zstd, session' = session, pc \in {"start", "read"},
             Phase' = pc', pc' = "closed" => wire' = << >> /\ ~open'
      PROVE  PlaceInv'
  <2>1. ~session.compressed
    BY <1>0, <1>2, TokFacts DEF BytesInv, InSession, Placed, Phase, Connecting
  <2>2. zstd.unread = << >> /\ zstd.held = << >>
    BY <1>2 DEF NoZstd
  <2>3. pc' = "closed" => ClosedAtEnd'
    BY <1>2, <2>2 DEF ClosedAtEnd
  <2>4. SessionPlaced'
    BY <1>2, <2>1 DEF SessionPlaced
  <2> QED
    BY <1>2, <2>3, <2>4 DEF PlaceInv
<1>3. ASSUME pc' \in {"authenticated", "rejected", "stopped"} PROVE PlaceInv'
  BY <1>3 DEF PlaceInv, InSession, Phase, Connecting
<1>4. ASSUME NEW n \in 1..BufferSize, RecvPlain(n) PROVE PlaceInv'
  <2>1. /\ pc \in {"auth", "start", "read"} /\ zstd = NoZstd /\ zstd' = zstd /\ session' = session
        /\ (pc = "auth" => pc' = "authenticated") /\ pc' # "closed" /\ Phase' = pc'
    BY <1>4 DEF RecvPlain, Reading, Got, Phase, Connecting
  <2> QED
    BY <1>2, <1>3, <2>1
<1>5. CASE RecvZstd
  <2>1. zstd # NoZstd /\ wire # << >> /\ pc \in {"start", "read"}
    BY <1>5 DEF RecvZstd, Reading, GreetingInv
  <2>2. Placed(taken, buf, zstd, wire, script)
    BY <2>1 DEF BytesInv, InSession, Phase, Connecting
  <2>3. wire \in Seq(Tok) /\ session.compressed
    BY <1>0, <2>1, <2>2, TokFacts DEF Placed, InPlace
  <2>4. <<wire[1]>> \in Seq(Tok) /\ SubSeq(wire, 2, Len(wire)) \in Seq(Tok)
        /\ wire = Cat(<<wire[1]>>, SubSeq(wire, 2, Len(wire)))
    BY <2>1, <2>3, FirstToken DEF Cat
  <2>5. wire[1].kind # "plain"
    <3>1. Len(wire) \in Nat /\ Len(wire) # 0
      BY <2>1, <2>3, EmptySeq
    <3>2. wire[1] \in Tok
      BY <2>3, <3>1, ElementOfSeq
    <3> QED
      BY <1>0, <2>3, <3>2, TokFacts
  <2>6. PICK r : r = ReadSomeStep(zstd, <<wire[1]>>, Room) /\ RoundEnds(r, "Ok")
    BY <1>5, <2>5 DEF RecvZstd
  <2>7. UNCHANGED <<session, script, open>> /\ wire' = SubSeq(wire, 2, Len(wire))
    BY <2>6 DEF RoundEnds
  <2> DEFINE new == <<wire[1]>>
             ww == SubSeq(wire, 2, Len(wire))
  <2>8. new \in Seq(Tok) /\ ww \in Seq(Tok) /\ wire = Cat(new, ww) /\ wire' = ww
        /\ r = ReadSomeStep(zstd, new, Room) /\ "Ok" # "Closed"
    BY <2>4, <2>6, <2>7
  <2> HIDE DEF new, ww
  <2> QED
    BY <2>1, <2>6, <2>7, <2>8, PlaceOfRound
<1>6. ASSUME pc \in {"auth", "start", "read"}, wire = << >>, zstd # NoZstd, NEW r, r = ReadSomeStep(zstd, << >>, Room),
             NEW status, RoundEnds(r, status), status = "Closed" => ~open
      PROVE  PlaceInv'
  <2>1. pc \in {"start", "read"}
    BY <1>6 DEF GreetingInv
  <2>2. UNCHANGED <<session, script, open>> /\ wire' = SubSeq(wire, 2, Len(wire))
    BY <1>6 DEF RoundEnds
  <2>3. wire' = << >> /\ << >> \in Seq(Tok) /\ wire = Cat(<< >>, << >>)
    BY <1>6, <2>2 DEF Cat
  <2> QED
    BY <1>6, <2>1, <2>2, <2>3, PlaceOfRound
<1>7. CASE RecvClosed
  <2>1. pc \in {"auth", "start", "read"} /\ wire = << >> /\ ~open
    BY <1>7 DEF RecvClosed, Reading
  <2>2. CASE zstd # NoZstd
    <3>1. PICK r : r = ReadSomeStep(zstd, << >>, Room) /\ RoundEnds(r, "Closed")
      BY <1>7, <2>2 DEF RecvClosed
    <3> QED
      BY <1>6, <2>1, <2>2, <3>1
  <2>3. CASE zstd = NoZstd
    <3>1. UNCHANGED <<session, zstd, wire, open>> /\ (pc = "auth" => pc' = "rejected") /\ Phase' = pc'
      BY <1>7, <2>3 DEF RecvClosed, Phase, Connecting
    <3> QED
      BY <1>2, <1>3, <2>1, <2>3, <3>1
  <2> QED
    BY <2>2, <2>3
<1>8. CASE RecvTimesOut
  <2>1. pc = "read" /\ wire = << >>
    BY <1>8 DEF RecvTimesOut
  <2>2. CASE zstd # NoZstd
    <3>1. PICK r : r = ReadSomeStep(zstd, << >>, Room) /\ RoundEnds(r, "Timeout")
      BY <1>8, <2>2 DEF RecvTimesOut
    <3> QED
      BY <1>6, <2>1, <2>2, <3>1
  <2>3. CASE zstd = NoZstd
    <3>1. UNCHANGED <<session, zstd>> /\ pc' = "idle" /\ Phase' = pc'
      BY <1>8, <2>3 DEF RecvTimesOut, Phase, Connecting
    <3> QED
      BY <1>2, <2>1, <2>3, <3>1
  <2> QED
    BY <2>2, <2>3
<1>9. CASE Start
  <2>1. /\ pc' = "start" /\ wire = << >> /\ script' = session.tokens /\ zstd' = SetCompression
        /\ UNCHANGED <<session, wire>>
    BY <1>9 DEF Start, GreetingInv
  <2>2. ASSUME session.compressed PROVE Reaches(session.tokens, zstd', << >>, session.tokens)
    <3>1. zstd'.held = << >> /\ zstd'.unread = << >>
      BY <2>1, <2>2 DEF SetCompression, NewZstd
    <3>2. session.tokens \in Seq(Tok)
      BY <1>0, TokFacts
    <3>3. Cat(Cat(zstd'.unread, << >>), session.tokens) = session.tokens
      BY <3>1, <3>2 DEF Cat
    <3> QED
      BY <3>1, <3>2, <3>3, ReachesFirst
  <2>3. SessionPlaced'
    BY <2>1, <2>2 DEF SessionPlaced
  <2> QED
    BY <2>1, <2>3 DEF PlaceInv, Phase, Connecting
<1>10. CASE GatewaySends
  <2>1. /\ open /\ script # << >> /\ wire' = Append(wire, script[1]) /\ script' = SubSeq(script, 2, Len(script))
        /\ UNCHANGED <<session, pc, old, zstd>>
    BY <1>10 DEF GatewaySends
  <2>2. Phase # "closed" /\ Phase' = Phase
    BY <1>a, <2>1 DEF Phase
  <2>3. ASSUME InSession, session.compressed PROVE Reaches(session.tokens, zstd, wire', script')
    <3> DEFINE a == <<script[1]>>
               s == SubSeq(script, 2, Len(script))
    <3>1. Placed(taken, buf, zstd, wire, script)
      BY <2>3 DEF BytesInv
    <3>2. wire \in Seq(Tok) /\ script \in Seq(Tok) /\ zstd.unread \in Seq(Tok)
      BY <3>1 DEF Placed, InPlace, StreamOf
    <3>3. a \in Seq(Tok) /\ s \in Seq(Tok) /\ script = Cat(a, s)
      BY <2>1, <3>2, FirstToken DEF Cat
    <3>4. Append(wire, script[1]) = Cat(wire, a)
      BY <3>2 DEF Cat
    <3>5. Reaches(session.tokens, zstd, wire, Cat(a, s))
      BY <2>3, <3>3 DEF PlaceInv, SessionPlaced
    <3> HIDE DEF a, s
    <3>6. Reaches(session.tokens, zstd, Cat(wire, a), s)
      BY <3>2, <3>3, <3>5, ReachesMore
    <3> QED
      BY <2>1, <3>4, <3>6 DEF s
  <2>4. InSession' => SessionPlaced'
    BY <2>1, <2>3 DEF SessionPlaced, InSession, Phase, Connecting
  <2> QED
    BY <2>1, <2>2, <2>4, Zenon DEF PlaceInv
<1>11. CASE \/ (\E t \in Timeouts : ReadSome(t)) \/ (\E n \in 1..BufferSize : Take(n)) \/ Close
            \/ ConnectInterrupted \/ ReadInterrupted \/ GatewayCloses \/ Tick \/ Done \/ UNCHANGED vars
  <2>1. /\ UNCHANGED <<session, old, zstd, wire, script>> /\ open' \in {open, FALSE}
        /\ pc' \in {pc, "stopped"} \/ (pc = "idle" /\ pc' = "read")
    BY <1>11
    DEF ReadSome, Take, Close, ConnectInterrupted, ReadInterrupted, GatewayCloses, Tick, Done, vars
  <2>2. InSession' => InSession
    BY <2>1 DEF InSession, Phase, Connecting
  <2>3. Phase' = "closed" => Phase = "closed" /\ ~open'
    BY <1>a, <2>1 DEF Phase, Connecting
  <2> QED
    BY <2>1, <2>2, <2>3, PlaceSame
<1> QED
  BY <1>b, <1>1, <1>4, <1>5, <1>7, <1>8, <1>9, <1>10, <1>11 DEF Next, Client

\* A close is reported behind every byte that arrived: what libzstd still holds is of a frame
\* that the gateway left unfinished, and input is left unread only behind a frame that
\* decompresses to nothing (ZstdDecodeStream::ReadSome, LiveConnection::ReadSome).
THEOREM ClosedMeansDrainedHolds == Spec => []ClosedMeansDrained
<1>1. GreetingInv /\ BytesInv /\ PlaceInv => ClosedMeansDrained
  <2> SUFFICES ASSUME BytesInv, PlaceInv, pc = "closed" PROVE ClosedMeansDrained
    BY Zenon DEF ClosedMeansDrained
  <2>1. ClosedAtEnd /\ SessionPlaced /\ session \in Sessions /\ Placed(taken, buf, zstd, wire, script)
    BY DEF PlaceInv, InSession, BytesInv, Phase, Connecting
  <2>2. ASSUME zstd.held # << >> PROVE ~FrameEnded
    <3>1. session.compressed
      BY <2>1, <2>2 DEF Placed, NoZstd
    <3>2. Tok \in SUBSET TokensOf(STRING) /\ Hostage \in Tok /\ session.tokens \in Seq(Tok)
      BY <2>1, <3>1, TokFacts
    <3>3. zstd.unread = << >> /\ Reaches(session.tokens, zstd, << >>, script) /\ script \in Seq(Tok)
      BY <2>1, <2>2, <3>1 DEF ClosedAtEnd, SessionPlaced, Placed, InPlace
    <3>4. ~session.tokens[Len(session.tokens) - Len(script)].last
      BY <2>2, <3>2, <3>3, HeldUnfinished
    <3> QED
      BY <3>4 DEF FrameEnded
  <2> QED
    BY <2>1, <2>2, Zenon DEF ClosedAtEnd, ClosedMeansDrained
<1> QED
  BY <1>1, OldInit, OldNext, SessionInit, SessionNext, PlaceInit, PlaceNext, PTL DEF Spec

==============================================================================
