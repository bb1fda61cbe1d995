--------------------------- MODULE LiveSubscriptions ---------------------------
(***************************************************************************)
(* The subscriptions of databento::LiveBlocking: the ids it hands out, the *)
(* chunked messages it writes, what it records for Resubscribe, and what   *)
(* the gateway at the other end of the connection has received.  The       *)
(* connection may be lost at any time, also between two chunks of one      *)
(* subscription and between two subscriptions of one Resubscribe; writes   *)
(* then fail, or succeed and reach nobody.                                 *)
(*                                                                         *)
(* Schema and stype are left out: they are copied into every message and   *)
(* into the record alike.                                                  *)
(***************************************************************************)
EXTENDS Integers, SequencesExt

CONSTANTS
  SymbolLists,     \* symbol lists the application subscribes to
  ChunkSize,       \* kSymbolMaxChunkSize
  MaxSubId,        \* numeric_limits<uint32_t>::max()
  MaxSubs,         \* bound: subscriptions
  MaxMessages      \* bound: subscription messages per connection

ASSUME SubscriptionsAssumption ==
  /\ SymbolLists \subseteq Seq(STRING)
  /\ ChunkSize \in Nat \ {0} /\ MaxSubId \in Nat \ {0}
  /\ MaxSubs \in Nat /\ MaxMessages \in Nat

VARIABLES
  conn,           \* connection_: "open", or "closed" by Stop
  gw,             \* the gateway's side of the connection
  ret,            \* what the last call returned or threw
  sub_counter,    \* sub_counter_
  subscriptions,  \* subscriptions_: <<[id, syms, start]>>
  received,       \* history: messages that reached the gateway on this connection
  mirrored,       \* history: every recorded subscription reached it, once
  caught_up,      \* history: none recorded before the connection awaits Resubscribe
  in_order        \* history: no Subscribe came between Reconnect and Resubscribe

idVars == <<sub_counter, subscriptions, received, mirrored, caught_up, in_order>>
subVars == <<conn, gw, ret, idVars>>

Starts == {"none", "time", "snapshot"}

SubInit ==
  /\ conn = "open" /\ gw = "authenticated" /\ ret = "none"
  /\ sub_counter = 0 /\ subscriptions = << >>
  /\ received = << >> /\ mirrored = TRUE /\ caught_up = TRUE /\ in_order = TRUE

-----------------------------------------------------------------------------

\* IncrementSubCounter: saturates.
NextSubId == IF sub_counter = MaxSubId THEN sub_counter ELSE sub_counter + 1

\* Mutant: is_last with < for <=.
MessagesNoLast(id, syms, start) ==
  [i \in 1..((Len(syms) + ChunkSize - 1) \div ChunkSize) |->
     LET from == (i - 1) * ChunkSize
         left == Len(syms) - from
     IN  [id |-> id, start |-> start,
          syms |-> SubSeq(syms, from + 1,
                          IF left < ChunkSize THEN Len(syms) ELSE from + ChunkSize),
          is_last |-> left < ChunkSize]]

\* The messages of one private Subscribe(sub_msg, symbols, use_snapshot).
Messages(id, syms, start) ==
  [i \in 1..((Len(syms) + ChunkSize - 1) \div ChunkSize) |->
     LET from == (i - 1) * ChunkSize
         distance_from_end == Len(syms) - from
         chunk_size == IF distance_from_end < ChunkSize THEN distance_from_end
                                                        ELSE ChunkSize
     IN  [id |-> id, start |-> start,
          syms |-> SubSeq(syms, from + 1, from + chunk_size),
          is_last |-> distance_from_end <= ChunkSize]]

Writable == conn = "open" /\ gw # "closed"

\* The first k of the messages reach the gateway.  When these are not all, the connection
\* is lost behind them or was already down.
Arrive(msgs, k) ==
  /\ k > 0 => Writable
  /\ received' = received \o SubSeq(msgs, 1, k)
  /\ gw' = IF k = Len(msgs) THEN gw ELSE "closed"

\* connection_.WriteAll of each message returns: send() takes the bytes for a gateway that
\* has just closed, too, but not on a socket the client has closed.
WriteAllMessages(msgs, k) == (msgs = << >> \/ conn = "open") /\ Arrive(msgs, k)

\* One of the writes throws.
WriteFails(msgs, k) == k < Len(msgs) /\ Arrive(msgs, k)

\* Subscribe (NoStart or a time) and SubscribeWithSnapshot.  The subscription is
\* recorded after its last write; the id is used up in any case.
Subscribe(syms, start) ==
  LET msgs == Messages(NextSubId, syms, start)
  IN
  /\ Len(subscriptions) < MaxSubs
  /\ Len(received) + Len(msgs) <= MaxMessages
  /\ sub_counter' = NextSubId
  /\ \/ /\ syms # << >>
        /\ \E k \in 0..Len(msgs) :
             WriteAllMessages(msgs, k) /\ mirrored' = (mirrored /\ k = Len(msgs))
        /\ subscriptions' = Append(subscriptions,
                                   [id |-> NextSubId, syms |-> syms, start |-> start])
        /\ ret' = "ok"
     \/ /\ syms # << >> /\ \E k \in 0..Len(msgs) : WriteFails(msgs, k)
        /\ ret' = "tcp_error" /\ mirrored' = FALSE
        /\ UNCHANGED subscriptions
     \/ /\ syms = << >> /\ ret' = "invalid_argument"
        /\ UNCHANGED <<subscriptions, received, mirrored, gw>>
  /\ in_order' = (in_order /\ (caught_up \/ ret' = "tcp_error"))
  /\ UNCHANGED <<conn, caught_up>>

\* Mutants: start times are kept; ids are not looked at.
DroppedNever(start) == start
MaxIdStale(n) == sub_counter

\* The state of the Resubscribe loop after its first n subscriptions: start times are
\* dropped, ids continue from the largest one seen.
Dropped(start) == IF start = "snapshot" THEN start ELSE "none"
MaxId(n) ==
  CHOOSE m \in {sub_counter} \cup {subscriptions[i].id : i \in 1..n} :
    m >= sub_counter /\ \A i \in 1..n : m >= subscriptions[i].id
ResubscribeMessages(n) ==
  FlattenSeq([i \in 1..n |-> Messages(MaxId(i), subscriptions[i].syms,
                                      Dropped(subscriptions[i].start))])
AfterResubscribing(n) ==
  /\ sub_counter' = MaxId(n)
  /\ subscriptions' = [i \in 1..Len(subscriptions) |->
                         IF i <= n THEN [subscriptions[i] EXCEPT !.start = Dropped(@)]
                                   ELSE subscriptions[i]]

\* A failure while sending subscription i leaves it and the ones before changed.
Resubscribe ==
  LET n == Len(subscriptions)
      msgs == ResubscribeMessages(n)
  IN
  /\ Len(received) + Len(msgs) <= MaxMessages
  /\ \/ /\ \E k \in 0..Len(msgs) :
             /\ WriteAllMessages(msgs, k)
             /\ mirrored' = (gw # "unauthenticated" /\ received = << >> /\ k = Len(msgs))
        /\ AfterResubscribing(n)
        /\ ret' = "ok" /\ caught_up' = TRUE
     \/ \E i \in 1..n :
          /\ \E k \in 0..(Len(ResubscribeMessages(i)) - 1) : WriteFails(msgs, k)
          /\ AfterResubscribing(i)
          /\ ret' = "tcp_error" /\ mirrored' = FALSE /\ UNCHANGED caught_up
  /\ UNCHANGED <<conn, in_order>>

\* Reconnect's part: sub_counter_ restarts on the new connection, whether or not it
\* authenticates; subscriptions_ stays.
Reconnected(gateway) ==
  /\ conn' = "open" /\ gw' = gateway
  /\ sub_counter' = 0 /\ received' = << >>
  /\ mirrored' = (gateway = "authenticated" /\ subscriptions = << >>)
  /\ caught_up' = (subscriptions = << >>)
  /\ ret' = IF gateway = "authenticated" THEN "ok" ELSE "auth_error"
  /\ UNCHANGED <<subscriptions, in_order>>

\* Connecting failed: the exception leaves everything as it was.
ReconnectFailed == ret' = "tcp_error" /\ UNCHANGED <<conn, gw, idVars>>

\* Stop closes the socket.
Stopped == conn' = "closed" /\ gw' = "closed" /\ ret' = "ok" /\ UNCHANGED idVars

ConnectionLost == gw # "closed" /\ gw' = "closed" /\ UNCHANGED <<conn, ret, idVars>>

SubNext ==
  \/ \E syms \in SymbolLists, start \in Starts : Subscribe(syms, start)
  \/ Resubscribe
  \/ \E gateway \in {"authenticated", "unauthenticated"} : Reconnected(gateway)
  \/ ReconnectFailed \/ Stopped \/ ConnectionLost

SubSpec == SubInit /\ [][SubNext]_subVars

-----------------------------------------------------------------------------

\* The gateway puts chunks together until the last one of a request.
Take(acc, m) ==
  IF m.is_last
    THEN [whole |-> Append(acc.whole, [id |-> m.id, start |-> m.start, syms |-> acc.part \o m.syms]),
          part |-> << >>]
    ELSE [whole |-> acc.whole, part |-> acc.part \o m.syms]

\* The requests it has put together from the messages it received.
TakeAll(acc, msgs) ==
  LET taken[k \in 0..Len(msgs)] == IF k = 0 THEN acc ELSE Take(taken[k - 1], msgs[k])
  IN  taken[Len(msgs)]
Assembled == TakeAll([whole |-> << >>, part |-> << >>], received)

\* On a connection that was not lost under a write, and after a Reconnect once
\* Resubscribe has run, the gateway holds exactly the subscriptions the client records:
\* all symbols of all chunks, the same start, in order, and no request left open; a
\* subscription whose writes succeeded into a lost connection is among them again.
Requests(subs) == [i \in 1..Len(subs) |-> <<subs[i].syms, subs[i].start>>]
GatewayMirrorsClient ==
  mirrored =>
    Assembled.part = << >> /\ Requests(Assembled.whole) = Requests(subscriptions)

\* The gateway knows each subscription by the id the client records, and ids are
\* distinct until they are exhausted, across failed calls and reconnects, as long as
\* the application resubscribes before it subscribes again.
Ids(subs) == [i \in 1..Len(subs) |-> subs[i].id]
IdsAgree ==
  in_order =>
    /\ mirrored => Ids(Assembled.whole) = Ids(subscriptions)
    /\ \A i, j \in 1..Len(subscriptions) :
         i # j /\ subscriptions[i].id < MaxSubId
           => subscriptions[i].id # subscriptions[j].id

\* Resubscribe never asks the gateway to replay: a message that carries a start time
\* is only ever sent for a subscription made by that very call.
NewMessages == (Len(received) + 1)..Len(received')
ResubscribeStep ==
  ret' = "ok" /\ Len(subscriptions') = Len(subscriptions)
    => \A k \in NewMessages : received'[k].start # "time"
ResubscribeDropsStarts == [][ResubscribeStep]_subVars
================================================================================
