------------------------------- MODULE LiveAuth -------------------------------
(***************************************************************************)
(* LiveBlocking::Authenticate: the CRAM handshake of a new connection      *)
(* under the deadline timeout_conf_.auth, with the gateway at the other    *)
(* end of a TCP stream that splits and delays what it sends.               *)
(*                                                                         *)
(* Bytes are tokens: "nl" is '\n', a line is the tokens before it, and a   *)
(* key=value pair of the authentication response is one token.  The hash   *)
(* of the CRAM reply is left out: the gateway decides its answer.          *)
(***************************************************************************)
EXTENDS Integers, Sequences, SequencesExt

CONSTANTS
  AuthTimeout,   \* timeout_conf_.auth, in clock ticks
  TicksPerMs,    \* resolution of steady_clock below the millisecond of poll()
  MaxLate,       \* bound: ticks counted beyond the deadline
  Challenges,    \* lines the gateway may send for a challenge
  Responses,     \* lines the gateway may answer the CRAM reply with
  Extra          \* bytes it sends after the response

\* The pairs that DecodeAuthResp tells apart: success=0 stands for any value but 1 and
\* error=e for any other key.  std::stoull throws on BadSessionId; NoPair has no '='.
GoodPairs == {"success=1", "success=0", "error=e", "session_id=5"}
BadSessionId == "session_id=x"
NoPair == "junk"

\* A response is made of these, with a separator between any two.
IsResponse(line) ==
  \A i \in 1..Len(line) :
    /\ line[i] \in GoodPairs \cup {BadSessionId, NoPair, "|"}
    /\ i > 1 => "|" \in {line[i - 1], line[i]}

ASSUME AuthAssumption ==
  /\ AuthTimeout \in Nat \ {0} /\ TicksPerMs \in Nat \ {0} /\ MaxLate \in Nat
  /\ \A line \in Challenges \cup Responses :
       line \in Seq(STRING) /\ \A i \in 1..Len(line) : line[i] # "nl"
  /\ \A line \in Responses : IsResponse(line)
  /\ Extra \in Seq(STRING)

VARIABLES
  pc,          \* where Authenticate is
  left,        \* deadline - now, in ticks
  timeout,     \* the timeout of the current DecodeChallenge or DecodeAuthResp, in ms
  poll,        \* ticks until the pending poll() gives up; NoLimit if it does not
  unread,      \* unread bytes of buffer_
  session_id,  \* what Authenticate returns
  why,         \* the exception thrown
  \* the gateway and the network:
  to_send,     \* what the gateway has still to send
  arrived,     \* sent and not read
  closed,      \* the gateway has closed the connection
  response     \* the line chosen to answer the CRAM reply

authVars == <<pc, left, timeout, poll, unread, session_id, why, to_send, arrived, closed, response>>
gatewayVars == <<to_send, arrived, closed, response>>

NoLimit == -1
Final == {"authenticated", "failed"}
Reading == {"challenge", "challenge_more", "response"}

AuthInit ==
  /\ pc = "begin" /\ left = AuthTimeout /\ timeout = 0 /\ poll = NoLimit
  /\ unread = << >> /\ session_id = 0 /\ why = "none"
  /\ \E c \in Challenges : to_send = <<"lsg", "nl">> \o c \o <<"nl">>
  /\ arrived = << >> /\ closed = FALSE /\ response = << >>

-----------------------------------------------------------------------------
(* The gateway and the clock.                                              *)

\* The next piece of what the gateway has to say reaches the client's kernel.
AuthGatewaySends(n) ==
  /\ ~closed /\ n <= Len(to_send)
  /\ arrived' = arrived \o SubSeq(to_send, 1, n)
  /\ to_send' = SubSeq(to_send, n + 1, Len(to_send))
  /\ UNCHANGED <<pc, left, timeout, poll, unread, session_id, why, closed, response>>

AuthGatewayCloses ==
  /\ ~closed
  /\ closed' = TRUE /\ to_send' = << >>
  /\ UNCHANGED <<pc, left, timeout, poll, unread, session_id, why, arrived, response>>

\* poll() is waiting: nothing to read, and not closed.
AwaitsGateway == pc \in Reading /\ arrived = << >> /\ ~closed

\* A poll() whose time is up returns before time goes on.
AuthTick ==
  /\ pc \notin Final
  /\ ~(AwaitsGateway /\ poll = 0)
  /\ left' = IF left = -MaxLate THEN left ELSE left - 1
  /\ poll' = IF pc \in Reading /\ poll > 0 THEN poll - 1 ELSE poll
  /\ UNCHANGED <<pc, timeout, unread, session_id, why, gatewayVars>>

-----------------------------------------------------------------------------
(* The client.                                                             *)

Fail(reason) == pc' = "failed" /\ why' = reason

\* remaining(): throws past the deadline, else truncates to milliseconds.
Remaining == left \div TicksPerMs

\* Mutant: the timeout is not passed on.
PollForever(ms) == NoLimit

\* TcpClient::ReadSome(.., timeout): a timeout of 0 polls without limit.
PollFor(ms) == IF ms = 0 THEN NoLimit ELSE ms * TicksPerMs

\* DecodeChallenge(remaining()) and DecodeAuthResp(remaining()) enter their first
\* ReadSome; the latter clears the buffer.
EnterRead(from, to) ==
  /\ pc = from
  /\ \/ left > 0 /\ timeout' = Remaining /\ poll' = PollFor(Remaining)
        /\ pc' = to /\ UNCHANGED why
     \/ left <= 0 /\ Fail("timed_out") /\ UNCHANGED <<timeout, poll>>
  /\ unread' = IF to = "response" THEN << >> ELSE unread
  /\ UNCHANGED <<left, session_id, gatewayVars>>

EnterChallenge == EnterRead("begin", "challenge")
EnterResponse == EnterRead("deadline", "response")

ReadTimesOut ==
  /\ AwaitsGateway /\ poll = 0
  /\ Fail("timed_out")
  /\ UNCHANGED <<left, timeout, poll, unread, session_id, gatewayVars>>

\* A read of n bytes: ReadSome and Fill.  Each next ReadSome has the whole timeout.
Read(n) ==
  /\ n <= Len(arrived)
  /\ unread' = unread \o SubSeq(arrived, 1, n)
  /\ arrived' = SubSeq(arrived, n + 1, Len(arrived))
  /\ poll' = PollFor(timeout)
  /\ UNCHANGED <<left, timeout, to_send, closed, response>>

\* The least of some indices, 0 if there is none; the first "nl" of s after index i.
Least(at) == IF at = {} THEN 0 ELSE CHOOSE k \in at : \A j \in at : k <= j
Newline(s, i) == Least({k \in (i + 1)..Len(s) : s[k] = "nl"})

\* The checks on the challenge line once it is complete.
JudgeChallenge(line) ==
  \/ line = <<"cram=">> /\ pc' = "reply" /\ UNCHANGED why
  \/ line = <<"cram">> /\ Fail("malformed_challenge")
  \/ line \notin {<<"cram=">>, <<"cram">>} /\ Fail("unexpected_challenge")

\* What DecodeChallenge does with the response it has so far.
DecodeChallengeLine(s) ==
  LET first == Newline(s, 0)
      next  == Newline(s, first)
  IN  \/ next # 0 /\ JudgeChallenge(SubSeq(s, first + 1, next - 1))
      \/ next = 0 /\ pc' = "challenge_more" /\ UNCHANGED why

\* The first read must bring the whole greeting line.
ReadChallenge(n) ==
  /\ pc = "challenge" /\ Read(n)
  /\ \/ Newline(unread', 0) = 0 /\ Fail("malformed_greeting")
     \/ Newline(unread', 0) # 0 /\ DecodeChallengeLine(unread')
  /\ UNCHANGED session_id

ReadChallengeMore(n) ==
  /\ pc = "challenge_more" /\ Read(n)
  /\ DecodeChallengeLine(unread')
  /\ UNCHANGED session_id

\* recv() returns 0: the first read and the response loop throw on read_size = 0,
\* the challenge loop throws only if buffer_.ReadCapacity() = 0, else reads again.
ReadClosed ==
  /\ pc \in Reading /\ arrived = << >> /\ closed
  /\ \/ pc = "challenge_more" /\ unread # << >>
        /\ poll' = PollFor(timeout) /\ UNCHANGED <<pc, why>>
     \/ pc = "challenge_more" /\ unread = << >> /\ Fail("closed") /\ UNCHANGED poll
     \/ pc # "challenge_more" /\ Fail("closed") /\ UNCHANGED poll
  /\ UNCHANGED <<left, timeout, unread, session_id, gatewayVars>>

\* WriteAll(req): the reply reaches the gateway, which picks its answer.
WriteReply ==
  /\ pc = "reply" /\ ~closed
  /\ pc' = "deadline"
  /\ \E r \in Responses : response' = r /\ to_send' = to_send \o r \o <<"nl">> \o Extra
  /\ UNCHANGED <<left, timeout, poll, unread, session_id, why, arrived, closed>>

\* The peer has closed: send() fails, or fills the socket buffer of a dead peer.
WriteReplyClosed ==
  /\ pc = "reply" /\ closed
  /\ \/ Fail("write_error")
     \/ pc' = "deadline" /\ UNCHANGED why
  /\ UNCHANGED <<left, timeout, poll, unread, session_id, gatewayVars>>

\* The key=value loop of DecodeAuthResp: where it looks for a pair, and the pair.  It stops
\* where the next '|' ends the line: count == response.length() - 1.
Bar(line, pos) == Least({k \in pos..Len(line) : line[k] = "|"})
PairStarts(line) ==
  {pos \in 1..Len(line) : (pos = 1 \/ line[pos - 1] = "|") /\ Bar(line, pos) # Len(line)}
PairAt(line, pos) ==
  SubSeq(line, pos, IF Bar(line, pos) = 0 THEN Len(line) ELSE Bar(line, pos) - 1)
Pairs(line) == {PairAt(line, pos) : pos \in PairStarts(line)}

\* Where the loop throws, 0 if nowhere: at a piece without '=', or at a session id that is
\* no number.
FirstThrowing(line) ==
  Least({pos \in PairStarts(line) : \A p \in GoodPairs : PairAt(line, pos) # <<p>>})

\* Mutant: found_success is taken for success.
VerdictFound(line) ==
  CASE FirstThrowing(line) # 0 -> "malformed_response"
    [] OTHER -> IF Pairs(line) \cap {<<"success=1">>, <<"success=0">>} # {}
                  THEN "accepted" ELSE "no_success"

\* What DecodeAuthResp makes of the line.
Verdict(line) ==
  LET bad == FirstThrowing(line)
      Has(p) == <<p>> \in Pairs(line)
  IN  CASE bad # 0 /\ PairAt(line, bad) = <<BadSessionId>> -> "invalid_argument"
        [] bad # 0 /\ PairAt(line, bad) # <<BadSessionId>> -> "malformed_response"
        [] bad = 0 /\ ~Has("success=1") /\ ~Has("success=0") -> "no_success"
        [] bad = 0 /\ Has("success=0") -> "rejected"
        [] OTHER -> "accepted"

SessionId(line) == IF <<"session_id=5">> \in Pairs(line) THEN 5 ELSE 0

\* Mutant: the buffer is cleared.
RestCleared(got, nl) == << >>

\* buffer_.Consume(response.length() + 1): the bytes after the newline stay.
Rest(got, nl) == SubSeq(got, nl + 1, Len(got))

ReadResponse(n) ==
  /\ pc = "response" /\ n <= Len(arrived)
  /\ LET got  == unread \o SubSeq(arrived, 1, n)
         nl   == Newline(got, 0)
         line == SubSeq(got, 1, nl - 1)
     IN  \/ nl = 0 /\ Read(n) /\ UNCHANGED <<pc, why, session_id>>
         \/ /\ nl # 0
            /\ unread' = Rest(got, nl)
            /\ arrived' = SubSeq(arrived, n + 1, Len(arrived))
            /\ \/ /\ Verdict(line) = "accepted"
                  /\ pc' = "authenticated" /\ session_id' = SessionId(line)
                  /\ UNCHANGED why
               \/ /\ Verdict(line) # "accepted"
                  /\ Fail(Verdict(line)) /\ UNCHANGED session_id
            /\ UNCHANGED <<left, timeout, poll, to_send, closed, response>>

-----------------------------------------------------------------------------

ClientStep ==
  \/ EnterChallenge \/ EnterResponse \/ ReadTimesOut \/ ReadClosed
  \/ WriteReply \/ WriteReplyClosed
  \/ \E n \in 1..Len(arrived) : ReadChallenge(n) \/ ReadChallengeMore(n) \/ ReadResponse(n)

Finished == pc \in Final /\ UNCHANGED authVars

AuthNext ==
  \/ \E n \in 1..Len(to_send) : AuthGatewaySends(n)
  \/ AuthGatewayCloses
  \/ AuthTick
  \/ ClientStep
  \/ Finished

AuthSpec == AuthInit /\ [][AuthNext]_authVars

\* The client runs whenever it can, and time passes.  The gateway owes nothing.
AuthFairSpec == AuthSpec /\ WF_authVars(ClientStep) /\ WF_authVars(AuthTick)

-----------------------------------------------------------------------------

\* The pairs a reader sees in the line, wherever its separators are.
AllPairs(line) == {line[i] : i \in {j \in 1..Len(line) : line[j] \in GoodPairs}}

\* Pairs with one separator between any two and none at the end.
WellFormed(line) ==
  /\ Len(line) % 2 = 1
  /\ \A i \in 1..Len(line) : line[i] \in IF i % 2 = 1 THEN GoodPairs ELSE {"|"}

\* Authentication succeeds only on a complete response that says success=1 and not
\* success=0, and fails for what the gateway answered only if the gateway said so: however
\* the stream is split, delayed or followed by more bytes, DecodeAuthResp does not misread
\* a well-formed response.  Of one that ends with a separator it does not see the last pair.
Accepted == "success=1" \in AllPairs(response) /\ "success=0" \notin AllPairs(response)
AuthenticatedMeansAccepted ==
  /\ pc = "authenticated" =>
       "success=1" \in AllPairs(response) /\ (Accepted \/ response[Len(response)] = "|")
  /\ (WellFormed(response) /\ Accepted)
       => why \notin {"malformed_response", "invalid_argument", "no_success", "rejected"}

\* Bytes the gateway sends behind its response are all still to come, in order,
\* when Authenticate returns: in the buffer, on the wire or unsent.
KeepsBytesAfterResponse ==
  pc = "authenticated" /\ ~closed => unread \o arrived \o to_send = Extra

\* Authenticate ends, with a session or an exception, whatever the gateway does.
AuthEnds == <>(pc \in Final)

\* The same but for two cases: a gateway that closes after its greeting, which
\* DecodeChallenge never notices, and a read entered with less than a millisecond left,
\* whose timeout of 0 means none.  Silence at any other point, a close at any other and a
\* slow client all end in an exception.
ClosedInChallenge == closed /\ pc = "challenge_more"
Unlimited == pc \in Reading /\ timeout = 0
AuthEndsButForTwoCases == AuthEnds \/ <>[]ClosedInChallenge \/ <>[]Unlimited
==============================================================================
