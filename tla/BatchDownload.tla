---------------------------- MODULE BatchDownload ----------------------------
(***************************************************************************)
(* Historical::BatchDownload: the files of a batch job are downloaded one  *)
(* after the other, each with retries that resume behind the bytes already *)
(* on disk and a running SHA-256 of what the file should then hold, by a   *)
(* program that may crash and be run again.                                *)
(*                                                                         *)
(* Byte i of every file the server offers is i.  A digest is represented   *)
(* by the bytes it was computed from, which it determines.                 *)
(***************************************************************************)
EXTENDS Integers, SequencesExt

CONSTANTS
  Files,          \* the job's files, in the order BatchListFiles returns them
  Size,           \* file_desc.size of each
  Disks,          \* what may be on disk before: file -> bytes, or Absent
  MaxRetries,     \* kMaxRetries
  Hashed,         \* files whose hash has the algorithm "sha256"
  MayIgnoreRange, \* the server may answer a Range header with the whole file
  DiskMayFail     \* opening the file or a write to it may fail

File == {Files[i] : i \in 1..Len(Files)}
Absent == <<-1>>

ASSUME DownloadAssumption ==
  /\ Files \in Seq(File) /\ Files # << >>
  /\ Size \in [File -> Nat]
  /\ \A d \in Disks : d \in [File -> Seq(Nat) \cup {Absent}]
  /\ MaxRetries \in Nat \ {0}
  /\ Hashed \subseteq File /\ MayIgnoreRange \in BOOLEAN /\ DiskMayFail \in BOOLEAN

VARIABLES
  pc,         \* where DownloadFile is; "idle" outside BatchDownload
  todo,       \* files still to download, the current one first
  retry,      \* retry
  hasher,     \* bytes given to *hasher since it was created
  range,      \* start of the Range header, or NoRange
  reply,      \* the response being received: its kind and the rest of its body
  disk,       \* the file system: file -> bytes, or Absent
  unflushed,  \* bytes of the current file that out_file may still hold
  bad,        \* out_file's stream has failed
  \* history:
  asked,      \* files the last call was for
  verified,   \* of them, those whose checksum was verified
  warned,     \* of them, those whose checksum was found wrong
  result,     \* how the last call ended
  foreign,    \* files given bytes out of place: before the calls, or by the server
  short       \* files of the last call for which a write failed

vars == <<pc, todo, retry, hasher, range, reply, disk, unflushed, bad, asked, verified,
          warned, result, foreign, short>>
callVars == <<asked, verified, warned, result, foreign>>

NoRange == -1
NoReply == [error |-> FALSE, body |-> << >>]
Content(f) == [i \in 1..Size[f] |-> i]
Current == Head(todo)

Init ==
  /\ pc = "idle" /\ todo = << >> /\ retry = 0 /\ hasher = << >>
  /\ range = NoRange /\ reply = NoReply
  /\ disk \in Disks /\ unflushed = 0 /\ bad = FALSE
  /\ asked = {} /\ verified = {} /\ warned = {} /\ result = "none"
  /\ foreign = {f \in File : disk[f] # Absent /\ ~IsPrefix(disk[f], Content(f))}
  /\ short = {}

-----------------------------------------------------------------------------

\* DownloadFile starts with the first file of list, or finds its URL or hash
\* malformed; BatchDownload returns when there is none.
DownloadFrom(list) ==
  /\ todo' = list /\ retry' = 0 /\ hasher' = << >>
  /\ \/ list # << >> /\ pc' = "check" /\ result' = "none"
     \/ list # << >> /\ pc' = "idle" /\ result' = "malformed"
     \/ list = << >> /\ pc' = "idle" /\ result' = "paths"

\* BatchDownload(output_dir, job_id), and with filename_to_download.
Call(list) ==
  /\ pc = "idle"
  /\ DownloadFrom(list)
  /\ asked' = ToSet(list) /\ verified' = {} /\ warned' = {} /\ short' = {}
  /\ UNCHANGED <<range, reply, disk, unflushed, bad, foreign>>

Throw(error) == pc' = "idle" /\ result' = error /\ UNCHANGED <<todo, retry, hasher>>

\* Mutant: previously downloaded data is not hashed.
HashExistingNot(f) == hasher

\* CheckIfFileExists hashes the previously downloaded data.
HashExisting(f) == IF f \in Hashed THEN hasher \o disk[f] ELSE hasher

\* CheckIfFileExists.
CheckIfFileExists ==
  LET f == Current IN
  /\ pc = "check"
  /\ \/ /\ disk[f] = Absent
        /\ pc' = "request" /\ range' = NoRange
        /\ UNCHANGED <<todo, retry, hasher, result>>
     \/ /\ disk[f] # Absent /\ Len(disk[f]) < Size[f]
        /\ pc' = "request" /\ range' = Len(disk[f]) /\ hasher' = HashExisting(f)
        /\ UNCHANGED <<todo, retry, result>>
     \/ /\ disk[f] # Absent /\ Len(disk[f]) = Size[f]
        /\ DownloadFrom(Tail(todo)) /\ UNCHANGED range
     \/ /\ disk[f] # Absent /\ Len(disk[f]) > Size[f]
        /\ Throw("too_large") /\ UNCHANGED range
  /\ UNCHANGED <<reply, disk, unflushed, bad, asked, verified, warned, foreign, short>>

\* The server's answer to GET with the range header.
Requested(f, start) == SubSeq(Content(f), (IF start = NoRange THEN 0 ELSE start) + 1, Size[f])
Replies(f, start) ==
  {[error |-> TRUE, body |-> <<0>>],
   [error |-> FALSE, body |-> Requested(f, start)]}
  \cup IF MayIgnoreRange THEN {[error |-> FALSE, body |-> Content(f)]} ELSE {}

\* OutFileStream{output_path, mode}: without a range the file is created or
\* truncated, with one it is appended to.
Opened(f) == IF range = NoRange THEN << >> ELSE disk[f]

\* The file is opened and the request is sent.
Request ==
  /\ pc = "request"
  /\ disk' = [disk EXCEPT ![Current] = Opened(Current)]
  /\ reply' \in Replies(Current, range)
  /\ pc' = "stream" /\ unflushed' = 0 /\ bad' = FALSE
  /\ foreign' = IF reply'.error \/ reply'.body = Requested(Current, range)
                  THEN foreign ELSE foreign \cup {Current}
  /\ UNCHANGED <<todo, retry, hasher, range, asked, verified, warned, result, short>>

\* The file cannot be opened for writing: the exception is not caught.
OpenFails ==
  /\ DiskMayFail /\ pc = "request" /\ Throw("cannot_open")
  /\ UNCHANGED <<range, reply, disk, unflushed, bad, asked, verified, warned, foreign,
                 short>>

\* n of the bytes reach the file.
Written(bytes, n) ==
  /\ disk' = [disk EXCEPT ![Current] = @ \o SubSeq(bytes, 1, n)]
  /\ unflushed' = unflushed + n

\* out_file.WriteAll(bytes): nobody looks at the state of the stream, which after a
\* failed write drops what it is given.
WriteAll(bytes) ==
  \/ ~bad /\ Written(bytes, Len(bytes)) /\ UNCHANGED <<bad, short>>
  \/ /\ DiskMayFail /\ ~bad
     /\ \E n \in 0..(Len(bytes) - 1) : Written(bytes, n)
     /\ bad' = TRUE /\ short' = short \cup {Current}
  \/ bad /\ UNCHANGED <<disk, unflushed, bad, short>>

\* Mutant: the body of an error response goes to the callback too.
ReceiveAnyway(n) ==
  LET bytes == SubSeq(reply.body, 1, n) IN
  /\ pc = "stream"
  /\ reply' = [reply EXCEPT !.body = SubSeq(@, n + 1, Len(@))]
  /\ hasher' = IF Current \in Hashed THEN hasher \o bytes ELSE hasher
  /\ WriteAll(bytes)
  /\ UNCHANGED <<pc, todo, retry, range, callVars>>

\* GetRawStream's content receiver: the callback of DownloadFile hashes and writes
\* the next n bytes; the body of an error response is kept apart.
Receive(n) ==
  LET bytes == SubSeq(reply.body, 1, n) IN
  /\ pc = "stream"
  /\ reply' = [reply EXCEPT !.body = SubSeq(@, n + 1, Len(@))]
  /\ \/ /\ reply.error /\ UNCHANGED <<hasher, disk, unflushed, bad, short>>
     \/ /\ ~reply.error
        /\ hasher' = IF Current \in Hashed THEN hasher \o bytes ELSE hasher
        /\ WriteAll(bytes)
  /\ UNCHANGED <<pc, todo, retry, range, callVars>>

\* GetRawStream returns: the whole body was received.
StreamEnds ==
  /\ pc = "stream" /\ ~reply.error /\ reply.body = << >>
  /\ pc' = "verify"
  /\ UNCHANGED <<todo, retry, hasher, range, reply, disk, unflushed, bad, callVars, short>>

\* Mutants: the exception is swallowed; the retry is not counted.
CaughtSwallowed == pc' = "verify" /\ UNCHANGED <<todo, retry, hasher, result>>
CaughtNotCounted ==
  /\ pc' = "check" /\ hasher' = << >> /\ UNCHANGED <<todo, retry, result>>

\* The catch block: give up after the last retry, else with a new hasher.
Caught ==
  \/ /\ retry + 1 = MaxRetries /\ Throw("http_error")
  \/ /\ retry + 1 < MaxRetries
     /\ retry' = retry + 1 /\ hasher' = << >> /\ pc' = "check"
     /\ UNCHANGED <<todo, result>>

\* GetRawStream throws: an error status, or the connection failed, after the last
\* byte of the body too (its end was not seen).  out_file is closed.
StreamFails ==
  /\ pc = "stream" /\ Caught
  /\ unflushed' = 0
  /\ UNCHANGED <<range, reply, disk, bad, asked, verified, warned, foreign, short>>

\* VerifyHash, which at worst logs a warning; DownloadFile returns, out_file closed.
VerifyHash ==
  /\ pc = "verify"
  /\ \/ Current \notin Hashed /\ UNCHANGED <<verified, warned>>
     \/ /\ Current \in Hashed /\ hasher = Content(Current)
        /\ verified' = verified \cup {Current} /\ UNCHANGED warned
     \/ /\ Current \in Hashed /\ hasher # Content(Current)
        /\ warned' = warned \cup {Current} /\ UNCHANGED verified
  /\ DownloadFrom(Tail(todo))
  /\ unflushed' = 0
  /\ UNCHANGED <<range, reply, disk, bad, asked, foreign, short>>

\* The program dies; what out_file had not written is lost.
Crash(lost) ==
  /\ pc # "idle" /\ lost <= unflushed
  /\ disk' = IF lost = 0 THEN disk
             ELSE [disk EXCEPT ![Current] = SubSeq(@, 1, Len(@) - lost)]
  /\ pc' = "idle" /\ result' = "crashed" /\ unflushed' = 0
  /\ UNCHANGED <<todo, retry, hasher, range, reply, bad, asked, verified, warned,
                 foreign, short>>

-----------------------------------------------------------------------------

ClientStep ==
  \/ CheckIfFileExists \/ Request \/ OpenFails
  \/ \E n \in 1..Len(reply.body) : Receive(n)
  \/ StreamEnds \/ StreamFails \/ VerifyHash

Next ==
  \/ Call(Files) \/ \E f \in File : Call(<<f>>)
  \/ ClientStep
  \/ \E lost \in 0..unflushed : Crash(lost)

Spec == Init /\ [][Next]_vars

\* The program runs; a read that brings nothing fails after the client's timeout.
FairSpec == Spec /\ WF_vars(ClientStep)

-----------------------------------------------------------------------------

\* While a file is received, the running hash is the hash of exactly what the file
\* then holds: through resumption, retries in mid-file, error responses and crashes,
\* nothing is hashed twice and nothing on disk is left out.
HashMirrorsFile ==
  pc \in {"stream", "verify"} /\ Current \in Hashed /\ ~bad => hasher = disk[Current]

\* A file reported as verified holds the job's content, whatever was on disk before
\* and whatever the server answered, unless a write failed.
VerifiedIntact == HashMirrorsFile /\ \A f \in verified \ short : disk[f] = Content(f)

\* If what was on disk is a prefix of the file, it stays one, whatever fails (writes
\* too).
PrefixesOnly ==
  \A f \in File \ foreign : disk[f] # Absent => IsPrefix(disk[f], Content(f))

\* When BatchDownload returns its paths, every such file is complete unless a write
\* failed.
ReturnedComplete ==
  result = "paths" => \A f \in asked \ (foreign \cup short) : disk[f] = Content(f)

\* BatchDownload ends, with its paths or an exception, however often requests fail.
CallEnds == pc # "idle" ~> pc = "idle"

\* CHANGELOG.md: download retry, resumption, and checksum verification.  A file whose
\* content is wrong is at least reported when BatchDownload returns.
DocChecksum ==
  result = "paths" => \A f \in asked : disk[f] = Content(f) \/ f \in warned
==============================================================================
