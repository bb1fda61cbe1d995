------------------------- MODULE BatchDownload_proofs -------------------------
(***************************************************************************)
(* The safety of Historical::BatchDownload for every job, every number of  *)
(* retries and every content of the disk.                                  *)
(***************************************************************************)
EXTENDS BatchDownload, SequenceTheorems, TLAPS

\* A file as far as it is right: byte i of the job's files is i.
Counts(s) == \A i \in 1..Len(s) : s[i] = i

\* Concatenation, as the proofs below use it.
LEMMA Concat ==
  ASSUME NEW s \in Seq(Nat), NEW t \in Seq(Nat)
  PROVE  /\ s \o t \in Seq(Nat)
         /\ Len(s \o t) = Len(s) + Len(t)
         /\ \A i \in 1..Len(s) : (s \o t)[i] = s[i]
         /\ \A i \in 1..Len(t) : (s \o t)[Len(s) + i] = t[i]
  BY ConcatProperties

\* Taking the first n bytes of a chunk, and leaving the others.
LEMMA Split ==
  ASSUME NEW s \in Seq(Nat), NEW n \in 0..Len(s)
  PROVE  /\ SubSeq(s, 1, n) \in Seq(Nat) /\ Len(SubSeq(s, 1, n)) = n
         /\ \A i \in 1..n : SubSeq(s, 1, n)[i] = s[i]
         /\ SubSeq(s, n + 1, Len(s)) \in Seq(Nat) /\ Len(SubSeq(s, n + 1, Len(s))) = Len(s) - n
         /\ \A i \in 1..(Len(s) - n) : SubSeq(s, n + 1, Len(s))[i] = s[n + i]
  OBVIOUS

\* The bytes of a file are numbered from its first.
LEMMA ContentCounts ==
  ASSUME NEW f \in File
  PROVE  /\ Content(f) \in Seq(Nat) /\ Len(Content(f)) = Size[f] /\ Counts(Content(f))
         /\ Size[f] \in Nat
  BY DownloadAssumption DEF Content, Counts

\* What is a prefix of a file of the job, and what is all of it.
LEMMA PrefixCounts ==
  ASSUME NEW f \in File, NEW s \in Seq(Nat)
  PROVE  /\ IsPrefix(s, Content(f)) <=> Len(s) <= Size[f] /\ Counts(s)
         /\ s = Content(f) <=> Len(s) = Size[f] /\ Counts(s)
<1>1. /\ Content(f) \in Seq(Nat) /\ Len(Content(f)) = Size[f] /\ Size[f] \in Nat
      /\ \A i \in 1..Size[f] : Content(f)[i] = i
  BY ContentCounts DEF Counts
<1> DEFINE c == Content(f)
<1> HIDE DEF c
<1>2. SubSeq(s, 1, Len(s)) = s
  OBVIOUS
<1>3. ASSUME Len(s) <= Size[f]
      PROVE  /\ SubSeq(c, 1, Len(s)) \in Seq(Nat) /\ Len(SubSeq(c, 1, Len(s))) = Len(s)
             /\ \A i \in 1..Len(s) : SubSeq(c, 1, Len(s))[i] = i
  BY <1>1, <1>3 DEF c
<1>4. IsPrefix(s, c) <=> Len(s) <= Size[f] /\ Counts(s)
  <2>1. ASSUME IsPrefix(s, c) PROVE Len(s) <= Size[f] /\ Counts(s)
    BY <1>1, <1>2, <1>3, <2>1 DEF IsPrefix, Counts, c
  <2>2. ASSUME Len(s) <= Size[f], Counts(s) PROVE IsPrefix(s, c)
    <3>1. s = SubSeq(c, 1, Len(s))
      BY <1>3, <2>2, SeqEqual DEF Counts
    <3> QED
      BY <1>1, <1>2, <2>2, <3>1 DEF IsPrefix, c
  <2> QED
    BY <2>1, <2>2
<1>5. s = c <=> Len(s) = Size[f] /\ Counts(s)
  <2>1. ASSUME Len(s) = Size[f], Counts(s) PROVE s = c
    BY <1>1, <2>1, SeqEqual DEF Counts, c
  <2> QED
    BY <1>1, <2>1 DEF Counts, c
<1> QED
  BY <1>4, <1>5 DEF c

\* The files still to download: the current one and the rest.
LEMMA TodoSplit ==
  ASSUME NEW t \in Seq(File), t # << >>
  PROVE  /\ Head(t) \in File /\ Tail(t) \in Seq(File)
         /\ ToSet(t) = {Head(t)} \cup ToSet(Tail(t))
<1>1. Head(t) \in File /\ Tail(t) \in Seq(File) /\ Len(Tail(t)) = Len(t) - 1
  OBVIOUS
<1>2. /\ Head(t) = t[1] /\ DOMAIN t = 1..Len(t) /\ DOMAIN Tail(t) = 1..(Len(t) - 1)
      /\ \A i \in 1..(Len(t) - 1) : Tail(t)[i] = t[i + 1]
      /\ Len(t) \in Nat /\ Len(t) >= 1
  OBVIOUS
<1>3. ASSUME NEW x \in ToSet(t) PROVE x = Head(t) \/ x \in ToSet(Tail(t))
  <2>1. PICK i \in 1..Len(t) : x = t[i]
    BY <1>2, <1>3 DEF ToSet
  <2>2. i # 1 => i - 1 \in 1..(Len(t) - 1) /\ Tail(t)[i - 1] = t[(i - 1) + 1] /\ (i - 1) + 1 = i
    BY <1>2
  <2> QED
    BY <1>2, <2>1, <2>2 DEF ToSet
<1>4. ASSUME NEW x \in ToSet(Tail(t)) PROVE x \in ToSet(t)
  <2>1. PICK i \in 1..(Len(t) - 1) : x = Tail(t)[i]
    BY <1>2, <1>4 DEF ToSet
  <2>2. i + 1 \in 1..Len(t) /\ x = t[i + 1]
    BY <1>2, <2>1
  <2> QED
    BY <1>2, <2>2 DEF ToSet
<1>5. Head(t) \in ToSet(t)
  BY <1>2 DEF ToSet
<1> QED
  BY <1>1, <1>3, <1>4, <1>5

-----------------------------------------------------------------------------
(* The inductive invariant.                                                *)

Types ==
  /\ pc \in {"idle", "check", "request", "stream", "verify"}
  /\ todo \in Seq(File) /\ (pc # "idle" => todo # << >>)
  /\ hasher \in Seq(Nat) /\ range \in Nat \cup {NoRange}
  /\ reply \in [error : BOOLEAN, body : Seq(Nat)]
  /\ disk \in [File -> Seq(Nat) \cup {Absent}]
  /\ unflushed \in Nat /\ bad \in BOOLEAN
  /\ asked \subseteq File /\ verified \subseteq File

\* DownloadFile starts every attempt with a new hasher and no open file.
NothingOpen == pc \notin {"stream", "verify"} => unflushed = 0
FreshHasher == pc = "check" => hasher = << >>

\* CheckIfFileExists has left either no file and no range, or a range behind an
\* incomplete file and the hash of that file.
RangeMatchesDisk ==
  pc = "request" =>
    \/ range = NoRange /\ disk[Current] = Absent /\ hasher = << >>
    \/ /\ disk[Current] # Absent /\ range = Len(disk[Current]) /\ range < Size[Current]
       /\ Current \in Hashed => hasher = disk[Current]

\* An open file exists, was not verified in this call, and a failed write is on record.
OpenFile ==
  pc \in {"stream", "verify"} =>
    /\ disk[Current] # Absent
    /\ Current \notin verified \ short
    /\ bad => Current \in short
    /\ pc = "verify" => ~reply.error /\ reply.body = << >>

\* What is still to come continues what the file holds, up to its size.
RestContinues ==
  (pc \in {"stream", "verify"} /\ ~reply.error /\ ~bad /\ Current \notin foreign) =>
    /\ Len(disk[Current]) + Len(reply.body) = Size[Current]
    /\ \A j \in 1..Len(reply.body) : reply.body[j] = Len(disk[Current]) + j

\* The files of the call that are behind it are complete.
DoneComplete ==
  /\ result = "paths" => pc = "idle"
  /\ pc # "idle" =>
       \A f \in asked \ (ToSet(todo) \cup foreign \cup short) : disk[f] = Content(f)

VerifiedComplete == \A f \in verified \ short : disk[f] = Content(f)

IInv ==
  /\ Types /\ NothingOpen /\ FreshHasher /\ RangeMatchesDisk /\ OpenFile
  /\ HashMirrorsFile /\ RestContinues
  /\ PrefixesOnly /\ DoneComplete /\ ReturnedComplete /\ VerifiedComplete

-----------------------------------------------------------------------------

\* The initial states satisfy the invariant, whatever is on disk.
LEMMA InitIInv == Init => IInv
<1> SUFFICES ASSUME Init PROVE IInv
  OBVIOUS
<1>1. Types
  <2>1. bad \in BOOLEAN
    BY Zenon DEF Init
  <2>2. reply \in [error : BOOLEAN, body : Seq(Nat)]
    BY EmptySeq DEF Init, NoReply
  <2> QED
    BY <2>1, <2>2, DownloadAssumption, EmptySeq DEF Init, Types
<1>2. PrefixesOnly
  BY DEF Init, PrefixesOnly
<1>3. /\ NothingOpen /\ FreshHasher /\ RangeMatchesDisk /\ OpenFile
      /\ HashMirrorsFile /\ RestContinues
  BY DEF Init, NothingOpen, FreshHasher, RangeMatchesDisk, OpenFile, HashMirrorsFile,
         RestContinues
<1>4. DoneComplete /\ ReturnedComplete /\ VerifiedComplete
  BY DEF Init, DoneComplete, ReturnedComplete, VerifiedComplete
<1> QED
  BY <1>1, <1>2, <1>3, <1>4 DEF IInv

\* The next file is started, or the call ends: nothing is open, and what the call has
\* left behind is complete.
LEMMA DownloadFromLemma ==
  ASSUME IInv, NEW list \in Seq(File), DownloadFrom(list),
         disk' = disk, foreign' = foreign, bad' = bad, unflushed' = 0, reply' = reply,
         range' \in Nat \cup {NoRange}, asked' \subseteq File, verified' \subseteq File,
         \A f \in verified' \ short' : disk[f] = Content(f),
         \A f \in asked' \ (ToSet(list) \cup foreign \cup short') : disk[f] = Content(f)
  PROVE  IInv'
<1> USE DEF IInv, DownloadFrom
<1>1. Types'
  BY EmptySeq DEF Types
<1>2. /\ NothingOpen' /\ FreshHasher' /\ RangeMatchesDisk' /\ OpenFile'
      /\ HashMirrorsFile' /\ RestContinues'
  BY DEF NothingOpen, FreshHasher, RangeMatchesDisk, OpenFile, HashMirrorsFile,
         RestContinues, Current
<1>3. PrefixesOnly' /\ VerifiedComplete' /\ DoneComplete'
  BY DEF PrefixesOnly, VerifiedComplete, DoneComplete, Content
<1>4. ReturnedComplete'
  <2> SUFFICES ASSUME result' = "paths", NEW f \in asked' \ (foreign \cup short')
               PROVE  disk[f] = Content(f)
    BY DEF ReturnedComplete, Content
  <2>1. list = << >> /\ ToSet(list) = {}
    BY DEF ToSet
  <2> QED
    BY <2>1
<1> QED
  BY <1>1, <1>2, <1>3, <1>4

\* The call ends with an exception or a crash; the file system may have lost the end of
\* the current file.
LEMMA CallFails ==
  ASSUME IInv, pc' = "idle", result' # "paths", pc # "idle", UNCHANGED <<todo, foreign, asked, verified, short>>,
         disk' = disk, unflushed' = 0,
         hasher' \in Seq(Nat), range' \in Nat \cup {NoRange}, bad' \in BOOLEAN,
         reply' \in [error : BOOLEAN, body : Seq(Nat)]
  PROVE  IInv'
<1> USE DEF IInv
<1>1. Types'
  BY DEF Types
<1>2. /\ NothingOpen' /\ FreshHasher' /\ RangeMatchesDisk' /\ OpenFile'
      /\ HashMirrorsFile' /\ RestContinues'
  BY DEF NothingOpen, FreshHasher, RangeMatchesDisk, OpenFile, HashMirrorsFile,
         RestContinues, Current
<1>3. PrefixesOnly' /\ VerifiedComplete' /\ DoneComplete' /\ ReturnedComplete'
  BY DEF PrefixesOnly, VerifiedComplete, DoneComplete, ReturnedComplete, Content
<1> QED
  BY <1>1, <1>2, <1>3

\* CheckIfFileExists takes the size of what is on disk for the range to ask for.
LEMMA CheckStep == IInv /\ CheckIfFileExists => IInv'
<1> SUFFICES ASSUME IInv, CheckIfFileExists PROVE IInv'
  OBVIOUS
<1> DEFINE f == Current
<1>1. f \in File /\ Tail(todo) \in Seq(File) /\ ToSet(todo) = {f} \cup ToSet(Tail(todo))
  BY TodoSplit DEF IInv, Types, CheckIfFileExists, Current
<1>2. hasher = << >> /\ unflushed = 0 /\ pc = "check" /\ Size[f] \in Nat
  BY <1>1, DownloadAssumption DEF IInv, FreshHasher, NothingOpen, CheckIfFileExists
<1> USE DEF IInv, CheckIfFileExists
<1>3. CASE disk[f] = Absent
  <2>0. /\ pc' = "request" /\ range' = NoRange
        /\ UNCHANGED <<todo, hasher, result, reply, disk, unflushed, bad, asked, verified,
                       foreign, short>>
    BY <1>3
  <2>1. Types'
    BY <1>2, <2>0 DEF Types
  <2>2. /\ NothingOpen' /\ FreshHasher' /\ RangeMatchesDisk' /\ OpenFile'
        /\ HashMirrorsFile' /\ RestContinues'
    BY <1>2, <1>3, <2>0
    DEF NothingOpen, FreshHasher, RangeMatchesDisk, OpenFile, HashMirrorsFile,
        RestContinues, Current
  <2>3. PrefixesOnly' /\ VerifiedComplete' /\ DoneComplete' /\ ReturnedComplete'
    BY <1>2, <2>0 DEF PrefixesOnly, VerifiedComplete, DoneComplete, ReturnedComplete, Content
  <2> QED
    BY <2>1, <2>2, <2>3
<1>4. CASE disk[f] # Absent /\ Len(disk[f]) < Size[f]
  <2>0. /\ pc' = "request" /\ range' = Len(disk[f]) /\ hasher' = HashExisting(f)
        /\ UNCHANGED <<todo, result, reply, disk, unflushed, bad, asked, verified,
                       foreign, short>>
    BY <1>2, <1>4
  <2>1. disk[f] \in Seq(Nat) /\ Len(disk[f]) \in Nat
    BY <1>1, <1>4 DEF Types
  <2>2. hasher' \in Seq(Nat) /\ (f \in Hashed => hasher' = disk[f])
    BY <1>2, <2>0, <2>1 DEF HashExisting
  <2>3. Types'
    BY <1>2, <2>0, <2>1, <2>2 DEF Types
  <2>4. /\ NothingOpen' /\ FreshHasher' /\ RangeMatchesDisk' /\ OpenFile'
        /\ HashMirrorsFile' /\ RestContinues'
    BY <1>2, <1>4, <2>0, <2>2
    DEF NothingOpen, FreshHasher, RangeMatchesDisk, OpenFile, HashMirrorsFile,
        RestContinues, Current
  <2>5. PrefixesOnly' /\ VerifiedComplete' /\ DoneComplete' /\ ReturnedComplete'
    BY <1>2, <2>0 DEF PrefixesOnly, VerifiedComplete, DoneComplete, ReturnedComplete, Content
  <2> QED
    BY <2>3, <2>4, <2>5
<1>5. CASE disk[f] # Absent /\ Len(disk[f]) = Size[f]
  <2>1. disk[f] \in Seq(Nat)
    BY <1>1, <1>5 DEF Types
  <2>2. f \notin foreign => disk[f] = Content(f)
    BY <1>1, <1>5, <2>1, PrefixCounts DEF PrefixesOnly
  <2>3. \A g \in asked \ (ToSet(Tail(todo)) \cup foreign \cup short) : disk[g] = Content(g)
    BY <1>1, <1>2, <2>2 DEF DoneComplete
  <2>4. \A g \in verified \ short : disk[g] = Content(g)
    BY DEF VerifiedComplete
  <2>5. /\ DownloadFrom(Tail(todo))
        /\ UNCHANGED <<range, reply, disk, unflushed, bad, asked, verified, foreign, short>>
    BY <1>2, <1>5
  <2>6. range \in Nat \cup {NoRange} /\ asked \subseteq File /\ verified \subseteq File
    BY DEF Types
  <2> QED
    BY <1>1, <1>2, <2>3, <2>4, <2>5, <2>6, DownloadFromLemma
<1>6. CASE disk[f] # Absent /\ Len(disk[f]) > Size[f]
  <2>1. /\ Throw("too_large")
        /\ UNCHANGED <<range, reply, disk, unflushed, bad, asked, verified, foreign, short>>
    BY <1>1, <1>2, <1>6, LenProperties DEF Types
  <2> QED
    BY <1>2, <2>1, CallFails DEF Throw, Types
<1> QED
  BY <1>3, <1>4, <1>5, <1>6

\* What the server sends for a range: the bytes behind it.
LEMMA RequestedBytes ==
  ASSUME NEW f \in File, NEW n \in 0..Size[f]
  PROVE  /\ SubSeq(Content(f), n + 1, Size[f]) \in Seq(Nat)
         /\ Len(SubSeq(Content(f), n + 1, Size[f])) = Size[f] - n
         /\ \A j \in 1..(Size[f] - n) : SubSeq(Content(f), n + 1, Size[f])[j] = n + j
<1> DEFINE c == Content(f)
<1>1. c \in Seq(Nat) /\ Len(c) = Size[f] /\ Size[f] \in Nat /\ \A i \in 1..Size[f] : c[i] = i
  BY ContentCounts DEF Counts
<1> HIDE DEF c
<1>2. /\ SubSeq(c, n + 1, Len(c)) \in Seq(Nat) /\ Len(SubSeq(c, n + 1, Len(c))) = Len(c) - n
      /\ \A j \in 1..(Len(c) - n) : SubSeq(c, n + 1, Len(c))[j] = c[n + j]
  BY <1>1, Split
<1>3. \A j \in 1..(Size[f] - n) : c[n + j] = n + j
  BY <1>1
<1> QED
  BY <1>1, <1>2, <1>3 DEF c

\* The request: the server answers with the rest, with all of it, or with an error.
LEMMA RequestStep == IInv /\ Request => IInv'
<1> SUFFICES ASSUME IInv, Request PROVE IInv'
  OBVIOUS
<1> DEFINE f == Current
<1>1. f \in File /\ todo # << >> /\ Size[f] \in Nat /\ Current' = f
  BY TodoSplit, DownloadAssumption DEF IInv, Types, Request, Current
<1>2. /\ pc = "request" /\ pc' = "stream" /\ unflushed' = 0 /\ bad' = FALSE
      /\ UNCHANGED <<todo, hasher, range, asked, verified, result, short>>
      /\ disk' = [disk EXCEPT ![f] = Opened(f)] /\ reply' \in Replies(f, range)
      /\ foreign' = IF reply'.error \/ reply'.body = Requested(f, range)
                      THEN foreign ELSE foreign \cup {f}
  BY DEF Request
<1>3. Opened(f) \in Seq(Nat) /\ Opened(f) # Absent
  BY <1>1, <1>2, EmptySeq DEF IInv, Types, RangeMatchesDisk, Opened, Absent, NoRange
<1>4. Len(Opened(f)) = IF range = NoRange THEN 0 ELSE range
  BY <1>2 DEF IInv, RangeMatchesDisk, Opened, NoRange
<1>5. Len(Opened(f)) \in 0..Size[f]
  BY <1>1, <1>2, <1>3 DEF IInv, RangeMatchesDisk, Opened, NoRange
<1>6. /\ Requested(f, range) \in Seq(Nat)
      /\ Len(Requested(f, range)) = Size[f] - Len(Opened(f))
      /\ \A j \in 1..(Size[f] - Len(Opened(f))) : Requested(f, range)[j] = Len(Opened(f)) + j
  BY <1>1, <1>4, <1>5, RequestedBytes, ZenonT(60) DEF Requested
<1>7. f \in Hashed => hasher = Opened(f)
  BY <1>2 DEF IInv, RangeMatchesDisk, Opened, NoRange
<1>8. /\ disk' \in [File -> Seq(Nat) \cup {Absent}] /\ disk'[f] = Opened(f)
      /\ \A g \in File \ {f} : disk'[g] = disk[g]
  BY <1>1, <1>2, <1>3 DEF IInv, Types
<1>9. reply' \in [error : BOOLEAN, body : Seq(Nat)]
  <2>1. \A e \in BOOLEAN, b \in Seq(Nat) :
          [error |-> e, body |-> b] \in [error : BOOLEAN, body : Seq(Nat)]
    BY Zenon
  <2>2. Content(f) \in Seq(Nat) /\ <<0>> \in Seq(Nat)
    BY <1>1, ContentCounts
  <2>3. \/ reply' = [error |-> TRUE, body |-> <<0>>]
        \/ reply' = [error |-> FALSE, body |-> Requested(f, range)]
        \/ reply' = [error |-> FALSE, body |-> Content(f)]
    BY <1>2 DEF Replies
  <2> QED
    BY <1>6, <2>1, <2>2, <2>3, Zenon
<1>10. Types'
  <2>1. bad' \in BOOLEAN
    BY <1>2, Zenon
  <2> QED
    BY <1>1, <1>2, <1>8, <1>9, <2>1 DEF IInv, Types
<1>11. f \notin verified \ short
  <2>1. disk[f] = Content(f) => Len(disk[f]) = Size[f] /\ disk[f] # Absent
    BY <1>1, ContentCounts DEF Absent, Counts
  <2> QED
    BY <1>1, <1>2, <2>1 DEF IInv, RangeMatchesDisk, VerifiedComplete
<1>12. NothingOpen' /\ FreshHasher' /\ RangeMatchesDisk' /\ HashMirrorsFile'
  BY <1>1, <1>2, <1>7, <1>8
  DEF NothingOpen, FreshHasher, RangeMatchesDisk, HashMirrorsFile
<1>13. OpenFile'
  BY <1>1, <1>2, <1>3, <1>8, <1>11 DEF OpenFile
<1>14. RestContinues'
  <2> SUFFICES ASSUME ~reply'.error, f \notin foreign'
               PROVE  /\ Len(Opened(f)) + Len(reply'.body) = Size[f]
                      /\ \A j \in 1..Len(reply'.body) : reply'.body[j] = Len(Opened(f)) + j
    BY <1>1, <1>2, <1>8 DEF RestContinues
  <2>1. reply'.body = Requested(f, range)
    BY <1>2
  <2>2. Len(Opened(f)) \in Nat
    BY <1>3
  <2> QED
    BY <1>1, <1>6, <2>1, <2>2
<1>15. PrefixesOnly'
  <2>1. f \notin foreign => Len(Opened(f)) <= Size[f] /\ Counts(Opened(f))
    <3>1. range = NoRange => Opened(f) = << >>
      BY DEF Opened
    <3>2. range # NoRange => Opened(f) = disk[f] /\ disk[f] # Absent
      BY <1>2 DEF Opened, IInv, RangeMatchesDisk, NoRange
    <3>3. f \notin foreign /\ range # NoRange => IsPrefix(Opened(f), Content(f))
      BY <1>1, <3>2 DEF IInv, PrefixesOnly
    <3> QED
      BY <1>1, <1>3, <1>5, <3>1, <3>3, PrefixCounts DEF Counts
  <2>2. f \notin foreign => IsPrefix(disk'[f], Content(f))
    BY <1>1, <1>3, <1>8, <2>1, PrefixCounts
  <2> QED
    BY <1>2, <1>8, <2>2 DEF IInv, PrefixesOnly, Content
<1>16. DoneComplete' /\ ReturnedComplete'
  <2>1. f \in ToSet(todo) /\ foreign \subseteq foreign' /\ asked \subseteq File
    BY <1>1, <1>2, TodoSplit DEF IInv, Types, Current
  <2> QED
    BY <1>2, <1>8, <2>1 DEF IInv, DoneComplete, ReturnedComplete, Content
<1>17. VerifiedComplete'
  BY <1>2, <1>8, <1>11 DEF IInv, Types, VerifiedComplete, Content
<1> QED
  BY <1>10, <1>12, <1>13, <1>14, <1>15, <1>16, <1>17 DEF IInv

\* The output file cannot be opened.
LEMMA OpenFailsStep == IInv /\ OpenFails => IInv'
<1> SUFFICES ASSUME IInv, OpenFails PROVE IInv'
  OBVIOUS
<1>1. unflushed' = 0
  BY DEF IInv, NothingOpen, OpenFails
<1> QED
  BY <1>1, CallFails DEF IInv, Types, OpenFails, Throw

\* m of the next n bytes of the body are written: the file keeps what it had, and gains
\* bytes in the order of the body.
LEMMA WrittenBytes ==
  ASSUME Types, pc = "stream", disk[Current] # Absent,
         NEW n \in 1..Len(reply.body), NEW m \in 0..n,
         Written(SubSeq(reply.body, 1, n), m)
  PROVE  /\ disk' \in [File -> Seq(Nat) \cup {Absent}]
         /\ \A g \in File \ {Current} : disk'[g] = disk[g]
         /\ disk[Current] \in Seq(Nat)
         /\ disk'[Current] \in Seq(Nat) /\ disk'[Current] # Absent
         /\ disk'[Current] = disk[Current] \o SubSeq(SubSeq(reply.body, 1, n), 1, m)
         /\ Len(disk'[Current]) = Len(disk[Current]) + m
         /\ \A i \in 1..Len(disk[Current]) : disk'[Current][i] = disk[Current][i]
         /\ \A i \in 1..m : disk'[Current][Len(disk[Current]) + i] = reply.body[i]
         /\ unflushed' \in Nat
<1> DEFINE f == Current
           bytes == SubSeq(reply.body, 1, n)
           put == SubSeq(bytes, 1, m)
           old == disk[f]
<1>1. f \in File /\ reply.body \in Seq(Nat) /\ n \in 0..Len(reply.body)
  BY TodoSplit DEF Types, Current
<1>2. old \in Seq(Nat)
  BY <1>1 DEF Types
<1>3. bytes \in Seq(Nat) /\ Len(bytes) = n /\ \A i \in 1..n : bytes[i] = reply.body[i]
  BY <1>1, Split
<1> HIDE DEF bytes
<1>4. put \in Seq(Nat) /\ Len(put) = m /\ \A i \in 1..m : put[i] = bytes[i]
  BY <1>3, Split
<1>5. \A i \in 1..m : put[i] = reply.body[i]
  BY <1>3, <1>4
<1>6. disk' = [disk EXCEPT ![f] = old \o put] /\ unflushed' = unflushed + m
  BY DEF Written, bytes
<1> HIDE DEF put, old
<1>7. /\ old \o put \in Seq(Nat) /\ Len(old \o put) = Len(old) + m
      /\ \A i \in 1..Len(old) : (old \o put)[i] = old[i]
      /\ \A i \in 1..m : (old \o put)[Len(old) + i] = reply.body[i]
  BY <1>2, <1>4, <1>5, Concat
<1>8. /\ disk' \in [File -> Seq(Nat) \cup {Absent}] /\ disk'[f] = old \o put
      /\ \A g \in File \ {f} : disk'[g] = disk[g]
  BY <1>1, <1>6, <1>7 DEF Types
<1>9. old \o put # Absent
  <2>1. Absent[1] = -1 /\ Len(Absent) = 1
    BY DEF Absent
  <2>2. Len(old \o put) = 1 => (old \o put)[1] \in Nat
    BY <1>7
  <2> QED
    BY <2>1, <2>2
<1>10. unflushed' \in Nat
  BY <1>6 DEF Types
<1>11. /\ disk'[f] \in Seq(Nat) /\ disk'[f] # Absent /\ Len(disk'[f]) = Len(old) + m
       /\ \A i \in 1..Len(old) : disk'[f][i] = old[i]
       /\ \A i \in 1..m : disk'[f][Len(old) + i] = reply.body[i]
  BY <1>7, <1>8, <1>9
<1> QED
  BY <1>2, <1>8, <1>10, <1>11, Zenon DEF old, put, bytes

\* The file holds more of the body, or a write has failed for it: the named parts of
\* the invariant that speak of other files are kept.
LEMMA OthersKept ==
  ASSUME IInv, pc = "stream", todo # << >>,
         UNCHANGED <<pc, todo, asked, verified, result, foreign>>,
         \A g \in File \ {Current} : disk'[g] = disk[g],
         short \subseteq short', Current \notin foreign => IsPrefix(disk'[Current], Content(Current))
  PROVE  PrefixesOnly' /\ DoneComplete' /\ ReturnedComplete' /\ VerifiedComplete'
<1>1. Current \in ToSet(todo) /\ Current \in File
  BY TodoSplit DEF IInv, Types, Current
<1>2. PrefixesOnly'
  BY DEF IInv, PrefixesOnly, Content
<1>3. DoneComplete' /\ ReturnedComplete'
  BY <1>1 DEF IInv, Types, DoneComplete, ReturnedComplete, Content
<1>4. VerifiedComplete'
  BY <1>1 DEF IInv, Types, OpenFile, VerifiedComplete, Content
<1> QED
  BY <1>2, <1>3, <1>4

\* A part of the body is appended to the file and hashed.
LEMMA ReceiveStep ==
  ASSUME IInv, NEW n \in 1..Len(reply.body), Receive(n)
  PROVE  IInv'
<1> DEFINE f == Current
           bytes == SubSeq(reply.body, 1, n)
<1>1. /\ pc = "stream" /\ UNCHANGED <<pc, todo, retry, range, asked, verified, warned, result, foreign>>
      /\ reply' = [reply EXCEPT !.body = SubSeq(reply.body, n + 1, Len(reply.body))]
  BY DEF Receive, callVars
<1>2. /\ f \in File /\ todo # << >> /\ Size[f] \in Nat /\ Current' = f
      /\ reply.body \in Seq(Nat) /\ n \in 0..Len(reply.body)
  BY <1>1, TodoSplit, DownloadAssumption, SMTT(30) DEF IInv, Types, Current
<1>3. /\ disk[f] # Absent /\ f \notin verified \ short /\ (bad => f \in short)
      /\ disk[f] \in Seq(Nat)
  BY <1>1, <1>2 DEF IInv, OpenFile, Types
<1>4. /\ bytes \in Seq(Nat) /\ Len(bytes) = n /\ \A i \in 1..n : bytes[i] = reply.body[i]
      /\ SubSeq(bytes, 1, n) = bytes
  <2>1. bytes \in Seq(Nat) /\ Len(bytes) = n /\ \A i \in 1..n : bytes[i] = reply.body[i]
    BY <1>2, Split
  <2> HIDE DEF bytes
  <2> QED
    BY <2>1
<1>5. /\ reply'.error = reply.error /\ reply' \in [error : BOOLEAN, body : Seq(Nat)]
      /\ Len(reply'.body) = Len(reply.body) - n
      /\ \A j \in 1..(Len(reply.body) - n) : reply'.body[j] = reply.body[n + j]
  BY <1>1, <1>2, Split DEF IInv, Types
<1> HIDE DEF bytes
<1>6. f \notin foreign => Len(disk[f]) <= Size[f] /\ Counts(disk[f])
  BY <1>2, <1>3, PrefixCounts DEF IInv, PrefixesOnly
<1>7. CASE reply.error
  <2>1. UNCHANGED <<hasher, disk, unflushed, bad, short>>
    BY <1>7 DEF Receive
  <2>2. Types'
    BY <1>1, <1>5, <2>1 DEF IInv, Types
  <2>3. NothingOpen' /\ FreshHasher' /\ RangeMatchesDisk' /\ HashMirrorsFile'
    BY <1>1, <1>2, <2>1
    DEF IInv, NothingOpen, FreshHasher, RangeMatchesDisk, HashMirrorsFile
  <2>4. OpenFile' /\ RestContinues'
    BY <1>1, <1>2, <1>3, <1>5, <1>7, <2>1 DEF OpenFile, RestContinues
  <2>5. f \notin foreign => IsPrefix(disk'[f], Content(f))
    BY <1>2, <1>3, <2>1 DEF IInv, PrefixesOnly
  <2>6. PrefixesOnly' /\ DoneComplete' /\ ReturnedComplete' /\ VerifiedComplete'
    BY <1>1, <1>2, <2>1, <2>5, OthersKept
  <2> QED
    BY <2>2, <2>3, <2>4, <2>6 DEF IInv
<1>8. CASE ~reply.error
  <2>0. /\ hasher' = IF f \in Hashed THEN hasher \o bytes ELSE hasher
        /\ WriteAll(bytes)
    BY <1>8 DEF Receive, bytes
  <2>1. hasher' \in Seq(Nat)
    BY <1>4, <2>0, Concat DEF IInv, Types
  <2>2. NothingOpen' /\ FreshHasher' /\ RangeMatchesDisk'
    BY <1>1 DEF NothingOpen, FreshHasher, RangeMatchesDisk
  <2>3. ASSUME NEW m \in 0..n, ~bad, Written(bytes, m),
               \/ bad' = TRUE /\ short' = short \cup {f}
               \/ m = n /\ bad' = bad /\ short' = short
        PROVE  IInv'
    <3>1. /\ disk' \in [File -> Seq(Nat) \cup {Absent}]
          /\ \A g \in File \ {f} : disk'[g] = disk[g]
          /\ disk'[f] \in Seq(Nat) /\ disk'[f] # Absent
          /\ disk'[f] = disk[f] \o SubSeq(bytes, 1, m)
          /\ Len(disk'[f]) = Len(disk[f]) + m
          /\ \A i \in 1..Len(disk[f]) : disk'[f][i] = disk[f][i]
          /\ \A i \in 1..m : disk'[f][Len(disk[f]) + i] = reply.body[i]
          /\ unflushed' \in Nat
      BY <1>1, <1>3, <2>3, WrittenBytes DEF IInv, bytes
    <3>2. bad' \in BOOLEAN
      BY <2>3, Zenon DEF IInv, Types
    <3>3. Types'
      BY <1>1, <1>5, <2>1, <3>1, <3>2 DEF IInv, Types
    <3>4. HashMirrorsFile'
      <4> SUFFICES ASSUME f \in Hashed, ~bad' PROVE hasher' = disk'[f]
        BY <1>1, <1>2 DEF HashMirrorsFile
      <4>1. m = n
        BY <2>3
      <4>2. hasher = disk[f]
        BY <1>1, <2>3 DEF IInv, HashMirrorsFile
      <4> QED
        BY <1>4, <2>0, <3>1, <4>1, <4>2
    <3>5. OpenFile'
      BY <1>1, <1>2, <1>3, <2>3, <3>1 DEF OpenFile
    <3>6. RestContinues'
      <4> SUFFICES ASSUME f \notin foreign, ~bad'
                   PROVE  /\ Len(disk'[f]) + Len(reply'.body) = Size[f]
                          /\ \A j \in 1..Len(reply'.body) : reply'.body[j] = Len(disk'[f]) + j
        BY <1>1, <1>2 DEF RestContinues
      <4>1. m = n
        BY <2>3
      <4>2. /\ Len(disk[f]) + Len(reply.body) = Size[f]
            /\ \A j \in 1..Len(reply.body) : reply.body[j] = Len(disk[f]) + j
        BY <1>1, <1>8, <2>3 DEF IInv, RestContinues
      <4> DEFINE a == Len(disk[f])
                 b == Len(reply.body)
                 c == Len(disk'[f])
                 d == Len(reply'.body)
      <4>3. /\ a \in Nat /\ b \in Nat /\ n \in Nat /\ c = a + n /\ d = b - n /\ a + b = Size[f]
            /\ \A j \in 1..b : reply.body[j] = a + j
            /\ \A j \in 1..(b - n) : reply'.body[j] = reply.body[n + j]
        <5>1. a \in Nat /\ b \in Nat /\ n \in Nat
          BY <1>2, <1>3
        <5>2. c = a + n /\ d = b - n
          BY <1>5, <3>1, <4>1
        <5> QED
          BY <1>5, <4>2, <5>1, <5>2, Zenon
      <4> HIDE DEF a, b, c, d
      <4>4. \A j \in 1..d : reply'.body[j] = c + j
        <5> TAKE j \in 1..d
        <5>1. n + j \in 1..b /\ j \in 1..(b - n) /\ a + (n + j) = c + j
          BY <4>3
        <5> QED
          BY <4>3, <5>1
      <4>5. c + d = Size[f]
        BY <4>3
      <4> QED
        BY <4>4, <4>5 DEF c, d
    <3>7. f \notin foreign => IsPrefix(disk'[f], Content(f))
      <4> SUFFICES ASSUME f \notin foreign
                   PROVE  Len(disk'[f]) <= Size[f] /\ Counts(disk'[f])
        BY <1>2, <3>1, PrefixCounts
      <4>1. /\ Len(disk[f]) + Len(reply.body) = Size[f]
            /\ \A j \in 1..Len(reply.body) : reply.body[j] = Len(disk[f]) + j
        BY <1>1, <1>8, <2>3 DEF IInv, RestContinues
      <4>2. Len(disk[f]) \in Nat /\ Len(reply.body) \in Nat /\ m <= Len(reply.body)
        BY <1>2, <1>3
      <4>3. Len(disk'[f]) = Len(disk[f]) + m /\ Len(disk'[f]) <= Size[f]
        <5>1. Len(disk'[f]) = Len(disk[f]) + m /\ Len(disk[f]) + Len(reply.body) = Size[f]
          BY <3>1, <4>1
        <5>2. Len(disk[f]) + m <= Len(disk[f]) + Len(reply.body)
          BY <4>2
        <5> QED
          BY <5>1, <5>2
      <4>4. ASSUME NEW i \in 1..Len(disk'[f]) PROVE disk'[f][i] = i
        <5>1. CASE i <= Len(disk[f])
          BY <1>6, <3>1, <4>2, <5>1 DEF Counts
        <5>2. CASE i > Len(disk[f])
          <6>1. i - Len(disk[f]) \in 1..m /\ Len(disk[f]) + (i - Len(disk[f])) = i
            BY <4>2, <4>3, <5>2
          <6>2. disk'[f][i] = reply.body[i - Len(disk[f])]
            BY <3>1, <6>1
          <6>3. i - Len(disk[f]) \in 1..Len(reply.body)
            BY <4>2, <6>1
          <6> QED
            BY <4>1, <6>1, <6>2, <6>3
        <5> QED
          BY <4>2, <5>1, <5>2
      <4> QED
        BY <4>3, <4>4 DEF Counts
    <3>8. PrefixesOnly' /\ DoneComplete' /\ ReturnedComplete' /\ VerifiedComplete'
      BY <1>1, <1>2, <2>3, <3>1, <3>7, OthersKept
    <3> QED
      BY <2>2, <3>3, <3>4, <3>5, <3>6, <3>8 DEF IInv
  <2>4. CASE ~bad /\ Written(bytes, Len(bytes)) /\ UNCHANGED <<bad, short>>
    <3>1. n \in 0..n /\ Written(bytes, n)
      BY <1>4, <2>4
    <3>2. ~bad /\ bad' = bad /\ short' = short
      BY <2>4
    <3> QED
      BY <2>3, <3>1, <3>2
  <2>5. CASE /\ DiskMayFail /\ ~bad
             /\ \E m \in 0..(Len(bytes) - 1) : Written(bytes, m)
             /\ bad' = TRUE /\ short' = short \cup {f}
    <3>1. PICK m \in 0..(Len(bytes) - 1) : Written(bytes, m)
      BY <2>5
    <3>2. m \in 0..n
      BY <1>4
    <3>3. ~bad /\ bad' = TRUE /\ short' = short \cup {f}
      BY <2>5
    <3> QED
      BY <2>3, <3>1, <3>2, <3>3
  <2>6. CASE bad /\ UNCHANGED <<disk, unflushed, bad, short>>
    <3>1. Types'
      BY <1>1, <1>5, <2>1, <2>6 DEF IInv, Types
    <3>2. HashMirrorsFile' /\ OpenFile' /\ RestContinues'
      BY <1>1, <1>2, <1>3, <2>6 DEF HashMirrorsFile, OpenFile, RestContinues
    <3>3. f \notin foreign => IsPrefix(disk'[f], Content(f))
      BY <1>2, <1>3, <2>6 DEF IInv, PrefixesOnly
    <3>4. PrefixesOnly' /\ DoneComplete' /\ ReturnedComplete' /\ VerifiedComplete'
      BY <1>1, <1>2, <2>6, <3>3, OthersKept
    <3> QED
      BY <2>2, <3>1, <3>2, <3>4 DEF IInv
  <2> QED
    BY <2>0, <2>4, <2>5, <2>6 DEF WriteAll
<1> QED
  BY <1>7, <1>8 DEF IInv, Types

\* The body has ended and is flushed.
LEMMA StreamEndsStep == IInv /\ StreamEnds => IInv'
<1> SUFFICES ASSUME IInv, StreamEnds PROVE IInv'
  OBVIOUS
<1>1. /\ pc = "stream" /\ ~reply.error /\ reply.body = << >> /\ pc' = "verify"
      /\ UNCHANGED <<todo, hasher, range, reply, disk, unflushed, bad, asked, verified,
                     result, foreign, short>>
  BY DEF StreamEnds, callVars
<1>2. Types'
  BY <1>1 DEF IInv, Types
<1>3. /\ NothingOpen' /\ FreshHasher' /\ RangeMatchesDisk' /\ OpenFile'
      /\ HashMirrorsFile' /\ RestContinues'
  BY <1>1 DEF IInv, NothingOpen, FreshHasher, RangeMatchesDisk, OpenFile, HashMirrorsFile,
              RestContinues, Current
<1>4. PrefixesOnly' /\ VerifiedComplete' /\ DoneComplete' /\ ReturnedComplete'
  BY <1>1 DEF IInv, PrefixesOnly, VerifiedComplete, DoneComplete, ReturnedComplete, Content
<1> QED
  BY <1>2, <1>3, <1>4 DEF IInv

\* The connection is lost in mid-body; what was not flushed may be lost too.
LEMMA StreamFailsStep == IInv /\ StreamFails => IInv'
<1> SUFFICES ASSUME IInv, StreamFails PROVE IInv'
  OBVIOUS
<1>1. /\ pc = "stream" /\ unflushed' = 0
      /\ UNCHANGED <<range, reply, disk, bad, asked, verified, foreign, short>>
  BY DEF StreamFails
<1>2. CASE Throw("http_error")
  BY <1>1, <1>2, CallFails DEF IInv, Types, Throw
<1>3. CASE hasher' = << >> /\ pc' = "check" /\ UNCHANGED <<todo, result>>
  <2>1. Types'
    BY <1>1, <1>3, EmptySeq DEF IInv, Types
  <2>2. /\ NothingOpen' /\ FreshHasher' /\ RangeMatchesDisk' /\ OpenFile'
        /\ HashMirrorsFile' /\ RestContinues'
    BY <1>1, <1>3 DEF NothingOpen, FreshHasher, RangeMatchesDisk, OpenFile,
                      HashMirrorsFile, RestContinues
  <2>3. PrefixesOnly' /\ VerifiedComplete' /\ DoneComplete' /\ ReturnedComplete'
    BY <1>1, <1>3
    DEF IInv, PrefixesOnly, VerifiedComplete, DoneComplete, ReturnedComplete, Content
  <2> QED
    BY <2>1, <2>2, <2>3 DEF IInv
<1> QED
  BY <1>2, <1>3 DEF StreamFails, Caught

\* The file is closed.  It is complete unless it is foreign or a write has failed, and if
\* its checksum was right it is complete unless a write has failed.
LEMMA VerifyHashStep == IInv /\ VerifyHash => IInv'
<1> SUFFICES ASSUME IInv, VerifyHash PROVE IInv'
  OBVIOUS
<1> DEFINE f == Current
<1>1. /\ pc = "verify" /\ unflushed' = 0 /\ DownloadFrom(Tail(todo))
      /\ UNCHANGED <<range, reply, disk, bad, asked, foreign, short>>
      /\ \/ verified' = verified
         \/ f \in Hashed /\ hasher = Content(f) /\ verified' = verified \cup {f}
  BY DEF VerifyHash
<1>2. f \in File /\ Tail(todo) \in Seq(File) /\ ToSet(todo) = {f} \cup ToSet(Tail(todo))
  BY <1>1, TodoSplit DEF IInv, Types, Current
<1>3. /\ disk[f] \in Seq(Nat) /\ disk[f] # Absent /\ (bad => f \in short)
      /\ ~reply.error /\ reply.body = << >>
  BY <1>1, <1>2 DEF IInv, Types, OpenFile
<1>4. f \notin foreign \cup short => disk[f] = Content(f)
  <2> SUFFICES ASSUME f \notin foreign, ~bad PROVE disk[f] = Content(f)
    BY <1>3
  <2>1. Len(disk[f]) = Size[f]
    <3>1. Len(disk[f]) + Len(reply.body) = Size[f]
      BY <1>1, <1>3 DEF IInv, RestContinues
    <3>2. Len(reply.body) = 0 /\ Len(disk[f]) \in Nat
      BY <1>3
    <3> DEFINE a == Len(disk[f])
    <3> HIDE DEF a
    <3>3. a + 0 = Size[f] /\ a \in Nat
      BY <3>1, <3>2 DEF a
    <3> QED
      BY <3>3 DEF a
  <2>2. Counts(disk[f])
    BY <1>2, <1>3, PrefixCounts DEF IInv, PrefixesOnly
  <2> QED
    BY <1>2, <1>3, <2>1, <2>2, PrefixCounts
<1>5. \A g \in asked \ (ToSet(Tail(todo)) \cup foreign \cup short) : disk[g] = Content(g)
  BY <1>1, <1>2, <1>4 DEF IInv, DoneComplete
<1>6. \A g \in verified' \ short : disk[g] = Content(g)
  <2>1. f \in Hashed /\ hasher = Content(f) /\ f \notin short => disk[f] = Content(f)
    BY <1>1, <1>3 DEF IInv, HashMirrorsFile
  <2> QED
    BY <1>1, <2>1 DEF IInv, VerifiedComplete
<1>7. range \in Nat \cup {NoRange} /\ asked \subseteq File /\ verified' \subseteq File
  BY <1>1, <1>2 DEF IInv, Types
<1> QED
  BY <1>1, <1>2, <1>5, <1>6, <1>7, DownloadFromLemma

\* What a crash loses is the end of the file that is open: a shorter prefix is left.
LEMMA CrashStep ==
  ASSUME IInv, NEW lost \in 0..unflushed, Crash(lost)
  PROVE  IInv'
<1> DEFINE f == Current
<1>1. /\ pc # "idle" /\ pc' = "idle" /\ result' = "crashed" /\ unflushed' = 0
      /\ UNCHANGED <<todo, hasher, range, reply, bad, asked, verified, foreign, short>>
  BY DEF Crash
<1>2. CASE lost = 0
  <2>1. disk' = disk
    BY <1>2 DEF Crash
  <2> QED
    BY <1>1, <2>1, CallFails DEF IInv, Types
<1>3. CASE lost # 0
  <2>1. pc \in {"stream", "verify"}
    BY <1>3 DEF IInv, NothingOpen
  <2>2. f \in File /\ f \in ToSet(todo) /\ todo # << >>
    BY <1>1, TodoSplit DEF IInv, Types, Current
  <2>3. disk[f] \in Seq(Nat) /\ f \notin verified \ short
    BY <2>1, <2>2 DEF IInv, Types, OpenFile
  <2> DEFINE old == disk[f]
             rest == SubSeq(old, 1, Len(old) - lost)
  <2>4. disk' = [disk EXCEPT ![f] = rest]
    BY <1>3 DEF Crash
  <2>5. /\ rest \in Seq(Nat) /\ Len(rest) <= Len(old)
        /\ \A i \in 1..Len(rest) : rest[i] = old[i]
    <3>1. old \in Seq(Nat) /\ lost \in Nat
      BY <2>3 DEF IInv, Types
    <3> HIDE DEF old
    <3> QED
      BY <3>1
  <2>6. /\ disk' \in [File -> Seq(Nat) \cup {Absent}] /\ disk'[f] = rest
        /\ \A g \in File \ {f} : disk'[g] = disk[g]
    BY <2>2, <2>4, <2>5 DEF IInv, Types
  <2>7. Types'
    BY <1>1, <2>6 DEF IInv, Types
  <2>8. /\ NothingOpen' /\ FreshHasher' /\ RangeMatchesDisk' /\ OpenFile'
        /\ HashMirrorsFile' /\ RestContinues' /\ DoneComplete' /\ ReturnedComplete'
    BY <1>1 DEF NothingOpen, FreshHasher, RangeMatchesDisk, OpenFile, HashMirrorsFile,
                RestContinues, DoneComplete, ReturnedComplete
  <2>9. PrefixesOnly'
    <3>1. f \notin foreign => Len(old) <= Size[f] /\ Counts(old)
      BY <2>1, <2>2, <2>3, PrefixCounts DEF IInv, PrefixesOnly, OpenFile
    <3>2. f \notin foreign => Len(rest) <= Size[f] /\ Counts(rest)
      <4>1. old \in Seq(Nat) /\ Size[f] \in Nat
        BY <2>2, <2>3, DownloadAssumption
      <4> HIDE DEF old, rest
      <4>2. Len(rest) \in Nat /\ Len(old) \in Nat /\ Len(rest) <= Len(old)
        BY <2>5, <4>1
      <4>3. \A i \in 1..Len(rest) : i \in 1..Len(old) /\ rest[i] = old[i]
        BY <2>5, <4>2
      <4>4. Len(old) <= Size[f] => Len(rest) <= Size[f]
        BY <4>1, <4>2
      <4> QED
        BY <3>1, <4>3, <4>4 DEF Counts
    <3>3. f \notin foreign => IsPrefix(disk'[f], Content(f))
      BY <2>2, <2>5, <2>6, <3>2, PrefixCounts
    <3> QED
      BY <1>1, <2>6, <3>3 DEF IInv, PrefixesOnly, Content
  <2>10. VerifiedComplete'
    BY <1>1, <2>3, <2>6 DEF IInv, Types, VerifiedComplete, Content
  <2> QED
    BY <2>7, <2>8, <2>9, <2>10 DEF IInv
<1> QED
  BY <1>2, <1>3

\* BatchDownload is called for some files of the job.
LEMMA CallStep ==
  ASSUME IInv, NEW list \in Seq(File), Call(list)
  PROVE  IInv'
<1>1. ToSet(list) \subseteq File
  BY DEF ToSet
<1>2. unflushed' = 0
  BY DEF IInv, NothingOpen, Call
<1>3. /\ DownloadFrom(list) /\ asked' = ToSet(list) /\ verified' = {}
      /\ UNCHANGED <<range, reply, disk, bad, foreign>>
  BY DEF Call
<1>4. range \in Nat \cup {NoRange}
  BY DEF IInv, Types
<1> QED
  BY <1>1, <1>2, <1>3, <1>4, DownloadFromLemma

\* Every step of a download keeps IInv.
LEMMA NextIInv == IInv /\ [Next]_vars => IInv'
<1> SUFFICES ASSUME IInv, [Next]_vars PROVE IInv'
  OBVIOUS
<1>1. CASE Call(Files)
  BY <1>1, CallStep, DownloadAssumption
<1>2. ASSUME NEW f \in File, Call(<<f>>) PROVE IInv'
  <2>1. <<f>> \in Seq(File)
    BY <1>2
  <2> QED
    BY <1>2, <2>1, CallStep
<1>3. CASE ClientStep
  BY <1>3, CheckStep, RequestStep, OpenFailsStep, ReceiveStep, StreamEndsStep,
     StreamFailsStep, VerifyHashStep DEF ClientStep
<1>4. ASSUME NEW lost \in 0..unflushed, Crash(lost) PROVE IInv'
  BY <1>4, CrashStep
<1>5. CASE UNCHANGED vars
  <2>1. Types'
    BY <1>5 DEF IInv, Types, vars
  <2>2. /\ NothingOpen' /\ FreshHasher' /\ RangeMatchesDisk' /\ OpenFile'
        /\ HashMirrorsFile' /\ RestContinues'
    BY <1>5 DEF IInv, NothingOpen, FreshHasher, RangeMatchesDisk, OpenFile,
                HashMirrorsFile, RestContinues, Current, vars
  <2>3. PrefixesOnly' /\ VerifiedComplete' /\ DoneComplete' /\ ReturnedComplete'
    BY <1>5 DEF IInv, PrefixesOnly, VerifiedComplete, DoneComplete, ReturnedComplete,
                Content, vars
  <2> QED
    BY <2>1, <2>2, <2>3 DEF IInv
<1> QED
  BY <1>1, <1>2, <1>3, <1>4, <1>5 DEF Next

-----------------------------------------------------------------------------

\* Every reachable state of BatchDownload satisfies the inductive invariant.
THEOREM IInvHolds == Spec => []IInv
<1> QED
  BY InitIInv, NextIInv, PTL DEF Spec

\* Whatever fails, BatchDownload never puts a byte out of place: what was a prefix of the
\* job's file stays one, through resumed downloads, retries, failed writes and crashes,
\* for every job, every disk and every number of retries.
THEOREM PrefixesOnlyHolds == Spec => []PrefixesOnly
<1>1. IInv => PrefixesOnly
  BY DEF IInv
<1> QED
  BY <1>1, IInvHolds, PTL

\* When BatchDownload returns its paths, every file it was asked for is the job's file,
\* unless a byte was out of place before the call, the server ignored the range, or a
\* write failed.
THEOREM ReturnedCompleteHolds == Spec => []ReturnedComplete
<1>1. IInv => ReturnedComplete
  BY DEF IInv
<1> QED
  BY <1>1, IInvHolds, PTL

\* The running hash is the hash of the file, and a file whose checksum was found right
\* holds the job's content, whatever was on disk and whatever the server answered, unless
\* a write failed.
THEOREM VerifiedIntactHolds == Spec => []VerifiedIntact
<1>1. IInv => VerifiedIntact
  BY DEF IInv, VerifiedIntact, VerifiedComplete
<1> QED
  BY <1>1, IInvHolds, PTL
===============================================================================
