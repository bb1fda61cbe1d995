----------------------------- MODULE RecordStream -----------------------------
(***************************************************************************)
(* What a reader of DBN data promises the application, whatever carries    *)
(* the data: the metadata once, then the records of the input, each once   *)
(* and in order, the end only when there are no more, and an exception     *)
(* only for an input that is broken.  Reads, buffers, compression and the  *)
(* way records are handed over are not visible here.                       *)
(***************************************************************************)
EXTENDS Naturals, Sequences

VARIABLES
  total,    \* whole records in the input
  intact,   \* nothing is missing from the input and nothing in it is malformed
  complete, \* the end of the input can be told from an interruption
  phase,    \* "opened", "records", "ended" or "failed"
  given     \* the records handed over

vars == <<total, intact, complete, phase, given>>

Init ==
  /\ total \in Nat /\ intact \in BOOLEAN /\ complete \in BOOLEAN
  /\ phase = "opened" /\ given = << >>

GiveMetadata == phase = "opened" /\ phase' = "records" /\ UNCHANGED given

GiveRecord ==
  /\ phase = "records" /\ Len(given) < total
  /\ given' = Append(given, Len(given) + 1) /\ UNCHANGED phase

End ==
  /\ phase = "records" /\ (Len(given) = total \/ ~complete)
  /\ phase' = "ended" /\ UNCHANGED given

Fail ==
  /\ phase \in {"opened", "records"} /\ ~intact
  /\ phase' = "failed" /\ UNCHANGED given

Next ==
  /\ GiveMetadata \/ GiveRecord \/ End \/ Fail
  /\ UNCHANGED <<total, intact, complete>>

Spec == Init /\ [][Next]_vars
==============================================================================
