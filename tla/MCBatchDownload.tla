--------------------------- MODULE MCBatchDownload ---------------------------
(***************************************************************************)
(* BatchDownload for a job of two files, of three bytes and of one, with   *)
(* every prefix of them on disk before, or files of a different origin.    *)
(***************************************************************************)
EXTENDS BatchDownload

MCFiles == <<"data", "meta">>
MCSize == [f \in {"data", "meta"} |-> IF f = "data" THEN 3 ELSE 1]
OneFile == <<"data">>
OneSize == [f \in {"data"} |-> 2]

Partial(f) == {Absent} \cup Prefixes(Content(f))
PartialDisks == {d \in [File -> UNION {Partial(f) : f \in File}] :
                   \A f \in File : d[f] \in Partial(f)}

\* Incomplete, complete and overlong files that are not the job's.
ForeignDisks == [File -> {<<9>>, <<9, 2, 3>>, <<1, 2, 3, 4>>}]
ForeignPartial == {[f \in File |-> <<9>>]}
AnyDisks == PartialDisks \cup ForeignDisks
==============================================================================
