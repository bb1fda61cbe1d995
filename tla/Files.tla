-------------------------------- MODULE Files --------------------------------
(***************************************************************************)
(* A file of metadata and records, written by DbnEncoder and read by       *)
(* DbnDecoder any number of times, each time with an upgrade policy of     *)
(* the reader's choice, and written again as it was read.                  *)
(***************************************************************************)
EXTENDS MetadataCodec, Records

CONSTANTS
  Metadatas,   \* metadata an application may write
  Texts,       \* texts of error and system messages: [starts, ends, terminated]
  None         \* no value

ASSUME FilesAssumption ==
  /\ Metadatas \subseteq Metadata
  /\ Garbled \notin Metadata \cup Nat \cup STRING \cup BOOLEAN \cup FixedString
                    \cup Seq(FixedString) \cup Seq(DatedMapping)
                    \cup DOMAIN SchemaValue \cup DOMAIN STypeValue \cup {Nullopt}

VARIABLES
  meta,        \* the metadata last written or read
  rec,         \* a record of the file
  chunks,      \* the encoded metadata, or << >>
  \* history:
  origin       \* the metadata and the record the application started from

fileVars == <<meta, rec, chunks, origin>>

\* The fields of a record of version v: each holds its own name, messages a text, the
\* quantity of a statistic a number or the marker of an undefined one.
FieldValues(rtype, v) ==
  LET plain == [f \in ToSet(Struct[rtype][v]) |-> f]
  IN  CASE rtype = "Error" -> {[plain EXCEPT !.err = t] : t \in Texts}
        [] rtype = "System" -> {[plain EXCEPT !.msg = t] : t \in Texts}
        [] rtype = "Statistics" -> {plain, [plain EXCEPT !.quantity = kUndefQuantity32]}
        [] OTHER -> {plain}

NoFile == meta = None /\ rec = None /\ chunks = << >> /\ origin = None

\* With the metadata alone, or with a record of an older version, which sees nothing of the
\* metadata but its version and ts_out.
InitFile ==
  /\ meta \in Metadatas
  /\ \/ rec = None
     \/ /\ meta.symbols = << >>
        /\ LET v == EncodedVersion(meta)
           IN  /\ v < kDbnVersion
               /\ \E t \in Changed : \E f \in FieldValues(t, v) :
                    rec = RecordOf(t, v, meta.ts_out, f)
  /\ chunks = << >> /\ origin = [meta |-> meta, rec |-> rec]

\* DbnEncoder's constructor, and EncodeRecord, which writes the record as it is.
Encode ==
  /\ meta \notin {None, Garbled} /\ chunks = << >> /\ ~EncodeThrows(meta)
  /\ chunks' = EncodeMetadata(meta)
  /\ UNCHANGED <<meta, rec, origin>>

\* EncodeFixedLenCStr throws with part of the file written.
EncodeFails ==
  /\ meta \notin {None, Garbled} /\ chunks = << >> /\ EncodeThrows(meta)
  /\ meta' = None
  /\ UNCHANGED <<rec, chunks, origin>>

\* DbnDecoder with a policy, DecodeMetadata and DecodeRecord.
Decode(policy) ==
  /\ chunks # << >>
  /\ meta' = IF FixedFieldsFit(chunks) /\ Readable(DecodeMetadata(chunks))
               THEN UpgradeMetadata(DecodeMetadata(chunks), policy)
               ELSE Garbled
  /\ rec' = IF rec = None THEN None ELSE Compat(rec, policy)
  /\ chunks' = << >>
  /\ UNCHANGED origin

FileNext == Encode \/ EncodeFails \/ \E p \in Policies : Decode(p)

FileSpec == InitFile /\ [][FileNext]_fileVars

-----------------------------------------------------------------------------

\* A file of version 1 whose symbols have another length than the decoder takes them for.
OtherLength(m) ==
  /\ EncodedVersion(m) = 1 /\ m.symbol_cstr_len # kSymbolCstrLenV1
  /\ Symbols(m) # {}

\* Metadata read from a file is what was written, upgraded as asked, after any number of
\* rounds; unless a file of version 1 was written with symbols of another length than 22.
MetadataReadsBack ==
  (meta # None /\ origin.meta.version <= kDbnVersion) =>
    \/ OtherLength(origin.meta)
    \/ /\ meta # Garbled
       /\ [meta EXCEPT !.version = 0, !.symbol_cstr_len = 0]
            = [origin.meta EXCEPT !.version = 0, !.symbol_cstr_len = 0]
       /\ origin.meta.version <= meta.version /\ meta.version <= kDbnVersion
       /\ meta.symbol_cstr_len \in {origin.meta.symbol_cstr_len,
                                    IF meta.version = 1 THEN kSymbolCstrLenV1 ELSE kSymbolCstrLen}

\* Along every chain of upgrades a record keeps the fields its new version still has, the
\* marker of an undefined quantity stays one, a heartbeat stays a heartbeat, the length
\* in the header is that of the new layout with its timestamp and fits the compat
\* buffer, and upgrading in two steps gives what one step gives.
Kept(old, new) ==
  \A f \in DOMAIN old \cap DOMAIN new :
    \/ f \in {"_reserved", "_dummy"}
    \/ new[f] = old[f]
    \/ f = "quantity" /\ old[f] = kUndefQuantity32 /\ new[f] = kUndefQuantity64
UpgradesKeepRecords ==
  rec # None =>
    LET r0 == origin.rec
    IN  /\ Kept(r0.f, rec.f)
        /\ rec.version = 3 /\ rec.rtype = "Statistics" => rec.f.quantity # kUndefQuantity32
        /\ rec.rtype = "System" => IsHeartbeat(rec.f) = IsHeartbeat(r0.f)
        /\ rec.words * kLengthMultiplier
             = SizeOfStruct[rec.rtype][rec.version] + (IF rec.ts_out THEN 8 ELSE 0)
        /\ rec.words * kLengthMultiplier <= kMaxRecordLen
        /\ rec.version = 3 => rec = Compat(r0, "UpgradeToV3")
==============================================================================
