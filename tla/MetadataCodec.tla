---------------------------- MODULE MetadataCodec ----------------------------
(***************************************************************************)
(* DbnEncoder::EncodeMetadata and the decoding of what it wrote.           *)
(*                                                                         *)
(* What is written is a sequence of chunks [val, len], one per value, with *)
(* its length in bytes.  The decoder asks for a value by its length; where *)
(* the next chunk has another length it reads Garbled, which stands for a  *)
(* wrong value or an exception.  A string is [text, size].                 *)
(***************************************************************************)
EXTENDS Enums, Versions, Sequences, SequencesExt, FiniteSets

CONSTANT Garbled    \* what a misplaced read gives, a value of no field

kMetadataPreludeSize == 8
kFixedMetadataLen == 100
kDatasetCstrLen == 16
kMetadataReservedLen == 53
kMetadataReservedLenV1 == 47
kNullSchema == 65535
kNullSType == 255
kNullRecordCount == "UINT64_MAX"
kSymbolCstrLenV1 == 22
kSymbolCstrLen == 71
Nullopt == "nullopt"

Chunk(val, len) == [val |-> val, len |-> len]
Total(s) ==
  LET upTo[n \in 0..Len(s)] == IF n = 0 THEN 0 ELSE upTo[n - 1] + s[n] IN upTo[Len(s)]
Lengths(chunks) == Total([i \in 1..Len(chunks) |-> chunks[i].len])
Zeros == << >>    \* reserved bytes and padding

(* The fields of Metadata.                                                 *)
FixedString == [text : STRING, size : Nat]
CalendarDate == [year : Nat, month : 1..12, day : 1..31]
DatedInterval == [start_date : CalendarDate, end_date : CalendarDate, symbol : FixedString]
DatedMapping == [raw_symbol : FixedString, intervals : Seq(DatedInterval)]
Metadata ==
  [version : Nat, dataset : FixedString, schema : DOMAIN SchemaValue \cup {Nullopt},
   start : STRING, end : STRING, limit : STRING,
   stype_in : DOMAIN STypeValue \cup {Nullopt}, stype_out : DOMAIN STypeValue,
   ts_out : BOOLEAN, symbol_cstr_len : Nat, symbols : Seq(FixedString),
   partial : Seq(FixedString), not_found : Seq(FixedString), mappings : Seq(DatedMapping)]

-----------------------------------------------------------------------------
(* Encoding.                                                               *)

EncodeDate(d) == d.year * 10000 + d.month * 100 + d.day
DecodeIso8601Date(n) ==
  [year |-> n \div 10000, month |-> (n % 10000) \div 100, day |-> (n % 10000) % 100]

EncodeRepeatedSymbolCStr(len, symbols) ==
  <<Chunk(Len(symbols), 4)>> \o [i \in 1..Len(symbols) |-> Chunk(symbols[i], len)]

EncodeInterval(len, interval) ==
  <<Chunk(EncodeDate(interval.start_date), 4), Chunk(EncodeDate(interval.end_date), 4),
    Chunk(interval.symbol, len)>>
EncodeSymbolMapping(len, m) ==
  <<Chunk(m.raw_symbol, len), Chunk(Len(m.intervals), 4)>>
  \o FlattenSeq([i \in 1..Len(m.intervals) |-> EncodeInterval(len, m.intervals[i])])
EncodeSymbolMappings(len, mappings) ==
  <<Chunk(Len(mappings), 4)>>
  \o FlattenSeq([i \in 1..Len(mappings) |-> EncodeSymbolMapping(len, mappings[i])])

\* Mutant: the count of the intervals is forgotten.
CalcLengthNoCount(m) ==
  LET len == m.symbol_cstr_len
      needed == kFixedMetadataLen + 5 * 4
                + (Len(m.symbols) + Len(m.partial) + Len(m.not_found)) * len
                + Total([i \in 1..Len(m.mappings) |->
                           len + Len(m.mappings[i].intervals) * (2 * 4 + len)])
  IN  [length |-> needed, end_padding |-> 0]

\* CalcLength: the length behind the prelude, and the padding of version 3 in it.
CalcLength(m) ==
  LET len == m.symbol_cstr_len
      needed == kFixedMetadataLen + 5 * 4
                + (Len(m.symbols) + Len(m.partial) + Len(m.not_found)) * len
                + Total([i \in 1..Len(m.mappings) |->
                           len + 4 + Len(m.mappings[i].intervals) * (2 * 4 + len)])
      padding == IF m.version < 3 \/ needed % 8 = 0 THEN 0 ELSE 8 - (needed % 8)
  IN  [length |-> needed + padding, end_padding |-> padding]

EncodedVersion(m) == IF m.version = 0 THEN 1 ELSE m.version
EncodeOptional(x, value, null) == IF x = Nullopt THEN null ELSE value[x]

EncodeFixedFields(m) ==
  LET version == EncodedVersion(m)
  IN  <<Chunk(m.dataset, kDatasetCstrLen),
        Chunk(EncodeOptional(m.schema, SchemaValue, kNullSchema), 2),
        Chunk(m.start, 8), Chunk(m.end, 8), Chunk(m.limit, 8)>>
      \o (IF version = 1 THEN <<Chunk(kNullRecordCount, 8)>> ELSE << >>)
      \o <<Chunk(EncodeOptional(m.stype_in, STypeValue, kNullSType), 1),
           Chunk(STypeValue[m.stype_out], 1), Chunk(m.ts_out, 1)>>
      \o (IF version > 1 THEN <<Chunk(m.symbol_cstr_len, 2)>> ELSE << >>)
      \o <<Chunk(Zeros, IF version = 1 THEN kMetadataReservedLenV1 ELSE kMetadataReservedLen),
           Chunk(0, 4)>>

\* EncodeMetadata, when no string is too long for its place.
EncodeMetadata(m) ==
  LET len == m.symbol_cstr_len
      calc == CalcLength(m)
  IN  <<Chunk("DBN", 3), Chunk(EncodedVersion(m), 1), Chunk(calc.length, 4)>>
      \o EncodeFixedFields(m)
      \o EncodeRepeatedSymbolCStr(len, m.symbols)
      \o EncodeRepeatedSymbolCStr(len, m.partial)
      \o EncodeRepeatedSymbolCStr(len, m.not_found)
      \o EncodeSymbolMappings(len, m.mappings)
      \o (IF calc.end_padding > 0 THEN <<Chunk(Zeros, calc.end_padding)>> ELSE << >>)

\* EncodeMetadata throws: a version from the future, or EncodeFixedLenCStr finds a string
\* that leaves no room for its NUL.
Symbols(m) ==
  ToSet(m.symbols) \cup ToSet(m.partial) \cup ToSet(m.not_found)
  \cup UNION {{x.raw_symbol} \cup {i.symbol : i \in ToSet(x.intervals)} : x \in ToSet(m.mappings)}
EncodeThrows(m) ==
  \/ m.version > kDbnVersion
  \/ m.dataset.size >= kDatasetCstrLen
  \/ \E s \in Symbols(m) : s.size >= m.symbol_cstr_len

-----------------------------------------------------------------------------
(* Decoding.  A result is [val, next]: the value and the next chunk.       *)

ConsumeAs(chunks, i, len) ==
  IF i <= Len(chunks) /\ chunks[i].len = len THEN chunks[i].val ELSE Garbled
Count(chunks, i) ==
  LET n == ConsumeAs(chunks, i, 4) IN IF n = Garbled THEN 0 ELSE n

DecodeRepeatedSymbol(len, chunks, i) ==
  [val  |-> [k \in 1..Count(chunks, i) |-> ConsumeAs(chunks, i + k, len)],
   next |-> i + 1 + Count(chunks, i)]

DecodeInterval(len, chunks, i) ==
  [start_date |-> DecodeIso8601Date(Count(chunks, i)),
   end_date |-> DecodeIso8601Date(Count(chunks, i + 1)),
   symbol |-> ConsumeAs(chunks, i + 2, len)]
DecodeSymbolMapping(len, chunks, i) ==
  LET n == Count(chunks, i + 1)
  IN  [val  |-> [raw_symbol |-> ConsumeAs(chunks, i, len),
                 intervals |-> [k \in 1..n |-> DecodeInterval(len, chunks, i + 3 * k - 1)]],
       next |-> i + 2 + 3 * n]
DecodeSymbolMappings(len, chunks, i) ==
  LET n == Count(chunks, i)
      next[k \in 0..n] == IF k = 0 THEN i + 1
                          ELSE DecodeSymbolMapping(len, chunks, next[k - 1]).next
  IN  [val  |-> [k \in 1..n |-> DecodeSymbolMapping(len, chunks, next[k - 1]).val],
       next |-> next[n]]

DecodeEnum(n, value, null) ==
  IF n = null THEN Nullopt
  ELSE IF \E x \in DOMAIN value : value[x] = n THEN CHOOSE x \in DOMAIN value : value[x] = n
  ELSE Garbled

\* DecodeMetadataVersionAndSize and DecodeMetadataFields over chunks of which the first
\* three are the prelude.  Version 1 has a record count and no symbol_cstr_len.
DecodeMetadata(chunks) ==
  LET version == ConsumeAs(chunks, 2, 1)
      skip == IF version = 1 THEN 1 ELSE 0      \* the record count
      At(k) == 8 + skip + k
      len == IF version > 1 THEN ConsumeAs(chunks, At(4), 2) ELSE kSymbolCstrLenV1
      var == IF version > 1 THEN At(7) ELSE At(6)
      symbols == DecodeRepeatedSymbol(len, chunks, var)
      partial == DecodeRepeatedSymbol(len, chunks, symbols.next)
      not_found == DecodeRepeatedSymbol(len, chunks, partial.next)
      mappings == DecodeSymbolMappings(len, chunks, not_found.next)
  IN  [version |-> version,
       dataset |-> ConsumeAs(chunks, 4, kDatasetCstrLen),
       schema |-> DecodeEnum(ConsumeAs(chunks, 5, 2), SchemaValue, kNullSchema),
       start |-> ConsumeAs(chunks, 6, 8), end |-> ConsumeAs(chunks, 7, 8),
       limit |-> ConsumeAs(chunks, 8, 8),
       stype_in |-> DecodeEnum(ConsumeAs(chunks, At(1), 1), STypeValue, kNullSType),
       stype_out |-> DecodeEnum(ConsumeAs(chunks, At(2), 1), STypeValue, Garbled),
       ts_out |-> ConsumeAs(chunks, At(3), 1),
       symbol_cstr_len |-> len,
       symbols |-> symbols.val, partial |-> partial.val, not_found |-> not_found.val,
       mappings |-> mappings.val]

\* The fixed fields end where the decoder looks for the symbols, and the length of the
\* prelude is that of what follows it: the records start where the reader looks for them.
FixedFieldsFit(chunks) ==
  /\ ConsumeAs(chunks, 13, IF chunks[2].val = 1 THEN kMetadataReservedLenV1
                                              ELSE kMetadataReservedLen) = Zeros
  /\ ConsumeAs(chunks, 14, 4) = 0
  /\ Lengths(SubSeq(chunks, 4, 13)) = kFixedMetadataLen
  /\ chunks[3].val = Lengths(SubSeq(chunks, 4, Len(chunks)))

\* No field was read at a wrong place.
Readable(m) == Garbled \notin Symbols(m) /\ \A f \in DOMAIN m : m[f] # Garbled

\* Metadata::Upgrade.
UpgradeMetadata(m, policy) ==
  IF MetadataUpgrade(m.version, policy) # m.version
    THEN [m EXCEPT !.version = MetadataUpgrade(m.version, policy),
                   !.symbol_cstr_len = kSymbolCstrLen]
    ELSE m
==============================================================================
