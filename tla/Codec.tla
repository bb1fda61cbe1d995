-------------------------------- MODULE Codec --------------------------------
(***************************************************************************)
(* What the library writes it reads back: enumerators through their text,  *)
(* files of metadata and records through DbnEncoder and DbnDecoder and     *)
(* through every chain of upgrades, bytes through Buffer and through       *)
(* ZstdCompressStream; and the symbol maps that the metadata describes     *)
(* agree.                                                                  *)
(***************************************************************************)
EXTENDS Publishers, Enums, Records, Files, ZstdCompress, SymbolMaps, Buffer

VARIABLES
  job,         \* what is converted: "text", "publisher", "schema", "file", "buffer",
               \* "stream", "symbols"
  item         \* of a text job: [enum, value, text, parsed]; of a publisher or schema, its name

jobVars == <<bufVars, zcVars, smVars>>
vars == <<job, item, fileVars, jobVars>>

-----------------------------------------------------------------------------
(* Enumerators and their text.                                             *)

Printed ==
  [Venue |-> VenueToString, Dataset |-> DatasetToString, Publisher |-> PublisherToString,
   FeedMode |-> FeedModeToString, SplitDuration |-> SplitDurationToString,
   Delivery |-> DeliveryToString, JobState |-> JobStateToString,
   DatasetCondition |-> DatasetConditionToString, RType |-> RTypeToString,
   SType |-> STypeToString, Schema |-> SchemaToString, Encoding |-> EncodingToString,
   Compression |-> CompressionToString, ErrorCode |-> ErrorCodeToString,
   SystemCode |-> SystemCodeToString]
Tests ==
  [Venue |-> VenueFromString, Dataset |-> DatasetFromString, Publisher |-> PublisherFromString,
   FeedMode |-> FeedModeFromString, SplitDuration |-> SplitDurationFromString,
   Delivery |-> DeliveryFromString, JobState |-> JobStateFromString,
   DatasetCondition |-> DatasetConditionFromString, RType |-> RTypeFromString,
   SType |-> STypeFromString, Schema |-> SchemaFromString, Encoding |-> EncodingFromString,
   Compression |-> CompressionFromString, ErrorCode |-> ErrorCodeFromString,
   SystemCode |-> SystemCodeFromString]
Values ==
  [FeedMode |-> FeedModeValue, SplitDuration |-> SplitDurationValue,
   Delivery |-> DeliveryValue, JobState |-> JobStateValue,
   DatasetCondition |-> DatasetConditionValue, RType |-> RTypeValue, SType |-> STypeValue,
   Schema |-> SchemaValue, Encoding |-> EncodingValue, Compression |-> CompressionValue,
   ErrorCode |-> ErrorCodeValue, SystemCode |-> SystemCodeValue]

Enumerators(enum) ==
  CASE enum = "Venue" -> ToSet(VenueByValue)
    [] enum = "Dataset" -> ToSet(DatasetByValue)
    [] enum = "Publisher" -> ToSet(PublisherByValue)
    [] OTHER -> DOMAIN Values[enum]

\* ToString: the default of the switch is "Unknown".
TextOf(enum, value) ==
  IF value \in DOMAIN Printed[enum] THEN Printed[enum][value] ELSE "Unknown"

\* FromString: the first test that matches, else an exception.
FromString(enum, text) ==
  LET tests == Tests[enum]
      matches == {i \in 1..Len(tests) : tests[i][1] = text}
  IN  IF matches = {} THEN "throws"
      ELSE tests[CHOOSE i \in matches : \A j \in matches : i <= j][2]

PrintText ==
  /\ job = "text" /\ item.text = None
  /\ item' = [item EXCEPT !.text = TextOf(item.enum, item.value)]
  /\ UNCHANGED <<job, fileVars, jobVars>>

Parse ==
  /\ job = "text" /\ item.text # None /\ item.parsed = None
  /\ item' = [item EXCEPT !.parsed = FromString(item.enum, item.text)]
  /\ UNCHANGED <<job, fileVars, jobVars>>

-----------------------------------------------------------------------------

NoItem == item = None

Init ==
  /\ BufInit /\ ZcInit
  /\ \/ /\ job = "text" /\ NoFile /\ SmNone
        /\ \E e \in DOMAIN Printed : \E v \in Enumerators(e) :
             item = [enum |-> e, value |-> v, text |-> None, parsed |-> None]
     \/ job = "publisher" /\ item \in Enumerators("Publisher") /\ NoFile /\ SmNone
     \/ job = "schema" /\ item \in Enumerators("Schema") /\ NoFile /\ SmNone
     \/ job = "file" /\ NoItem /\ InitFile /\ SmNone
     \/ job \in {"buffer", "stream"} /\ NoItem /\ NoFile /\ SmNone
     \/ job = "symbols" /\ NoItem /\ NoFile /\ SmInit

File == job = "file" /\ FileNext /\ UNCHANGED <<job, item, jobVars>>
Buffered == job = "buffer" /\ BufNext /\ UNCHANGED <<job, item, fileVars, zcVars, smVars>>
Stream == job = "stream" /\ ZcNext /\ UNCHANGED <<job, item, fileVars, bufVars, smVars>>
Symbology == job = "symbols" /\ SmNext /\ UNCHANGED <<job, item, fileVars, bufVars, zcVars>>

\* The jobs that are done, or of which there is only the table.
Done ==
  /\ \/ job \in {"publisher", "schema"}
     \/ job = "text" /\ item.parsed # None
     \/ job = "file" /\ meta \in {None, Garbled} /\ chunks = << >>
     \/ job = "stream" /\ flushing = "gone"
     \/ job = "symbols" /\ date # NoDate
  /\ UNCHANGED vars

Next ==
  \/ PrintText \/ Parse
  \/ File \/ Buffered \/ Stream \/ Symbology
  \/ Done

Spec == Init /\ [][Next]_vars

-----------------------------------------------------------------------------

\* Two enumerators have no text of their own.
Unprintable == {<<"SType", "Smart">>, <<"RType", "OhlcvDeprecated">>}
TextReadsBack ==
  (job = "text" /\ item.parsed # None) =>
    IF <<item.enum, item.value>> \in Unprintable THEN item.parsed = "throws"
                                                 ELSE item.parsed = item.value

PublisherIsDatasetAndVenue ==
  job = "publisher" =>
    PublisherToString[item] = DatasetToString[PublisherDataset[item]] \o "."
                              \o VenueToString[PublisherVenue[item]]

\* The schemas RTypeFromSchema throws for, and those SizeOfSchema throws for.
WithoutRType == {"Tcbbo"}
WithoutSize ==
  {"OhlcvEod", "Status", "Bbo1S", "Bbo1M", "Cmbp1", "Cbbo1S", "Cbbo1M", "Tcbbo"}
SchemaTablesAgree ==
  job = "schema" =>
    /\ item \in DOMAIN RecordOfSchema
    /\ item \in DOMAIN RTypeFromSchema <=> item \notin WithoutRType
    /\ item \in DOMAIN SizeOfSchema <=> item \notin WithoutSize
    /\ item \notin WithoutRType =>
         RTypeFromSchema[item] \in Structs[RecordOfSchema[item]].rtypes
    /\ item \notin WithoutSize =>
         Structs[SizeOfSchema[item]].size = Structs[RecordOfSchema[item]].size

\* The tables of enums.cpp, publishers.cpp and record.cpp agree.  Every enumerator is read
\* back from the text it is printed as; the text of a publisher is that of its dataset, a
\* dot and that of its venue; the rtype of a schema is one that the struct its comment
\* names accepts, and its size the struct's.  RTypeFromSchema throws for the schema of
\* WithoutRType and no other, SizeOfSchema for the eight of WithoutSize.
TablesAgree == TextReadsBack /\ PublisherIsDatasetAndVenue /\ SchemaTablesAgree
==============================================================================
