------------------------------ MODULE SymbolMaps ------------------------------
(***************************************************************************)
(* TsSymbolMap and PitSymbolMap built from the mappings of metadata, the   *)
(* TsSymbolMap of a SymbologyResolution, and the updates of a PitSymbolMap *)
(* by the symbol mapping records of a live session.                        *)
(*                                                                         *)
(* Dates are day numbers, times are numbers of half days.  A map is a      *)
(* function; a result is [map, throws].                                    *)
(***************************************************************************)
EXTENDS Records, Integers

CONSTANTS
  Mapped,      \* metadata: [stype_in, stype_out, start, end, mappings]
  Dates,       \* dates an application may ask for
  Numbers,     \* std::stoul and the cast to 32 bits, of the texts that start with a number
  Ids, Names,  \* of the symbol mapping records of a live session
  Formats      \* and their <<version, ts_out>>

MappingInterval == [start_date : Int, end_date : Int, symbol : STRING]
SymbolMapping == [raw_symbol : STRING, intervals : Seq(MappingInterval)]
ASSUME SymbolsAssumption ==
  /\ \A m \in Mapped : m.start \in Int /\ m.end \in Int /\ m.mappings \in Seq(SymbolMapping)
  /\ Dates \subseteq Nat
  /\ \A s \in DOMAIN Numbers : Numbers[s] \in Nat
  /\ \A f \in Formats : f[1] \in {1, 2} /\ f[2] \in BOOLEAN

VARIABLES
  mapped,      \* the metadata
  pit,         \* a PitSymbolMap
  date,        \* its date, or NoDate before it is created
  heard,       \* history: the symbol last announced for an instrument
  asked        \* history: the instruments looked up with operator[]

smVars == <<mapped, pit, date, heard, asked>>

Empty == [k \in {} |-> ""]
NoDate == -1
Result(map) == [map |-> map, throws |-> FALSE]
Thrown == [map |-> Empty, throws |-> TRUE]

\* Runs Step over s from res until it throws.
Throwing(Step(_, _), res, s) ==
  LET run[n \in 0..Len(s)] ==
        IF n = 0 THEN res
        ELSE IF run[n - 1].throws THEN run[n - 1] ELSE Step(run[n - 1].map, s[n])
  IN  run[Len(s)]

\* The map with more emplaced: what is there stays.
Emplaced(map, more) ==
  [k \in DOMAIN map \cup DOMAIN more |-> IF k \in DOMAIN map THEN map[k] ELSE more[k]]

IsInverse(m) ==
  IF m.stype_in = "InstrumentId" THEN "inverse"
  ELSE IF m.stype_in # "nullopt" /\ m.stype_out = "InstrumentId" THEN "direct" ELSE "throws"

\* Which of the symbols of a mapping and of its interval is the number, and which the name.
NumberOf(x, i, inverse) == IF inverse THEN x.raw_symbol ELSE i.symbol
NameOf(x, i, inverse) == IF inverse THEN i.symbol ELSE x.raw_symbol

\* TsSymbolMap::Insert.
Insert(map, id, interval, symbol) ==
  IF interval.start_date > interval.end_date THEN Thrown
  ELSE Result(Emplaced(map,
                [k \in (interval.start_date .. (interval.end_date - 1)) \X {id} |-> symbol]))

\* The loops over the mappings and their intervals, which TsSymbolMap and CreateSymbolMap
\* share but for what they do with empty symbols.
InsertInterval(map, x, i, inverse, skipEmpty) ==
  IF skipEmpty /\ i.symbol = "" THEN Result(map)
  ELSE IF NumberOf(x, i, inverse) \notin DOMAIN Numbers THEN Thrown
  ELSE Insert(map, Numbers[NumberOf(x, i, inverse)], i, NameOf(x, i, inverse))
InsertMapping(map, x, inverse, skipEmpty) ==
  IF inverse /\ x.raw_symbol \notin DOMAIN Numbers THEN Thrown
  ELSE Throwing(LAMBDA r, i : InsertInterval(r, x, i, inverse, skipEmpty), Result(map), x.intervals)
InsertMappings(mappings, inverse, skipEmpty) ==
  Throwing(LAMBDA r, x : InsertMapping(r, x, inverse, skipEmpty), Result(Empty), mappings)

TsSymbolMap(m) ==
  IF IsInverse(m) = "throws" THEN Thrown
  ELSE InsertMappings(m.mappings, IsInverse(m) = "inverse", TRUE)

\* SymbologyResolution::CreateSymbolMap: the mappings are in an unordered_map, so they come
\* in any order.
Orders(n) == {p \in [1..n -> 1..n] : \A i, j \in 1..n : p[i] = p[j] => i = j}
CreateSymbolMap(m) ==
  {InsertMappings([i \in 1..Len(m.mappings) |-> m.mappings[p[i]]],
                  m.stype_in = "InstrumentId", FALSE) : p \in Orders(Len(m.mappings))}

\* The intervals that cover the day; std::find_if finds the first.
IntervalsAt(intervals, d) ==
  {i \in 1..Len(intervals) : d >= intervals[i].start_date /\ d < intervals[i].end_date}

\* Mutant: the end is compared as a date.
InQueryRangeDates(m, d) == d >= m.start \div 2 /\ d < m.end \div 2

InQueryRange(m, d) == d >= m.start \div 2 /\ 2 * d < m.end

FindMapping(map, x, inverse, d) ==
  LET found == IntervalsAt(x.intervals, d)
      first == x.intervals[Min(found)]
  IN  IF found = {} \/ first.symbol = "" THEN Result(map)
      ELSE IF NumberOf(x, first, inverse) \notin DOMAIN Numbers THEN Thrown
      ELSE Result(Emplaced(map, [id \in {Numbers[NumberOf(x, first, inverse)]} |->
                                   NameOf(x, first, inverse)]))
FindMappings(mappings, inverse, d) ==
  Throwing(LAMBDA r, x : FindMapping(r, x, inverse, d), Result(Empty), mappings)
PitSymbolMap(m, d) ==
  IF ~InQueryRange(m, d) \/ IsInverse(m) = "throws" THEN Thrown
  ELSE FindMappings(m.mappings, IsInverse(m) = "inverse", d)

-----------------------------------------------------------------------------

SmNone == mapped = Empty /\ pit = Result(Empty) /\ date = NoDate /\ heard = Empty /\ asked = {}
SmInit == mapped \in Mapped /\ pit = Result(Empty) /\ date = NoDate /\ heard = Empty /\ asked = {}

CreateSymbolMapForDate(d) ==
  /\ date = NoDate
  /\ pit' = PitSymbolMap(mapped, d) /\ date' = d
  /\ UNCHANGED <<mapped, heard, asked>>

\* The struct OnRecord reads a record as, by its size.
MappingVersion(r) ==
  IF r.words * kLengthMultiplier >= SizeOfStruct["SymbolMapping"][2] THEN 2 ELSE 1

\* Read as another struct than it is, a record gives another text.
OnRecord(id, name, format) ==
  LET r == RecordOf("SymbolMapping", format[1], format[2], name)
      symbol == IF MappingVersion(r) = r.version THEN r.f ELSE "garbage"
  IN  /\ date # NoDate /\ ~pit.throws
      /\ pit' = Result(Emplaced([k \in {id} |-> symbol], pit.map))
      /\ heard' = Emplaced([k \in {id} |-> name], heard)
      /\ UNCHANGED <<mapped, date, asked>>

\* operator[], which adds an empty symbol for an instrument it does not know.
Index(id) ==
  /\ date # NoDate /\ ~pit.throws
  /\ pit' = Result(Emplaced(pit.map, [k \in {id} |-> ""])) /\ asked' = asked \cup {id}
  /\ UNCHANGED <<mapped, date, heard>>

SmNext ==
  \/ \E d \in Dates : CreateSymbolMapForDate(d)
  \/ \E id \in Ids, name \in Names, format \in Formats : OnRecord(id, name, format)
  \/ \E id \in Ids : Index(id)

SmSpec == SmInit /\ [][SmNext]_smVars

-----------------------------------------------------------------------------

\* No two intervals of a mapping share a day.
Disjoint(m) ==
  \A x \in ToSet(m.mappings) : \A i, j \in 1..Len(x.intervals) :
    i < j => \/ x.intervals[i].end_date <= x.intervals[j].start_date
             \/ x.intervals[j].end_date <= x.intervals[i].start_date

Slice(map, d) == [id \in {k[2] : k \in {k \in DOMAIN map : k[1] = d}} |-> map[<<d, id>>]]

\* No instrument has two symbols on a day, none has an empty one.
Unambiguous(m) ==
  /\ \A x \in ToSet(m.mappings) : \A i \in ToSet(x.intervals) : i.symbol # ""
  /\ \A a, b \in CreateSymbolMap(m) : a = b
  /\ IsInverse(m) # "throws"

\* The map of a day is the slice of the map over time at that day, for every day of which
\* the query covers a part, when no mapping has two intervals for a day; it stays so but for
\* what the session has announced, of which the last counts, and for the instruments looked
\* up in vain.  The map of the symbology request is the same, when every instrument has one
\* symbol a day.
SymbolMapsAgree ==
  (date # NoDate /\ ~TsSymbolMap(mapped).throws) =>
    /\ (mapped.start < 2 * (date + 1) /\ 2 * date < mapped.end) => ~pit.throws
    /\ (~pit.throws /\ Disjoint(mapped)) =>
         pit.map = Emplaced(Emplaced(heard, Slice(TsSymbolMap(mapped).map, date)),
                            [id \in asked |-> ""])
    /\ Unambiguous(mapped) => CreateSymbolMap(mapped) = {TsSymbolMap(mapped)}
==============================================================================
