------------------------------- MODULE MCCodec -------------------------------
(***************************************************************************)
(* Codec on every enumerator, publisher and schema; on metadata of every   *)
(* version and symbol length with lists of no, one and several symbols, at *)
(* and beyond the longest that fits; on a buffer of three bytes that may   *)
(* grow to five; on streams of up to four calls; and on one or two         *)
(* mappings with intervals that follow each other, overlap, are empty, the *)
(* wrong way round or of the old symbology format.                         *)
(***************************************************************************)
EXTENDS Codec

Str(t, n) == [text |-> t, size |-> n]
Date(y, m, d) == [year |-> y, month |-> m, day |-> d]
Interval(s, e, sym) == [start_date |-> s, end_date |-> e, symbol |-> sym]

ES == Str("ES", 2)
Long21 == Str("of21", 21)
Long22 == Str("of22", 22)
Id == Str("5482", 4)

Mapping == [raw_symbol |-> ES,
            intervals |-> <<Interval(Date(2023, 12, 31), Date(2024, 1, 1), Id),
                            Interval(Date(2024, 1, 1), Date(2024, 10, 20), Long21)>>]
Unmapped == [raw_symbol |-> Long21, intervals |-> << >>]

Lists ==
  {[symbols |-> << >>, partial |-> << >>, not_found |-> << >>, mappings |-> << >>],
   [symbols |-> <<ES, Long21>>, partial |-> <<Long21>>, not_found |-> << >>,
    mappings |-> <<Mapping>>],
   [symbols |-> <<ES>>, partial |-> << >>, not_found |-> <<ES, Id, Long21>>,
    mappings |-> <<Unmapped, Mapping>>],
   [symbols |-> <<Long22>>, partial |-> << >>, not_found |-> << >>, mappings |-> << >>]}

MCMetadatas ==
  {[version |-> v, dataset |-> d, schema |-> s, start |-> "t0", end |-> "t1", limit |-> "n",
    stype_in |-> i, stype_out |-> "InstrumentId", ts_out |-> ts, symbol_cstr_len |-> len,
    symbols |-> l.symbols, partial |-> l.partial, not_found |-> l.not_found,
    mappings |-> l.mappings] :
     v \in 0..4, d \in {Str("GLBX.MDP3", 9)}, s \in {"nullopt", "Mbo", "Tcbbo"},
     i \in {"nullopt", "RawSymbol"}, ts \in BOOLEAN, len \in {22, 71}, l \in Lists}
  \cup
  {[version |-> 2, dataset |-> Str("of16", 16), schema |-> "Mbo", start |-> "t0",
    end |-> "t1", limit |-> "n", stype_in |-> "RawSymbol", stype_out |-> "InstrumentId",
    ts_out |-> FALSE, symbol_cstr_len |-> 71, symbols |-> << >>, partial |-> << >>,
    not_found |-> << >>, mappings |-> << >>]}

Text(s, e, t) == [starts |-> s, ends |-> e, terminated |-> t]
MCTexts ==
  {Text("Heartbeat", "nothing", TRUE), Text("Heartbeat", "nothing", FALSE),
   Text("nothing", "nothing", TRUE), Text("Finished ", " replay", TRUE),
   Text("Finished ", "nothing", TRUE), Text("Internal error", "nothing", TRUE),
   Text("Slow client detected for ", "nothing", FALSE)}

Dense(i) == [id |-> i, cost |-> 1]
Sparse(i) == [id |-> i, cost |-> 0]
MCWrites ==
  {<<Dense(1)>>, <<Sparse(2), Dense(3)>>,
   <<Dense(4), Dense(5), Dense(6), Sparse(7), Sparse(8), Sparse(9)>>}

Days(s, e, sym) == Interval(s, e, sym)
Maps(raw, intervals) == [raw_symbol |-> raw, intervals |-> intervals]
MCMappings ==
  {Maps("ES", <<Days(0, 2, "101"), Days(2, 3, "102")>>),
   Maps("ES", <<Days(0, 2, "101"), Days(1, 3, "102")>>),
   Maps("NQ", <<Days(0, 1, ""), Days(1, 3, "101")>>),
   Maps("NQ", <<Days(1, 1, "102"), Days(2, 1, "101")>>),
   Maps("101", <<Days(0, 2, "ES"), Days(2, 3, "")>>),
   Maps("4294967397", <<Days(1, 3, "NQ")>>),
   Maps("102", << >>)}
MCMapped ==
  {[stype_in |-> s[1], stype_out |-> s[2], start |-> 1, end |-> e, mappings |-> m] :
     s \in {<<"RawSymbol", "InstrumentId">>, <<"InstrumentId", "RawSymbol">>,
            <<"nullopt", "InstrumentId">>, <<"Continuous", "RawSymbol">>},
     e \in {4, 5},
     m \in {<< >>} \cup {<<x>> : x \in MCMappings}
          \cup {<<x[1], x[2]>> : x \in {y \in MCMappings \X MCMappings :
                                       y[1].raw_symbol # y[2].raw_symbol}}}
MCNumbers == "101" :> 101 @@ "102" :> 102 @@ "4294967397" :> 101
MCFormats == {<<1, TRUE>>, <<2, FALSE>>}
==============================================================================
