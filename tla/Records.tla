------------------------------- MODULE Records -------------------------------
(***************************************************************************)
(* The record structs of record.hpp, v1.hpp and v2.hpp: which RType each   *)
(* accepts, its size, the tables that lead from a schema to its record,    *)
(* and the conversions of v1.cpp and v2.cpp between the versions of a      *)
(* struct.                                                                 *)
(*                                                                         *)
(* A struct is the sequence of its fields in the order of declaration,     *)
(* because the conversions initialise the new struct by position.  In an   *)
(* initialiser "0" is {}; it and every other name that is no field of the  *)
(* old struct stand for themselves.                                        *)
(***************************************************************************)
EXTENDS Versions, Sequences, SequencesExt, FiniteSets, TLC

kMaxRecordLen == 528
kLengthMultiplier == 4
kUndefQuantity32 == "INT32_MAX"
kUndefQuantity64 == "INT64_MAX"

(* The structs that are the record of a schema: the RTypes each accepts    *)
(* (HasRType) and its size.                                                *)
BookStructs ==
  [MboMsg   |-> [rtypes |-> {"Mbo"},   size |-> 56],
   TradeMsg |-> [rtypes |-> {"Mbp0"},  size |-> 48],
   Mbp1Msg  |-> [rtypes |-> {"Mbp1"},  size |-> 80],
   Mbp10Msg |-> [rtypes |-> {"Mbp10"}, size |-> 368]]

BboStructs ==
  [BboMsg   |-> [rtypes |-> {"Bbo1S", "Bbo1M"}, size |-> 80],
   Cmbp1Msg |-> [rtypes |-> {"Cmbp1", "Tcbbo"}, size |-> 80],
   CbboMsg  |-> [rtypes |-> {"Cbbo1S", "Cbbo1M"}, size |-> 80]]
BarStructs ==
  [OhlcvMsg  |-> [rtypes |-> {"Ohlcv1S", "Ohlcv1M", "Ohlcv1H", "Ohlcv1D", "OhlcvEod",
                              "OhlcvDeprecated"}, size |-> 56],
   StatusMsg |-> [rtypes |-> {"Status"}, size |-> 40]]
AuctionStructs == [ImbalanceMsg |-> [rtypes |-> {"Imbalance"}, size |-> 112]]
DefinitionStructs ==
  [InstrumentDefMsg |-> [rtypes |-> {"InstrumentDef"}, size |-> 520],
   StatMsg          |-> [rtypes |-> {"Statistics"}, size |-> 80]]
Structs == BookStructs @@ BboStructs @@ BarStructs @@ AuctionStructs @@ DefinitionStructs

(* "The record of the ... schema": the comments on the structs and aliases. *)
RecordOfSchema ==
  [Mbo |-> "MboMsg", Trades |-> "TradeMsg", Mbp1 |-> "Mbp1Msg", Mbp10 |-> "Mbp10Msg",
   Tbbo |-> "Mbp1Msg", Bbo1S |-> "BboMsg", Bbo1M |-> "BboMsg", Cmbp1 |-> "Cmbp1Msg",
   Tcbbo |-> "Cmbp1Msg", Cbbo1S |-> "CbboMsg", Cbbo1M |-> "CbboMsg",
   Ohlcv1S |-> "OhlcvMsg", Ohlcv1M |-> "OhlcvMsg", Ohlcv1H |-> "OhlcvMsg",
   Ohlcv1D |-> "OhlcvMsg", OhlcvEod |-> "OhlcvMsg", Status |-> "StatusMsg",
   Definition |-> "InstrumentDefMsg", Imbalance |-> "ImbalanceMsg",
   Statistics |-> "StatMsg"]

\* Mutant: the row of Imbalance is missing.
SizeOfSchemaShort ==
  [Mbo |-> "MboMsg", Mbp1 |-> "Mbp1Msg", Mbp10 |-> "Mbp10Msg", Trades |-> "TradeMsg",
   Tbbo |-> "Mbp1Msg", Ohlcv1S |-> "OhlcvMsg", Ohlcv1M |-> "OhlcvMsg",
   Ohlcv1H |-> "OhlcvMsg", Ohlcv1D |-> "OhlcvMsg", Definition |-> "InstrumentDefMsg",
   Statistics |-> "StatMsg"]

(* Record::SizeOfSchema by struct; it throws for every other schema.       *)
SizeOfSchema ==
  [Mbo |-> "MboMsg", Mbp1 |-> "Mbp1Msg", Mbp10 |-> "Mbp10Msg", Trades |-> "TradeMsg",
   Tbbo |-> "Mbp1Msg", Ohlcv1S |-> "OhlcvMsg", Ohlcv1M |-> "OhlcvMsg",
   Ohlcv1H |-> "OhlcvMsg", Ohlcv1D |-> "OhlcvMsg", Definition |-> "InstrumentDefMsg",
   Statistics |-> "StatMsg", Imbalance |-> "ImbalanceMsg"]

(* Record::RTypeFromSchema; it throws for every other schema.              *)
RTypeFromSchema ==
  [Mbo |-> "Mbo", Mbp1 |-> "Mbp1", Mbp10 |-> "Mbp10", Trades |-> "Mbp0", Tbbo |-> "Mbp1",
   Ohlcv1S |-> "Ohlcv1S", Ohlcv1M |-> "Ohlcv1M", Ohlcv1H |-> "Ohlcv1H",
   Ohlcv1D |-> "Ohlcv1D", OhlcvEod |-> "OhlcvEod", Definition |-> "InstrumentDef",
   Statistics |-> "Statistics", Status |-> "Status", Imbalance |-> "Imbalance",
   Cmbp1 |-> "Cmbp1", Cbbo1S |-> "Cbbo1S", Cbbo1M |-> "Cbbo1M", Bbo1S |-> "Bbo1S",
   Bbo1M |-> "Bbo1M"]

-----------------------------------------------------------------------------
(* The structs that changed with a version, by the version of their layout. *)

InstrumentDefV1 ==
  <<
    "hd", "ts_recv", "min_price_increment", "display_factor", "expiration", "activation",
    "high_limit_price", "low_limit_price", "max_price_variation", "trading_reference_price",
    "unit_of_measure_qty", "min_price_increment_amount", "price_ratio", "inst_attrib_value",
    "underlying_id", "raw_instrument_id", "market_depth_implied", "market_depth",
    "market_segment_id", "max_trade_vol", "min_lot_size", "min_lot_size_block",
    "min_lot_size_round_lot", "min_trade_vol", "_reserved2", "contract_multiplier",
    "decay_quantity", "original_contract_size", "_reserved3", "trading_reference_date",
    "appl_id", "maturity_year", "decay_start_date", "channel_id", "currency",
    "settl_currency", "secsubtype", "raw_symbol", "group", "exchange", "asset", "cfi",
    "security_type", "unit_of_measure", "underlying", "strike_price_currency",
    "instrument_class", "_reserved4", "strike_price", "_reserved5", "match_algorithm",
    "md_security_trading_status", "main_fraction", "price_display_format",
    "settl_price_type", "sub_fraction", "underlying_product", "security_update_action",
    "maturity_month", "maturity_day", "maturity_week", "user_defined_instrument",
    "contract_multiplier_unit", "flow_schedule_type", "tick_rule", "_dummy"
  >>
InstrumentDefV2 ==
  <<
    "hd", "ts_recv", "min_price_increment", "display_factor", "expiration", "activation",
    "high_limit_price", "low_limit_price", "max_price_variation", "trading_reference_price",
    "unit_of_measure_qty", "min_price_increment_amount", "price_ratio", "strike_price",
    "inst_attrib_value", "underlying_id", "raw_instrument_id", "market_depth_implied",
    "market_depth", "market_segment_id", "max_trade_vol", "min_lot_size",
    "min_lot_size_block", "min_lot_size_round_lot", "min_trade_vol", "contract_multiplier",
    "decay_quantity", "original_contract_size", "trading_reference_date", "appl_id",
    "maturity_year", "decay_start_date", "channel_id", "currency", "settl_currency",
    "secsubtype", "raw_symbol", "group", "exchange", "asset", "cfi", "security_type",
    "unit_of_measure", "underlying", "strike_price_currency", "instrument_class",
    "match_algorithm", "md_security_trading_status", "main_fraction",
    "price_display_format", "settl_price_type", "sub_fraction", "underlying_product",
    "security_update_action", "maturity_month", "maturity_day", "maturity_week",
    "user_defined_instrument", "contract_multiplier_unit", "flow_schedule_type",
    "tick_rule", "_reserved"
  >>
InstrumentDefV3 ==
  <<
    "hd", "ts_recv", "min_price_increment", "display_factor", "expiration", "activation",
    "high_limit_price", "low_limit_price", "max_price_variation", "unit_of_measure_qty",
    "min_price_increment_amount", "price_ratio", "strike_price", "raw_instrument_id",
    "leg_price", "leg_delta", "inst_attrib_value", "underlying_id", "market_depth_implied",
    "market_depth", "market_segment_id", "max_trade_vol", "min_lot_size",
    "min_lot_size_block", "min_lot_size_round_lot", "min_trade_vol", "contract_multiplier",
    "decay_quantity", "original_contract_size", "leg_instrument_id",
    "leg_ratio_price_numerator", "leg_ratio_price_denominator", "leg_ratio_qty_numerator",
    "leg_ratio_qty_denominator", "leg_underlying_id", "appl_id", "maturity_year",
    "decay_start_date", "channel_id", "leg_count", "leg_index", "currency",
    "settl_currency", "secsubtype", "raw_symbol", "group", "exchange", "asset", "cfi",
    "security_type", "unit_of_measure", "underlying", "strike_price_currency",
    "leg_raw_symbol", "instrument_class", "match_algorithm", "main_fraction",
    "price_display_format", "sub_fraction", "underlying_product", "security_update_action",
    "maturity_month", "maturity_day", "maturity_week", "user_defined_instrument",
    "contract_multiplier_unit", "flow_schedule_type", "tick_rule", "leg_instrument_class",
    "leg_side", "_reserved"
  >>
StatV1 ==
  <<
    "hd", "ts_recv", "ts_ref", "price", "quantity", "sequence", "ts_in_delta", "stat_type",
    "channel_id", "update_action", "stat_flags", "_reserved"
  >>
StatV3 ==
  <<
    "hd", "ts_recv", "ts_ref", "price", "quantity", "sequence", "ts_in_delta", "stat_type",
    "channel_id", "update_action", "stat_flags", "_reserved"
  >>
ErrorV1 == <<"hd", "err">>
ErrorV2 == <<"hd", "err", "code", "is_last">>
SymbolMappingV1 ==
  <<
    "hd", "stype_in_symbol", "stype_out_symbol", "_dummy", "start_ts", "end_ts"
  >>
SymbolMappingV2 ==
  <<
    "hd", "stype_in", "stype_in_symbol", "stype_out", "stype_out_symbol", "start_ts",
    "end_ts"
  >>
SystemV1 == <<"hd", "msg">>
SystemV2 == <<"hd", "msg", "code">>

Struct ==
  [InstrumentDef |-> <<InstrumentDefV1, InstrumentDefV2, InstrumentDefV3>>,
   Statistics    |-> <<StatV1, StatV1, StatV3>>,
   Error         |-> <<ErrorV1, ErrorV2, ErrorV2>>,
   SymbolMapping |-> <<SymbolMappingV1, SymbolMappingV2, SymbolMappingV2>>,
   System        |-> <<SystemV1, SystemV2, SystemV2>>]
SizeOfStruct ==
  [InstrumentDef |-> <<360, 400, 520>>, Statistics |-> <<64, 64, 80>>,
   Error |-> <<80, 320, 320>>, SymbolMapping |-> <<80, 176, 176>>,
   System |-> <<80, 320, 320>>]

-----------------------------------------------------------------------------
(* The initialisers of the conversions.                                    *)

InstrumentDefV1ToV2 ==
  <<
    "hd", "ts_recv", "min_price_increment", "display_factor", "expiration", "activation",
    "high_limit_price", "low_limit_price", "max_price_variation",
    "trading_reference_price", "unit_of_measure_qty", "min_price_increment_amount",
    "price_ratio", "strike_price", "inst_attrib_value", "underlying_id",
    "raw_instrument_id", "market_depth_implied", "market_depth", "market_segment_id",
    "max_trade_vol", "min_lot_size", "min_lot_size_block", "min_lot_size_round_lot",
    "min_trade_vol", "contract_multiplier", "decay_quantity", "original_contract_size",
    "trading_reference_date", "appl_id", "maturity_year", "decay_start_date", "channel_id",
    "currency", "settl_currency", "0", "0", "0", "0", "0", "0", "0", "0", "0", "0",
    "instrument_class", "match_algorithm", "md_security_trading_status", "main_fraction",
    "price_display_format", "settl_price_type", "sub_fraction", "underlying_product",
    "security_update_action", "maturity_month", "maturity_day", "maturity_week",
    "user_defined_instrument", "contract_multiplier_unit", "flow_schedule_type",
    "tick_rule", "0"
  >>
InstrumentDefV1ToV3 ==
  <<
    "hd", "ts_recv", "min_price_increment", "display_factor", "expiration", "activation",
    "high_limit_price", "low_limit_price", "max_price_variation", "unit_of_measure_qty",
    "min_price_increment_amount", "price_ratio", "strike_price", "raw_instrument_id",
    "kUndefPrice", "kUndefPrice", "inst_attrib_value", "underlying_id",
    "market_depth_implied", "market_depth", "market_segment_id", "max_trade_vol",
    "min_lot_size", "min_lot_size_block", "min_lot_size_round_lot", "min_trade_vol",
    "contract_multiplier", "decay_quantity", "original_contract_size", "0", "0", "0", "0",
    "0", "0", "appl_id", "maturity_year", "decay_start_date", "channel_id", "0", "0",
    "currency", "settl_currency", "secsubtype", "0", "0", "0", "0", "0", "0", "0", "0",
    "0", "0", "instrument_class", "match_algorithm", "main_fraction",
    "price_display_format", "sub_fraction", "underlying_product", "security_update_action",
    "maturity_month", "maturity_day", "maturity_week", "user_defined_instrument",
    "contract_multiplier_unit", "flow_schedule_type", "tick_rule", "0", "Side::None", "0"
  >>
InstrumentDefV2ToV3 ==
  <<
    "hd", "ts_recv", "min_price_increment", "display_factor", "expiration", "activation",
    "high_limit_price", "low_limit_price", "max_price_variation", "unit_of_measure_qty",
    "min_price_increment_amount", "price_ratio", "strike_price", "raw_instrument_id",
    "kUndefPrice", "kUndefPrice", "inst_attrib_value", "underlying_id",
    "market_depth_implied", "market_depth", "market_segment_id", "max_trade_vol",
    "min_lot_size", "min_lot_size_block", "min_lot_size_round_lot", "min_trade_vol",
    "contract_multiplier", "decay_quantity", "original_contract_size", "0", "0", "0", "0",
    "0", "0", "appl_id", "maturity_year", "decay_start_date", "channel_id", "0", "0",
    "currency", "settl_currency", "secsubtype", "0", "0", "0", "0", "0", "0", "0", "0",
    "0", "0", "instrument_class", "match_algorithm", "main_fraction",
    "price_display_format", "sub_fraction", "underlying_product", "security_update_action",
    "maturity_month", "maturity_day", "maturity_week", "user_defined_instrument",
    "contract_multiplier_unit", "flow_schedule_type", "tick_rule", "0", "Side::None", "0"
  >>

\* What std::copy carries over behind the initialiser: strings that differ in length.
CopiedToV2 ==
  {"currency", "settl_currency", "secsubtype", "raw_symbol", "group", "exchange", "asset",
   "cfi", "security_type", "unit_of_measure", "underlying", "strike_price_currency"}
CopiedToV3 == CopiedToV2 \ {"currency", "settl_currency", "secsubtype"}

StatV1ToV3 ==
  <<"hd", "ts_recv", "ts_ref", "price", "quantity", "sequence", "ts_in_delta", "stat_type",
    "channel_id", "update_action", "stat_flags", "0">>
SymbolMappingV1ToV2 == <<"hd", "UINT8_MAX", "0", "UINT8_MAX", "0", "start_ts", "end_ts">>

\* A struct with the given fields, initialised by position; copied fields follow.
FromInitialiser(fields, init, copied, old) ==
  [f \in ToSet(fields) |->
     IF f \in copied THEN old[f]
     ELSE LET x == init[CHOOSE i \in 1..Len(fields) : fields[i] = f]
          IN  IF x \in DOMAIN old THEN old[x] ELSE x]

-----------------------------------------------------------------------------
(* Messages.  A text is [starts, ends, terminated]: the phrases it starts  *)
(* and ends with that the code looks for, or "nothing", and whether a NUL  *)
(* follows it inside the array of version 1.                               *)

\* The code that v1::ErrorMsg::ToV2 reads out of the text.
ErrorCodeOf(text) ==
  IF ~text.terminated THEN "Unset"
  ELSE CASE text.starts = "User or API key deactivated" /\ text.ends = "nothing"
              -> "ApiKeyDeactivated"
         [] text.starts = "User has reached their open connection limit" /\ text.ends = "nothing"
              -> "ConnectionLimitExceeded"
         [] text.starts = "Failed to resolve symbol" -> "SymbolResolutionFailed"
         [] text.starts = "Internal error" /\ text.ends = "nothing" -> "InternalError"
         [] text.starts = "Slow client detected for " -> "SkippedRecordsAfterSlowReading"
         [] OTHER -> "Unset"

\* The code that v1::SystemMsg::ToV2 reads out of the text.
SystemCodeOf(text) ==
  IF ~text.terminated THEN "Unset"
  ELSE CASE text.starts = "Heartbeat" -> "Heartbeat"
         [] text.starts = "End of interval for " -> "EndOfInterval"
         [] text.starts = "Subscription request " /\ text.ends = " succeeded" -> "SubscriptionAck"
         [] text.starts = "Warning: slow reading" -> "SlowReaderWarning"
         [] text.starts = "Finished " /\ text.ends = " replay" -> "ReplayCompleted"
         [] OTHER -> "Unset"

\* SystemMsg::IsHeartbeat: by the code, by the text in version 1 or without a code.
IsHeartbeat(f) ==
  IF "code" \in DOMAIN f /\ f.code # "Unset" THEN f.code = "Heartbeat"
                                             ELSE f.msg.starts = "Heartbeat"

-----------------------------------------------------------------------------
(* A record: [rtype, version, words, ts_out, f], with words the length in  *)
(* its header, ts_out whether a timestamp follows it and f its fields.     *)

InstrumentDefUpgrade(f, from, to) ==
  CASE from = 1 /\ to = 2 -> FromInitialiser(InstrumentDefV2, InstrumentDefV1ToV2, CopiedToV2, f)
    [] from = 1 /\ to = 3 -> FromInitialiser(InstrumentDefV3, InstrumentDefV1ToV3, CopiedToV3, f)
    [] from = 2 /\ to = 3 -> FromInitialiser(InstrumentDefV3, InstrumentDefV2ToV3, CopiedToV3, f)

\* Mutant: the undefined quantity is widened like any other.
StatUpgradeWidens(f) == FromInitialiser(StatV3, StatV1ToV3, {}, f)

StatUpgrade(f) ==
  [FromInitialiser(StatV3, StatV1ToV3, {}, f) EXCEPT
     !.quantity = IF @ = kUndefQuantity32 THEN kUndefQuantity64 ELSE @]

ErrorUpgrade(f) ==
  [hd |-> f.hd, err |-> f.err, code |-> ErrorCodeOf(f.err), is_last |-> "UINT8_MAX"]
SymbolMappingUpgrade(f) ==
  FromInitialiser(SymbolMappingV2, SymbolMappingV1ToV2, {"stype_in_symbol", "stype_out_symbol"}, f)
SystemUpgrade(f) == [hd |-> f.hd, msg |-> f.msg, code |-> SystemCodeOf(f.msg)]

\* UpgradeRecord<T, U>: the fields go through T::Upgrade<U>, the header gets the length
\* of U, or of WithTsOut<U>, and as many bytes as that are copied.
UpgradeRecord(r, to) ==
  [rtype |-> r.rtype, version |-> to, ts_out |-> r.ts_out,
   words |-> (SizeOfStruct[r.rtype][to] + IF r.ts_out THEN 8 ELSE 0) \div kLengthMultiplier,
   f |-> CASE r.rtype = "InstrumentDef" -> InstrumentDefUpgrade(r.f, r.version, to)
           [] r.rtype = "Statistics" -> StatUpgrade(r.f)
           [] r.rtype = "Error" -> ErrorUpgrade(r.f)
           [] r.rtype = "SymbolMapping" -> SymbolMappingUpgrade(r.f)
           [] r.rtype = "System" -> SystemUpgrade(r.f)]

\* What the decoder makes of a record: DecodeRecordCompat, when NeedsUpgrade says so.
Compat(r, policy) ==
  LET to == IF policy = "UpgradeToV2" THEN 2 ELSE 3
  IN  IF NeedsUpgrade(policy, r.version) /\ r.rtype \in Changed
        THEN IF DecodeRecordCompat(r.version, policy, r.rtype) # Layout(r.rtype, r.version)
               THEN UpgradeRecord(r, to) ELSE [r EXCEPT !.version = to]
        ELSE r

\* A record of the given version as the gateway sends it, its fields all different.
RecordOf(rtype, v, ts_out, f) ==
  [rtype |-> rtype, version |-> v, ts_out |-> ts_out,
   words |-> (SizeOfStruct[rtype][v] + IF ts_out THEN 8 ELSE 0) \div kLengthMultiplier,
   f |-> f]
==============================================================================
