-------------------------------- MODULE Enums --------------------------------
(***************************************************************************)
(* The enumerations of enums.hpp that are both printed and parsed: their   *)
(* values, the text each enumerator is printed as and the texts it is      *)
(* parsed from.  An enumerator is its name.  Two enumerators have no text  *)
(* of their own and print as "Unknown".                                    *)
(***************************************************************************)
EXTENDS Naturals, Sequences, TLC

(* The values.                                                             *)
FeedModeValue == [Historical |-> 0, HistoricalStreaming |-> 1, Live |-> 2]
SplitDurationValue == [Day |-> 0, Week |-> 1, Month |-> 2, Year |-> 3, None |-> 4]
DeliveryValue == [Download |-> 0]
JobStateValue == [Queued |-> 0, Processing |-> 1, Done |-> 2, Expired |-> 3]
DatasetConditionValue == [Available |-> 0, Degraded |-> 1, Pending |-> 2, Missing |-> 3]
RTypeValue ==
  [
    Mbp0 |-> 0, Mbp1 |-> 1, Mbp10 |-> 10, OhlcvDeprecated |-> 17, Ohlcv1S |-> 32,
    Ohlcv1M |-> 33, Ohlcv1H |-> 34, Ohlcv1D |-> 35, OhlcvEod |-> 36, Status |-> 18,
    InstrumentDef |-> 19, Imbalance |-> 20, Error |-> 21, SymbolMapping |-> 22,
    System |-> 23, Statistics |-> 24, Mbo |-> 160, Cmbp1 |-> 177, Cbbo1S |-> 192,
    Cbbo1M |-> 193, Tcbbo |-> 194, Bbo1S |-> 195, Bbo1M |-> 196
  ]
STypeValue ==
  [
    InstrumentId |-> 0, RawSymbol |-> 1, Smart |-> 2, Continuous |-> 3, Parent |-> 4,
    NasdaqSymbol |-> 5, CmsSymbol |-> 6, Isin |-> 7, UsCode |-> 8, BbgCompId |-> 9,
    BbgCompTicker |-> 10, Figi |-> 11, FigiTicker |-> 12, ListingId |-> 13, IssuerId |-> 14,
    SecurityId |-> 15
  ]
SchemaValue ==
  [
    Mbo |-> 0, Mbp1 |-> 1, Mbp10 |-> 2, Tbbo |-> 3, Trades |-> 4, Ohlcv1S |-> 5,
    Ohlcv1M |-> 6, Ohlcv1H |-> 7, Ohlcv1D |-> 8, Definition |-> 9, Statistics |-> 10,
    Status |-> 11, Imbalance |-> 12, OhlcvEod |-> 13, Cmbp1 |-> 14, Cbbo1S |-> 15,
    Cbbo1M |-> 16, Tcbbo |-> 17, Bbo1S |-> 18, Bbo1M |-> 19
  ]
EncodingValue == [Dbn |-> 0, Csv |-> 1, Json |-> 2]
CompressionValue == [None |-> 0, Zstd |-> 1]
ErrorCodeValue ==
  [
    AuthFailed |-> 1, ApiKeyDeactivated |-> 2, ConnectionLimitExceeded |-> 3,
    SymbolResolutionFailed |-> 4, InvalidSubscription |-> 5, InternalError |-> 6,
    SkippedRecordsAfterSlowReading |-> 7, ReplayDataAgedOut |-> 8, Unset |-> 255
  ]
SystemCodeValue ==
  [
    Heartbeat |-> 0, SubscriptionAck |-> 1, SlowReaderWarning |-> 2, ReplayCompleted |-> 3,
    EndOfInterval |-> 4, Unset |-> 255
  ]
-----------------------------------------------------------------------------
(* The overloads of ToString.                                              *)
FeedModeToString ==
  [
    Historical |-> "historical", HistoricalStreaming |-> "historical-streaming",
    Live |-> "live"
  ]
SplitDurationToString ==
  [
    Day |-> "day", Week |-> "week", Month |-> "month", Year |-> "year", None |-> "none"
  ]
DeliveryToString ==
  [
    Download |-> "download"
  ]
JobStateToString ==
  [
    Queued |-> "queued", Processing |-> "processing", Done |-> "done", Expired |-> "expired"
  ]
DatasetConditionToString ==
  [
    Available |-> "available", Degraded |-> "degraded", Pending |-> "pending",
    Missing |-> "missing"
  ]
RTypeToString ==
  [
    Mbp0 |-> "mbp-0", Mbp1 |-> "mbp-1", Mbp10 |-> "mbp-10", Ohlcv1S |-> "ohlcv-1s",
    Ohlcv1M |-> "ohlcv-1m", Ohlcv1H |-> "ohlcv-1h", Ohlcv1D |-> "ohlcv-1d",
    OhlcvEod |-> "ohlcv-eod", Status |-> "status", InstrumentDef |-> "instrument-def",
    Imbalance |-> "imbalance", Error |-> "error", SymbolMapping |-> "symbol-mapping",
    System |-> "system", Statistics |-> "statistics", Mbo |-> "mbo", Cmbp1 |-> "cmbp-1",
    Cbbo1S |-> "cbbo-1s", Cbbo1M |-> "cbbo-1m", Tcbbo |-> "tcbbo", Bbo1S |-> "bbo-1s",
    Bbo1M |-> "bbo-1m"
  ]
STypeToString ==
  [
    InstrumentId |-> "instrument_id", RawSymbol |-> "raw_symbol",
    Continuous |-> "continuous", Parent |-> "parent", NasdaqSymbol |-> "nasdaq_symbol",
    CmsSymbol |-> "cms_symbol", Isin |-> "isin", UsCode |-> "us_code",
    BbgCompId |-> "bbg_comp_id", BbgCompTicker |-> "bbg_comp_ticker", Figi |-> "figi",
    FigiTicker |-> "figi_ticker", ListingId |-> "listing_id", IssuerId |-> "issuer_id",
    SecurityId |-> "security_id"
  ]
SchemaToString ==
  [
    Mbo |-> "mbo", Mbp1 |-> "mbp-1", Mbp10 |-> "mbp-10", Tbbo |-> "tbbo",
    Trades |-> "trades", Ohlcv1S |-> "ohlcv-1s", Ohlcv1M |-> "ohlcv-1m",
    Ohlcv1H |-> "ohlcv-1h", Ohlcv1D |-> "ohlcv-1d", Definition |-> "definition",
    Statistics |-> "statistics", Status |-> "status", Imbalance |-> "imbalance",
    OhlcvEod |-> "ohlcv-eod", Cmbp1 |-> "cmbp-1", Cbbo1S |-> "cbbo-1s",
    Cbbo1M |-> "cbbo-1m", Tcbbo |-> "tcbbo", Bbo1S |-> "bbo-1s", Bbo1M |-> "bbo-1m"
  ]
EncodingToString ==
  [
    Dbn |-> "dbn", Csv |-> "csv", Json |-> "json"
  ]
CompressionToString ==
  [
    None |-> "none", Zstd |-> "zstd"
  ]
ErrorCodeToString ==
  [
    AuthFailed |-> "auth_failed", ApiKeyDeactivated |-> "api_key_deactivated",
    ConnectionLimitExceeded |-> "connection_limit_exceeded",
    SymbolResolutionFailed |-> "symbol_resolution_failed",
    InvalidSubscription |-> "invalid_subscription", InternalError |-> "internal_error",
    SkippedRecordsAfterSlowReading |-> "skipped_records_after_slow_reading",
    ReplayDataAgedOut |-> "replay_data_aged_out", Unset |-> "unset"
  ]
SystemCodeToString ==
  [
    Heartbeat |-> "heartbeat", SubscriptionAck |-> "subscription_ack",
    SlowReaderWarning |-> "slow_reader_warning", ReplayCompleted |-> "replay_completed",
    EndOfInterval |-> "end_of_interval", Unset |-> "unset"
  ]
-----------------------------------------------------------------------------
(* The specialisations of FromString, the tests in order.                  *)
FeedModeFromString ==
  <<
    <<"historical", "Historical">>, <<"historical-streaming", "HistoricalStreaming">>,
    <<"live", "Live">>
  >>
SplitDurationFromString ==
  <<
    <<"day", "Day">>, <<"week", "Week">>, <<"month", "Month">>, <<"year", "Year">>,
    <<"none", "None">>
  >>
DeliveryFromString ==
  <<
    <<"download", "Download">>
  >>
JobStateFromString ==
  <<
    <<"queued", "Queued">>, <<"processing", "Processing">>, <<"done", "Done">>,
    <<"expired", "Expired">>
  >>
DatasetConditionFromString ==
  <<
    <<"available", "Available">>, <<"degraded", "Degraded">>, <<"pending", "Pending">>,
    <<"missing", "Missing">>
  >>
RTypeFromString ==
  <<
    <<"mbp-0", "Mbp0">>, <<"mbp-1", "Mbp1">>, <<"mbp-10", "Mbp10">>,
    <<"ohlcv-deprecated", "OhlcvDeprecated">>, <<"ohlcv-1s", "Ohlcv1S">>,
    <<"ohlcv-1m", "Ohlcv1M">>, <<"ohlcv-1h", "Ohlcv1H">>, <<"ohlcv-1d", "Ohlcv1D">>,
    <<"ohlcv-eod", "OhlcvEod">>, <<"status", "Status">>,
    <<"instrument-def", "InstrumentDef">>, <<"imbalance", "Imbalance">>,
    <<"error", "Error">>, <<"symbol-mapping", "SymbolMapping">>, <<"system", "System">>,
    <<"statistics", "Statistics">>, <<"mbo", "Mbo">>, <<"cmbp-1", "Cmbp1">>,
    <<"cbbo-1s", "Cbbo1S">>, <<"cbbo-1m", "Cbbo1M">>, <<"tcbbo", "Tcbbo">>,
    <<"bbo-1s", "Bbo1S">>, <<"bbo-1m", "Bbo1M">>
  >>
STypeFromString ==
  <<
    <<"instrument_id", "InstrumentId">>, <<"product_id", "InstrumentId">>,
    <<"raw_symbol", "RawSymbol">>, <<"native", "RawSymbol">>, <<"smart", "Smart">>,
    <<"continuous", "Continuous">>, <<"parent", "Parent">>,
    <<"nasdaq_symbol", "NasdaqSymbol">>, <<"nasdaq", "NasdaqSymbol">>,
    <<"cms_symbol", "CmsSymbol">>, <<"cms", "CmsSymbol">>, <<"isin", "Isin">>,
    <<"us_code", "UsCode">>, <<"bbg_comp_id", "BbgCompId">>,
    <<"bbg_comp_ticker", "BbgCompTicker">>, <<"figi", "Figi">>,
    <<"figi_ticker", "FigiTicker">>, <<"listing_id", "ListingId">>,
    <<"issuer_id", "IssuerId">>, <<"security_id", "SecurityId">>
  >>
SchemaFromString ==
  <<
    <<"mbo", "Mbo">>, <<"mbp-1", "Mbp1">>, <<"mbp-10", "Mbp10">>, <<"tbbo", "Tbbo">>,
    <<"trades", "Trades">>, <<"ohlcv-1s", "Ohlcv1S">>, <<"ohlcv-1m", "Ohlcv1M">>,
    <<"ohlcv-1h", "Ohlcv1H">>, <<"ohlcv-1d", "Ohlcv1D">>, <<"definition", "Definition">>,
    <<"statistics", "Statistics">>, <<"status", "Status">>, <<"imbalance", "Imbalance">>,
    <<"ohlcv-eod", "OhlcvEod">>, <<"cmbp-1", "Cmbp1">>, <<"cbbo-1s", "Cbbo1S">>,
    <<"cbbo-1m", "Cbbo1M">>, <<"tcbbo", "Tcbbo">>, <<"bbo-1s", "Bbo1S">>,
    <<"bbo-1m", "Bbo1M">>
  >>
EncodingFromString ==
  <<
    <<"dbn", "Dbn">>, <<"dbz", "Dbn">>, <<"csv", "Csv">>, <<"json", "Json">>
  >>
CompressionFromString ==
  <<
    <<"none", "None">>, <<"zstd", "Zstd">>
  >>
ErrorCodeFromString ==
  <<
    <<"auth_failed", "AuthFailed">>, <<"api_key_deactivated", "ApiKeyDeactivated">>,
    <<"connection_limit_exceeded", "ConnectionLimitExceeded">>,
    <<"symbol_resolution_failed", "SymbolResolutionFailed">>,
    <<"invalid_subscription", "InvalidSubscription">>,
    <<"internal_error", "InternalError">>,
    <<"skipped_records_after_slow_reading", "SkippedRecordsAfterSlowReading">>,
    <<"replay_data_aged_out", "ReplayDataAgedOut">>, <<"unset", "Unset">>
  >>
SystemCodeFromString ==
  <<
    <<"heartbeat", "Heartbeat">>, <<"subscription_ack", "SubscriptionAck">>,
    <<"slow_reader_warning", "SlowReaderWarning">>,
    <<"replay_completed", "ReplayCompleted">>, <<"end_of_interval", "EndOfInterval">>,
    <<"unset", "Unset">>
  >>
=============================================================================
