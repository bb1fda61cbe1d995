------------------------------- MODULE Versions -------------------------------
(***************************************************************************)
(* The versions of DBN: which layout a record type has in which version,   *)
(* and what an upgrade policy does to metadata and records.  The decision  *)
(* is taken in three places of the code, each one definition here.         *)
(***************************************************************************)
EXTENDS Naturals

kDbnVersion == 3
Policies == {"AsIs", "UpgradeToV2", "UpgradeToV3"}

Changed == {"InstrumentDef", "Statistics", "SymbolMapping", "Error", "System"}

\* The version that introduced the layout a record type has in DBN version v.
Layout(rtype, v) ==
  CASE rtype = "InstrumentDef" -> v
    [] rtype = "Statistics" -> IF v < 3 THEN 1 ELSE 3
    [] rtype \in {"SymbolMapping", "Error", "System"} -> IF v < 2 THEN 1 ELSE 2
    [] OTHER -> 1

NeedsUpgrade(p, v) ==
  \/ p = "UpgradeToV2" /\ v < 2
  \/ p = "UpgradeToV3" /\ v < 3

\* Mutant: version 2 statistics are left as they are.
CompatNoStat(v, p, rtype) ==
  IF \/ v = 1 /\ p = "UpgradeToV2" /\ rtype \in Changed \ {"Statistics"}
     \/ v = 1 /\ p = "UpgradeToV3" /\ rtype \in Changed
     \/ v = 2 /\ p = "UpgradeToV3" /\ rtype = "InstrumentDef"
    THEN Layout(rtype, IF p = "UpgradeToV2" THEN 2 ELSE 3)
    ELSE Layout(rtype, v)

\* The layout of the record DecodeRecordCompat returns.
DecodeRecordCompat(v, p, rtype) ==
  IF \/ v = 1 /\ p = "UpgradeToV2" /\ rtype \in Changed \ {"Statistics"}
     \/ v = 1 /\ p = "UpgradeToV3" /\ rtype \in Changed
     \/ v = 2 /\ p = "UpgradeToV3" /\ rtype \in {"InstrumentDef", "Statistics"}
    THEN Layout(rtype, IF p = "UpgradeToV2" THEN 2 ELSE 3)
    ELSE Layout(rtype, v)

\* Metadata::Upgrade: the version the metadata reports.
MetadataUpgrade(v, p) ==
  IF p = "UpgradeToV2" /\ v < 2 THEN 2
  ELSE IF p = "UpgradeToV3" /\ v < 3 THEN kDbnVersion ELSE v
==============================================================================
