------------------------------ MODULE Publishers ------------------------------
(***************************************************************************)
(* The generated tables of publishers.hpp and publishers.cpp: the          *)
(* enumerators of Venue, Dataset and Publisher by value, the text each is  *)
(* printed as, the text each is parsed from, and the venue and the dataset *)
(* of a publisher.  An enumerator is its name.  A table of ToString is a   *)
(* record; a table of FromString is the sequence of its tests, in order.   *)
(* Long tables are cut into parts.                                         *)
(***************************************************************************)
EXTENDS Naturals, Sequences, TLC

(* The enumerators, by value: the first has the value 1.                   *)
VenueByValue ==
  <<
    "Glbx", "Xnas", "Xbos", "Xpsx", "Bats", "Baty", "Edga", "Edgx", "Xnys", "Xcis", "Xase",
    "Arcx", "Xchi", "Iexg", "Finn", "Finc", "Finy", "Memx", "Eprl", "Amxo", "Xbox", "Xcbo",
    "Emld", "Edgo", "Gmni", "Xisx", "Mcry", "Xmio", "Arco", "Opra", "Mprl", "Xndq", "Xbxo",
    "C2Ox", "Xphl", "Bato", "Mxop", "Ifeu", "Ndex", "Dbeq", "Sphr", "Ltse", "Xoff", "Aspn",
    "Asmt", "Aspi", "Equs", "Ifus", "Ifll", "Xeur", "Xeee", "Xcbf", "Ocea", "Mxto", "Iexo",
    "Main", "Txse", "_24Eq", "Cta", "Utp", "Xadf", "Msci", "Ftse", "Inav", "Mstar", "Cccy",
    "Cgi", "Def", "Xtks", "Xtkt", "Xose"
  >>
DatasetByValue ==
  <<
    "GlbxMdp3", "XnasItch", "XbosItch", "XpsxItch", "BatsPitch", "BatyPitch", "EdgaPitch",
    "EdgxPitch", "XnysPillar", "XcisPillar", "XasePillar", "XchiPillar", "XcisBbo",
    "XcisTrades", "MemxMemoir", "EprlDom", "FinnNls", "FinyTrades", "OpraPillar",
    "DbeqBasic", "ArcxPillar", "IexgTops", "EqusPlus", "XnysBbo", "XnysTrades", "XnasQbbo",
    "XnasNls", "IfeuImpact", "NdexImpact", "EqusAll", "XnasBasic", "EqusSummary",
    "XcisTradesbbo", "XnysTradesbbo", "EqusMini", "IfusImpact", "IfllImpact", "XeurEobi",
    "XeeeEobi", "XcbfPitch", "OceaMemoir", "MainCgif", "EqusSip", "MsciCgif", "FtseCgif",
    "InavCgif", "MstarCgif", "CccyCgif", "CgiCgif", "XtksFlex", "XtktItch", "XoseItch"
  >>
PublisherByValue_1 ==
  <<
    "GlbxMdp3Glbx", "XnasItchXnas", "XbosItchXbos", "XpsxItchXpsx", "BatsPitchBats",
    "BatyPitchBaty", "EdgaPitchEdga", "EdgxPitchEdgx", "XnysPillarXnys", "XcisPillarXcis",
    "XasePillarXase", "XchiPillarXchi", "XcisBboXcis", "XcisTradesXcis", "MemxMemoirMemx",
    "EprlDomEprl", "XnasNlsFinn", "XnasNlsFinc", "XnysTradesFiny", "OpraPillarAmxo",
    "OpraPillarXbox", "OpraPillarXcbo", "OpraPillarEmld", "OpraPillarEdgo",
    "OpraPillarGmni", "OpraPillarXisx", "OpraPillarMcry", "OpraPillarXmio",
    "OpraPillarArco", "OpraPillarOpra", "OpraPillarMprl", "OpraPillarXndq",
    "OpraPillarXbxo", "OpraPillarC2Ox", "OpraPillarXphl", "OpraPillarBato",
    "OpraPillarMxop", "IexgTopsIexg", "DbeqBasicXchi", "DbeqBasicXcis", "DbeqBasicIexg",
    "DbeqBasicEprl", "ArcxPillarArcx", "XnysBboXnys", "XnysTradesXnys", "XnasQbboXnas",
    "XnasNlsXnas", "EqusPlusXchi", "EqusPlusXcis", "EqusPlusIexg", "EqusPlusEprl",
    "EqusPlusXnas", "EqusPlusXnys", "EqusPlusFinn", "EqusPlusFiny", "EqusPlusFinc",
    "IfeuImpactIfeu", "NdexImpactNdex", "DbeqBasicDbeq", "EqusPlusEqus", "OpraPillarSphr",
    "EqusAllXchi", "EqusAllXcis", "EqusAllIexg", "EqusAllEprl", "EqusAllXnas",
    "EqusAllXnys", "EqusAllFinn", "EqusAllFiny", "EqusAllFinc", "EqusAllBats", "EqusAllBaty"
  >>
PublisherByValue_2 ==
  <<
    "EqusAllEdga", "EqusAllEdgx", "EqusAllXbos", "EqusAllXpsx", "EqusAllMemx",
    "EqusAllXase", "EqusAllArcx", "EqusAllLtse", "XnasBasicXnas", "XnasBasicFinn",
    "XnasBasicFinc", "IfeuImpactXoff", "NdexImpactXoff", "XnasNlsXbos", "XnasNlsXpsx",
    "XnasBasicXbos", "XnasBasicXpsx", "EqusSummaryEqus", "XcisTradesbboXcis",
    "XnysTradesbboXnys", "XnasBasicEqus", "EqusAllEqus", "EqusMiniEqus", "XnysTradesEqus",
    "IfusImpactIfus", "IfusImpactXoff", "IfllImpactIfll", "IfllImpactXoff", "XeurEobiXeur",
    "XeeeEobiXeee", "XeurEobiXoff", "XeeeEobiXoff", "XcbfPitchXcbf", "XcbfPitchXoff",
    "OceaMemoirOcea", "OpraPillarMxto", "OpraPillarIexo", "MainCgifMain", "EqusSipXase",
    "EqusSipXbos", "EqusSipXcis", "EqusSipTxse", "EqusSip24Eq", "EqusSipEprl",
    "EqusSipXisx", "EqusSipEdga", "EqusSipEdgx", "EqusSipLtse", "EqusSipXchi",
    "EqusSipXnys", "EqusSipArcx", "EqusSipXnas", "EqusSipMemx", "EqusSipIexg",
    "EqusSipXpsx", "EqusSipBaty", "EqusSipBats", "EqusSipFinn", "EqusSipFiny",
    "EqusSipFinc", "EqusSipXadf", "EqusSipCta", "EqusSipUtp", "MsciCgifMsci",
    "FtseCgifFtse", "InavCgifInav", "MstarCgifMstar", "CccyCgifCccy", "CgiCgifCgi",
    "MainCgifDef", "XtksFlexXtks", "XtktItchXtkt", "XoseItchXose"
  >>
PublisherByValue == PublisherByValue_1 \o PublisherByValue_2
-----------------------------------------------------------------------------
(* ToString(Venue), ToString(Dataset), ToString(Publisher).                *)
VenueToString_1 ==
  [
    Glbx |-> "GLBX", Xnas |-> "XNAS", Xbos |-> "XBOS", Xpsx |-> "XPSX", Bats |-> "BATS",
    Baty |-> "BATY", Edga |-> "EDGA", Edgx |-> "EDGX", Xnys |-> "XNYS", Xcis |-> "XCIS",
    Xase |-> "XASE", Arcx |-> "ARCX", Xchi |-> "XCHI", Iexg |-> "IEXG", Finn |-> "FINN",
    Finc |-> "FINC", Finy |-> "FINY", Memx |-> "MEMX", Eprl |-> "EPRL", Amxo |-> "AMXO",
    Xbox |-> "XBOX", Xcbo |-> "XCBO", Emld |-> "EMLD", Edgo |-> "EDGO", Gmni |-> "GMNI",
    Xisx |-> "XISX", Mcry |-> "MCRY", Xmio |-> "XMIO", Arco |-> "ARCO", Opra |-> "OPRA",
    Mprl |-> "MPRL", Xndq |-> "XNDQ", Xbxo |-> "XBXO", C2Ox |-> "C2OX", Xphl |-> "XPHL",
    Bato |-> "BATO"
  ]
VenueToString_2 ==
  [
    Mxop |-> "MXOP", Ifeu |-> "IFEU", Ndex |-> "NDEX", Dbeq |-> "DBEQ", Sphr |-> "SPHR",
    Ltse |-> "LTSE", Xoff |-> "XOFF", Aspn |-> "ASPN", Asmt |-> "ASMT", Aspi |-> "ASPI",
    Equs |-> "EQUS", Ifus |-> "IFUS", Ifll |-> "IFLL", Xeur |-> "XEUR", Xeee |-> "XEEE",
    Xcbf |-> "XCBF", Ocea |-> "OCEA", Mxto |-> "MXTO", Iexo |-> "IEXO", Main |-> "MAIN",
    Txse |-> "TXSE", _24Eq |-> "24EQ", Cta |-> "CTA", Utp |-> "UTP", Xadf |-> "XADF",
    Msci |-> "MSCI", Ftse |-> "FTSE", Inav |-> "INAV", Mstar |-> "MSTAR", Cccy |-> "CCCY",
    Cgi |-> "CGI", Def |-> "DEF", Xtks |-> "XTKS", Xtkt |-> "XTKT", Xose |-> "XOSE"
  ]
VenueToString == VenueToString_1 @@ VenueToString_2
DatasetToString_1 ==
  [
    GlbxMdp3 |-> "GLBX.MDP3", XnasItch |-> "XNAS.ITCH", XbosItch |-> "XBOS.ITCH",
    XpsxItch |-> "XPSX.ITCH", BatsPitch |-> "BATS.PITCH", BatyPitch |-> "BATY.PITCH",
    EdgaPitch |-> "EDGA.PITCH", EdgxPitch |-> "EDGX.PITCH", XnysPillar |-> "XNYS.PILLAR",
    XcisPillar |-> "XCIS.PILLAR", XasePillar |-> "XASE.PILLAR",
    XchiPillar |-> "XCHI.PILLAR", XcisBbo |-> "XCIS.BBO", XcisTrades |-> "XCIS.TRADES",
    MemxMemoir |-> "MEMX.MEMOIR", EprlDom |-> "EPRL.DOM", FinnNls |-> "FINN.NLS",
    FinyTrades |-> "FINY.TRADES", OpraPillar |-> "OPRA.PILLAR", DbeqBasic |-> "DBEQ.BASIC",
    ArcxPillar |-> "ARCX.PILLAR", IexgTops |-> "IEXG.TOPS", EqusPlus |-> "EQUS.PLUS",
    XnysBbo |-> "XNYS.BBO", XnysTrades |-> "XNYS.TRADES", XnasQbbo |-> "XNAS.QBBO"
  ]
DatasetToString_2 ==
  [
    XnasNls |-> "XNAS.NLS", IfeuImpact |-> "IFEU.IMPACT", NdexImpact |-> "NDEX.IMPACT",
    EqusAll |-> "EQUS.ALL", XnasBasic |-> "XNAS.BASIC", EqusSummary |-> "EQUS.SUMMARY",
    XcisTradesbbo |-> "XCIS.TRADESBBO", XnysTradesbbo |-> "XNYS.TRADESBBO",
    EqusMini |-> "EQUS.MINI", IfusImpact |-> "IFUS.IMPACT", IfllImpact |-> "IFLL.IMPACT",
    XeurEobi |-> "XEUR.EOBI", XeeeEobi |-> "XEEE.EOBI", XcbfPitch |-> "XCBF.PITCH",
    OceaMemoir |-> "OCEA.MEMOIR", MainCgif |-> "MAIN.CGIF", EqusSip |-> "EQUS.SIP",
    MsciCgif |-> "MSCI.CGIF", FtseCgif |-> "FTSE.CGIF", InavCgif |-> "INAV.CGIF",
    MstarCgif |-> "MSTAR.CGIF", CccyCgif |-> "CCCY.CGIF", CgiCgif |-> "CGI.CGIF",
    XtksFlex |-> "XTKS.FLEX", XtktItch |-> "XTKT.ITCH", XoseItch |-> "XOSE.ITCH"
  ]
DatasetToString == DatasetToString_1 @@ DatasetToString_2
PublisherToString_1 ==
  [
    GlbxMdp3Glbx |-> "GLBX.MDP3.GLBX", XnasItchXnas |-> "XNAS.ITCH.XNAS",
    XbosItchXbos |-> "XBOS.ITCH.XBOS", XpsxItchXpsx |-> "XPSX.ITCH.XPSX",
    BatsPitchBats |-> "BATS.PITCH.BATS", BatyPitchBaty |-> "BATY.PITCH.BATY",
    EdgaPitchEdga |-> "EDGA.PITCH.EDGA", EdgxPitchEdgx |-> "EDGX.PITCH.EDGX",
    XnysPillarXnys |-> "XNYS.PILLAR.XNYS", XcisPillarXcis |-> "XCIS.PILLAR.XCIS",
    XasePillarXase |-> "XASE.PILLAR.XASE", XchiPillarXchi |-> "XCHI.PILLAR.XCHI",
    XcisBboXcis |-> "XCIS.BBO.XCIS", XcisTradesXcis |-> "XCIS.TRADES.XCIS",
    MemxMemoirMemx |-> "MEMX.MEMOIR.MEMX", EprlDomEprl |-> "EPRL.DOM.EPRL",
    XnasNlsFinn |-> "XNAS.NLS.FINN", XnasNlsFinc |-> "XNAS.NLS.FINC",
    XnysTradesFiny |-> "XNYS.TRADES.FINY", OpraPillarAmxo |-> "OPRA.PILLAR.AMXO",
    OpraPillarXbox |-> "OPRA.PILLAR.XBOX", OpraPillarXcbo |-> "OPRA.PILLAR.XCBO",
    OpraPillarEmld |-> "OPRA.PILLAR.EMLD", OpraPillarEdgo |-> "OPRA.PILLAR.EDGO",
    OpraPillarGmni |-> "OPRA.PILLAR.GMNI", OpraPillarXisx |-> "OPRA.PILLAR.XISX",
    OpraPillarMcry |-> "OPRA.PILLAR.MCRY", OpraPillarXmio |-> "OPRA.PILLAR.XMIO",
    OpraPillarArco |-> "OPRA.PILLAR.ARCO", OpraPillarOpra |-> "OPRA.PILLAR.OPRA",
    OpraPillarMprl |-> "OPRA.PILLAR.MPRL", OpraPillarXndq |-> "OPRA.PILLAR.XNDQ",
    OpraPillarXbxo |-> "OPRA.PILLAR.XBXO", OpraPillarC2Ox |-> "OPRA.PILLAR.C2OX",
    OpraPillarXphl |-> "OPRA.PILLAR.XPHL", OpraPillarBato |-> "OPRA.PILLAR.BATO",
    OpraPillarMxop |-> "OPRA.PILLAR.MXOP", IexgTopsIexg |-> "IEXG.TOPS.IEXG",
    DbeqBasicXchi |-> "DBEQ.BASIC.XCHI", DbeqBasicXcis |-> "DBEQ.BASIC.XCIS",
    DbeqBasicIexg |-> "DBEQ.BASIC.IEXG", DbeqBasicEprl |-> "DBEQ.BASIC.EPRL",
    ArcxPillarArcx |-> "ARCX.PILLAR.ARCX", XnysBboXnys |-> "XNYS.BBO.XNYS",
    XnysTradesXnys |-> "XNYS.TRADES.XNYS", XnasQbboXnas |-> "XNAS.QBBO.XNAS",
    XnasNlsXnas |-> "XNAS.NLS.XNAS", EqusPlusXchi |-> "EQUS.PLUS.XCHI"
  ]
PublisherToString_2 ==
  [
    EqusPlusXcis |-> "EQUS.PLUS.XCIS", EqusPlusIexg |-> "EQUS.PLUS.IEXG",
    EqusPlusEprl |-> "EQUS.PLUS.EPRL", EqusPlusXnas |-> "EQUS.PLUS.XNAS",
    EqusPlusXnys |-> "EQUS.PLUS.XNYS", EqusPlusFinn |-> "EQUS.PLUS.FINN",
    EqusPlusFiny |-> "EQUS.PLUS.FINY", EqusPlusFinc |-> "EQUS.PLUS.FINC",
    IfeuImpactIfeu |-> "IFEU.IMPACT.IFEU", NdexImpactNdex |-> "NDEX.IMPACT.NDEX",
    DbeqBasicDbeq |-> "DBEQ.BASIC.DBEQ", EqusPlusEqus |-> "EQUS.PLUS.EQUS",
    OpraPillarSphr |-> "OPRA.PILLAR.SPHR", EqusAllXchi |-> "EQUS.ALL.XCHI",
    EqusAllXcis |-> "EQUS.ALL.XCIS", EqusAllIexg |-> "EQUS.ALL.IEXG",
    EqusAllEprl |-> "EQUS.ALL.EPRL", EqusAllXnas |-> "EQUS.ALL.XNAS",
    EqusAllXnys |-> "EQUS.ALL.XNYS", EqusAllFinn |-> "EQUS.ALL.FINN",
    EqusAllFiny |-> "EQUS.ALL.FINY", EqusAllFinc |-> "EQUS.ALL.FINC",
    EqusAllBats |-> "EQUS.ALL.BATS", EqusAllBaty |-> "EQUS.ALL.BATY",
    EqusAllEdga |-> "EQUS.ALL.EDGA", EqusAllEdgx |-> "EQUS.ALL.EDGX",
    EqusAllXbos |-> "EQUS.ALL.XBOS", EqusAllXpsx |-> "EQUS.ALL.XPSX",
    EqusAllMemx |-> "EQUS.ALL.MEMX", EqusAllXase |-> "EQUS.ALL.XASE",
    EqusAllArcx |-> "EQUS.ALL.ARCX", EqusAllLtse |-> "EQUS.ALL.LTSE",
    XnasBasicXnas |-> "XNAS.BASIC.XNAS", XnasBasicFinn |-> "XNAS.BASIC.FINN",
    XnasBasicFinc |-> "XNAS.BASIC.FINC", IfeuImpactXoff |-> "IFEU.IMPACT.XOFF",
    NdexImpactXoff |-> "NDEX.IMPACT.XOFF", XnasNlsXbos |-> "XNAS.NLS.XBOS",
    XnasNlsXpsx |-> "XNAS.NLS.XPSX", XnasBasicXbos |-> "XNAS.BASIC.XBOS",
    XnasBasicXpsx |-> "XNAS.BASIC.XPSX", EqusSummaryEqus |-> "EQUS.SUMMARY.EQUS",
    XcisTradesbboXcis |-> "XCIS.TRADESBBO.XCIS",
    XnysTradesbboXnys |-> "XNYS.TRADESBBO.XNYS", XnasBasicEqus |-> "XNAS.BASIC.EQUS",
    EqusAllEqus |-> "EQUS.ALL.EQUS", EqusMiniEqus |-> "EQUS.MINI.EQUS",
    XnysTradesEqus |-> "XNYS.TRADES.EQUS", IfusImpactIfus |-> "IFUS.IMPACT.IFUS"
  ]
PublisherToString_3 ==
  [
    IfusImpactXoff |-> "IFUS.IMPACT.XOFF", IfllImpactIfll |-> "IFLL.IMPACT.IFLL",
    IfllImpactXoff |-> "IFLL.IMPACT.XOFF", XeurEobiXeur |-> "XEUR.EOBI.XEUR",
    XeeeEobiXeee |-> "XEEE.EOBI.XEEE", XeurEobiXoff |-> "XEUR.EOBI.XOFF",
    XeeeEobiXoff |-> "XEEE.EOBI.XOFF", XcbfPitchXcbf |-> "XCBF.PITCH.XCBF",
    XcbfPitchXoff |-> "XCBF.PITCH.XOFF", OceaMemoirOcea |-> "OCEA.MEMOIR.OCEA",
    OpraPillarMxto |-> "OPRA.PILLAR.MXTO", OpraPillarIexo |-> "OPRA.PILLAR.IEXO",
    MainCgifMain |-> "MAIN.CGIF.MAIN", EqusSipXase |-> "EQUS.SIP.XASE",
    EqusSipXbos |-> "EQUS.SIP.XBOS", EqusSipXcis |-> "EQUS.SIP.XCIS",
    EqusSipTxse |-> "EQUS.SIP.TXSE", EqusSip24Eq |-> "EQUS.SIP.24EQ",
    EqusSipEprl |-> "EQUS.SIP.EPRL", EqusSipXisx |-> "EQUS.SIP.XISX",
    EqusSipEdga |-> "EQUS.SIP.EDGA", EqusSipEdgx |-> "EQUS.SIP.EDGX",
    EqusSipLtse |-> "EQUS.SIP.LTSE", EqusSipXchi |-> "EQUS.SIP.XCHI",
    EqusSipXnys |-> "EQUS.SIP.XNYS", EqusSipArcx |-> "EQUS.SIP.ARCX",
    EqusSipXnas |-> "EQUS.SIP.XNAS", EqusSipMemx |-> "EQUS.SIP.MEMX",
    EqusSipIexg |-> "EQUS.SIP.IEXG", EqusSipXpsx |-> "EQUS.SIP.XPSX",
    EqusSipBaty |-> "EQUS.SIP.BATY", EqusSipBats |-> "EQUS.SIP.BATS",
    EqusSipFinn |-> "EQUS.SIP.FINN", EqusSipFiny |-> "EQUS.SIP.FINY",
    EqusSipFinc |-> "EQUS.SIP.FINC", EqusSipXadf |-> "EQUS.SIP.XADF",
    EqusSipCta |-> "EQUS.SIP.CTA", EqusSipUtp |-> "EQUS.SIP.UTP",
    MsciCgifMsci |-> "MSCI.CGIF.MSCI", FtseCgifFtse |-> "FTSE.CGIF.FTSE",
    InavCgifInav |-> "INAV.CGIF.INAV", MstarCgifMstar |-> "MSTAR.CGIF.MSTAR",
    CccyCgifCccy |-> "CCCY.CGIF.CCCY", CgiCgifCgi |-> "CGI.CGIF.CGI",
    MainCgifDef |-> "MAIN.CGIF.DEF", XtksFlexXtks |-> "XTKS.FLEX.XTKS",
    XtktItchXtkt |-> "XTKT.ITCH.XTKT", XoseItchXose |-> "XOSE.ITCH.XOSE"
  ]
PublisherToString == PublisherToString_1 @@ PublisherToString_2 @@ PublisherToString_3
-----------------------------------------------------------------------------
(* FromString<Venue>, FromString<Dataset>, FromString<Publisher>.          *)
VenueFromString_1 ==
  <<
    <<"GLBX", "Glbx">>, <<"XNAS", "Xnas">>, <<"XBOS", "Xbos">>, <<"XPSX", "Xpsx">>,
    <<"BATS", "Bats">>, <<"BATY", "Baty">>, <<"EDGA", "Edga">>, <<"EDGX", "Edgx">>,
    <<"XNYS", "Xnys">>, <<"XCIS", "Xcis">>, <<"XASE", "Xase">>, <<"ARCX", "Arcx">>,
    <<"XCHI", "Xchi">>, <<"IEXG", "Iexg">>, <<"FINN", "Finn">>, <<"FINC", "Finc">>,
    <<"FINY", "Finy">>, <<"MEMX", "Memx">>, <<"EPRL", "Eprl">>, <<"AMXO", "Amxo">>,
    <<"XBOX", "Xbox">>, <<"XCBO", "Xcbo">>, <<"EMLD", "Emld">>, <<"EDGO", "Edgo">>,
    <<"GMNI", "Gmni">>, <<"XISX", "Xisx">>, <<"MCRY", "Mcry">>, <<"XMIO", "Xmio">>,
    <<"ARCO", "Arco">>, <<"OPRA", "Opra">>, <<"MPRL", "Mprl">>, <<"XNDQ", "Xndq">>,
    <<"XBXO", "Xbxo">>, <<"C2OX", "C2Ox">>, <<"XPHL", "Xphl">>, <<"BATO", "Bato">>
  >>
VenueFromString_2 ==
  <<
    <<"MXOP", "Mxop">>, <<"IFEU", "Ifeu">>, <<"NDEX", "Ndex">>, <<"DBEQ", "Dbeq">>,
    <<"SPHR", "Sphr">>, <<"LTSE", "Ltse">>, <<"XOFF", "Xoff">>, <<"ASPN", "Aspn">>,
    <<"ASMT", "Asmt">>, <<"ASPI", "Aspi">>, <<"EQUS", "Equs">>, <<"IFUS", "Ifus">>,
    <<"IFLL", "Ifll">>, <<"XEUR", "Xeur">>, <<"XEEE", "Xeee">>, <<"XCBF", "Xcbf">>,
    <<"OCEA", "Ocea">>, <<"MXTO", "Mxto">>, <<"IEXO", "Iexo">>, <<"MAIN", "Main">>,
    <<"TXSE", "Txse">>, <<"24EQ", "_24Eq">>, <<"CTA", "Cta">>, <<"UTP", "Utp">>,
    <<"XADF", "Xadf">>, <<"MSCI", "Msci">>, <<"FTSE", "Ftse">>, <<"INAV", "Inav">>,
    <<"MSTAR", "Mstar">>, <<"CCCY", "Cccy">>, <<"CGI", "Cgi">>, <<"DEF", "Def">>,
    <<"XTKS", "Xtks">>, <<"XTKT", "Xtkt">>, <<"XOSE", "Xose">>
  >>
VenueFromString == VenueFromString_1 \o VenueFromString_2
DatasetFromString_1 ==
  <<
    <<"GLBX.MDP3", "GlbxMdp3">>, <<"XNAS.ITCH", "XnasItch">>, <<"XBOS.ITCH", "XbosItch">>,
    <<"XPSX.ITCH", "XpsxItch">>, <<"BATS.PITCH", "BatsPitch">>,
    <<"BATY.PITCH", "BatyPitch">>, <<"EDGA.PITCH", "EdgaPitch">>,
    <<"EDGX.PITCH", "EdgxPitch">>, <<"XNYS.PILLAR", "XnysPillar">>,
    <<"XCIS.PILLAR", "XcisPillar">>, <<"XASE.PILLAR", "XasePillar">>,
    <<"XCHI.PILLAR", "XchiPillar">>, <<"XCIS.BBO", "XcisBbo">>,
    <<"XCIS.TRADES", "XcisTrades">>, <<"MEMX.MEMOIR", "MemxMemoir">>,
    <<"EPRL.DOM", "EprlDom">>, <<"FINN.NLS", "FinnNls">>, <<"FINY.TRADES", "FinyTrades">>,
    <<"OPRA.PILLAR", "OpraPillar">>, <<"DBEQ.BASIC", "DbeqBasic">>,
    <<"ARCX.PILLAR", "ArcxPillar">>, <<"IEXG.TOPS", "IexgTops">>,
    <<"EQUS.PLUS", "EqusPlus">>, <<"XNYS.BBO", "XnysBbo">>, <<"XNYS.TRADES", "XnysTrades">>,
    <<"XNAS.QBBO", "XnasQbbo">>
  >>
DatasetFromString_2 ==
  <<
    <<"XNAS.NLS", "XnasNls">>, <<"IFEU.IMPACT", "IfeuImpact">>,
    <<"NDEX.IMPACT", "NdexImpact">>, <<"EQUS.ALL", "EqusAll">>,
    <<"XNAS.BASIC", "XnasBasic">>, <<"EQUS.SUMMARY", "EqusSummary">>,
    <<"XCIS.TRADESBBO", "XcisTradesbbo">>, <<"XNYS.TRADESBBO", "XnysTradesbbo">>,
    <<"EQUS.MINI", "EqusMini">>, <<"IFUS.IMPACT", "IfusImpact">>,
    <<"IFLL.IMPACT", "IfllImpact">>, <<"XEUR.EOBI", "XeurEobi">>,
    <<"XEEE.EOBI", "XeeeEobi">>, <<"XCBF.PITCH", "XcbfPitch">>,
    <<"OCEA.MEMOIR", "OceaMemoir">>, <<"MAIN.CGIF", "MainCgif">>, <<"EQUS.SIP", "EqusSip">>,
    <<"MSCI.CGIF", "MsciCgif">>, <<"FTSE.CGIF", "FtseCgif">>, <<"INAV.CGIF", "InavCgif">>,
    <<"MSTAR.CGIF", "MstarCgif">>, <<"CCCY.CGIF", "CccyCgif">>, <<"CGI.CGIF", "CgiCgif">>,
    <<"XTKS.FLEX", "XtksFlex">>, <<"XTKT.ITCH", "XtktItch">>, <<"XOSE.ITCH", "XoseItch">>
  >>
DatasetFromString == DatasetFromString_1 \o DatasetFromString_2
PublisherFromString_1 ==
  <<
    <<"GLBX.MDP3.GLBX", "GlbxMdp3Glbx">>, <<"XNAS.ITCH.XNAS", "XnasItchXnas">>,
    <<"XBOS.ITCH.XBOS", "XbosItchXbos">>, <<"XPSX.ITCH.XPSX", "XpsxItchXpsx">>,
    <<"BATS.PITCH.BATS", "BatsPitchBats">>, <<"BATY.PITCH.BATY", "BatyPitchBaty">>,
    <<"EDGA.PITCH.EDGA", "EdgaPitchEdga">>, <<"EDGX.PITCH.EDGX", "EdgxPitchEdgx">>,
    <<"XNYS.PILLAR.XNYS", "XnysPillarXnys">>, <<"XCIS.PILLAR.XCIS", "XcisPillarXcis">>,
    <<"XASE.PILLAR.XASE", "XasePillarXase">>, <<"XCHI.PILLAR.XCHI", "XchiPillarXchi">>,
    <<"XCIS.BBO.XCIS", "XcisBboXcis">>, <<"XCIS.TRADES.XCIS", "XcisTradesXcis">>,
    <<"MEMX.MEMOIR.MEMX", "MemxMemoirMemx">>, <<"EPRL.DOM.EPRL", "EprlDomEprl">>,
    <<"XNAS.NLS.FINN", "XnasNlsFinn">>, <<"XNAS.NLS.FINC", "XnasNlsFinc">>,
    <<"XNYS.TRADES.FINY", "XnysTradesFiny">>, <<"OPRA.PILLAR.AMXO", "OpraPillarAmxo">>,
    <<"OPRA.PILLAR.XBOX", "OpraPillarXbox">>, <<"OPRA.PILLAR.XCBO", "OpraPillarXcbo">>,
    <<"OPRA.PILLAR.EMLD", "OpraPillarEmld">>, <<"OPRA.PILLAR.EDGO", "OpraPillarEdgo">>,
    <<"OPRA.PILLAR.GMNI", "OpraPillarGmni">>, <<"OPRA.PILLAR.XISX", "OpraPillarXisx">>,
    <<"OPRA.PILLAR.MCRY", "OpraPillarMcry">>, <<"OPRA.PILLAR.XMIO", "OpraPillarXmio">>,
    <<"OPRA.PILLAR.ARCO", "OpraPillarArco">>, <<"OPRA.PILLAR.OPRA", "OpraPillarOpra">>,
    <<"OPRA.PILLAR.MPRL", "OpraPillarMprl">>, <<"OPRA.PILLAR.XNDQ", "OpraPillarXndq">>,
    <<"OPRA.PILLAR.XBXO", "OpraPillarXbxo">>, <<"OPRA.PILLAR.C2OX", "OpraPillarC2Ox">>,
    <<"OPRA.PILLAR.XPHL", "OpraPillarXphl">>, <<"OPRA.PILLAR.BATO", "OpraPillarBato">>,
    <<"OPRA.PILLAR.MXOP", "OpraPillarMxop">>, <<"IEXG.TOPS.IEXG", "IexgTopsIexg">>,
    <<"DBEQ.BASIC.XCHI", "DbeqBasicXchi">>, <<"DBEQ.BASIC.XCIS", "DbeqBasicXcis">>,
    <<"DBEQ.BASIC.IEXG", "DbeqBasicIexg">>, <<"DBEQ.BASIC.EPRL", "DbeqBasicEprl">>,
    <<"ARCX.PILLAR.ARCX", "ArcxPillarArcx">>, <<"XNYS.BBO.XNYS", "XnysBboXnys">>,
    <<"XNYS.TRADES.XNYS", "XnysTradesXnys">>, <<"XNAS.QBBO.XNAS", "XnasQbboXnas">>,
    <<"XNAS.NLS.XNAS", "XnasNlsXnas">>, <<"EQUS.PLUS.XCHI", "EqusPlusXchi">>
  >>
PublisherFromString_2 ==
  <<
    <<"EQUS.PLUS.XCIS", "EqusPlusXcis">>, <<"EQUS.PLUS.IEXG", "EqusPlusIexg">>,
    <<"EQUS.PLUS.EPRL", "EqusPlusEprl">>, <<"EQUS.PLUS.XNAS", "EqusPlusXnas">>,
    <<"EQUS.PLUS.XNYS", "EqusPlusXnys">>, <<"EQUS.PLUS.FINN", "EqusPlusFinn">>,
    <<"EQUS.PLUS.FINY", "EqusPlusFiny">>, <<"EQUS.PLUS.FINC", "EqusPlusFinc">>,
    <<"IFEU.IMPACT.IFEU", "IfeuImpactIfeu">>, <<"NDEX.IMPACT.NDEX", "NdexImpactNdex">>,
    <<"DBEQ.BASIC.DBEQ", "DbeqBasicDbeq">>, <<"EQUS.PLUS.EQUS", "EqusPlusEqus">>,
    <<"OPRA.PILLAR.SPHR", "OpraPillarSphr">>, <<"EQUS.ALL.XCHI", "EqusAllXchi">>,
    <<"EQUS.ALL.XCIS", "EqusAllXcis">>, <<"EQUS.ALL.IEXG", "EqusAllIexg">>,
    <<"EQUS.ALL.EPRL", "EqusAllEprl">>, <<"EQUS.ALL.XNAS", "EqusAllXnas">>,
    <<"EQUS.ALL.XNYS", "EqusAllXnys">>, <<"EQUS.ALL.FINN", "EqusAllFinn">>,
    <<"EQUS.ALL.FINY", "EqusAllFiny">>, <<"EQUS.ALL.FINC", "EqusAllFinc">>,
    <<"EQUS.ALL.BATS", "EqusAllBats">>, <<"EQUS.ALL.BATY", "EqusAllBaty">>,
    <<"EQUS.ALL.EDGA", "EqusAllEdga">>, <<"EQUS.ALL.EDGX", "EqusAllEdgx">>,
    <<"EQUS.ALL.XBOS", "EqusAllXbos">>, <<"EQUS.ALL.XPSX", "EqusAllXpsx">>,
    <<"EQUS.ALL.MEMX", "EqusAllMemx">>, <<"EQUS.ALL.XASE", "EqusAllXase">>,
    <<"EQUS.ALL.ARCX", "EqusAllArcx">>, <<"EQUS.ALL.LTSE", "EqusAllLtse">>,
    <<"XNAS.BASIC.XNAS", "XnasBasicXnas">>, <<"XNAS.BASIC.FINN", "XnasBasicFinn">>,
    <<"XNAS.BASIC.FINC", "XnasBasicFinc">>, <<"IFEU.IMPACT.XOFF", "IfeuImpactXoff">>,
    <<"NDEX.IMPACT.XOFF", "NdexImpactXoff">>, <<"XNAS.NLS.XBOS", "XnasNlsXbos">>,
    <<"XNAS.NLS.XPSX", "XnasNlsXpsx">>, <<"XNAS.BASIC.XBOS", "XnasBasicXbos">>,
    <<"XNAS.BASIC.XPSX", "XnasBasicXpsx">>, <<"EQUS.SUMMARY.EQUS", "EqusSummaryEqus">>,
    <<"XCIS.TRADESBBO.XCIS", "XcisTradesbboXcis">>,
    <<"XNYS.TRADESBBO.XNYS", "XnysTradesbboXnys">>, <<"XNAS.BASIC.EQUS", "XnasBasicEqus">>,
    <<"EQUS.ALL.EQUS", "EqusAllEqus">>, <<"EQUS.MINI.EQUS", "EqusMiniEqus">>,
    <<"XNYS.TRADES.EQUS", "XnysTradesEqus">>, <<"IFUS.IMPACT.IFUS", "IfusImpactIfus">>
  >>
PublisherFromString_3 ==
  <<
    <<"IFUS.IMPACT.XOFF", "IfusImpactXoff">>, <<"IFLL.IMPACT.IFLL", "IfllImpactIfll">>,
    <<"IFLL.IMPACT.XOFF", "IfllImpactXoff">>, <<"XEUR.EOBI.XEUR", "XeurEobiXeur">>,
    <<"XEEE.EOBI.XEEE", "XeeeEobiXeee">>, <<"XEUR.EOBI.XOFF", "XeurEobiXoff">>,
    <<"XEEE.EOBI.XOFF", "XeeeEobiXoff">>, <<"XCBF.PITCH.XCBF", "XcbfPitchXcbf">>,
    <<"XCBF.PITCH.XOFF", "XcbfPitchXoff">>, <<"OCEA.MEMOIR.OCEA", "OceaMemoirOcea">>,
    <<"OPRA.PILLAR.MXTO", "OpraPillarMxto">>, <<"OPRA.PILLAR.IEXO", "OpraPillarIexo">>,
    <<"MAIN.CGIF.MAIN", "MainCgifMain">>, <<"EQUS.SIP.XASE", "EqusSipXase">>,
    <<"EQUS.SIP.XBOS", "EqusSipXbos">>, <<"EQUS.SIP.XCIS", "EqusSipXcis">>,
    <<"EQUS.SIP.TXSE", "EqusSipTxse">>, <<"EQUS.SIP.24EQ", "EqusSip24Eq">>,
    <<"EQUS.SIP.EPRL", "EqusSipEprl">>, <<"EQUS.SIP.XISX", "EqusSipXisx">>,
    <<"EQUS.SIP.EDGA", "EqusSipEdga">>, <<"EQUS.SIP.EDGX", "EqusSipEdgx">>,
    <<"EQUS.SIP.LTSE", "EqusSipLtse">>, <<"EQUS.SIP.XCHI", "EqusSipXchi">>,
    <<"EQUS.SIP.XNYS", "EqusSipXnys">>, <<"EQUS.SIP.ARCX", "EqusSipArcx">>,
    <<"EQUS.SIP.XNAS", "EqusSipXnas">>, <<"EQUS.SIP.MEMX", "EqusSipMemx">>,
    <<"EQUS.SIP.IEXG", "EqusSipIexg">>, <<"EQUS.SIP.XPSX", "EqusSipXpsx">>,
    <<"EQUS.SIP.BATY", "EqusSipBaty">>, <<"EQUS.SIP.BATS", "EqusSipBats">>,
    <<"EQUS.SIP.FINN", "EqusSipFinn">>, <<"EQUS.SIP.FINY", "EqusSipFiny">>,
    <<"EQUS.SIP.FINC", "EqusSipFinc">>, <<"EQUS.SIP.XADF", "EqusSipXadf">>,
    <<"EQUS.SIP.CTA", "EqusSipCta">>, <<"EQUS.SIP.UTP", "EqusSipUtp">>,
    <<"MSCI.CGIF.MSCI", "MsciCgifMsci">>, <<"FTSE.CGIF.FTSE", "FtseCgifFtse">>,
    <<"INAV.CGIF.INAV", "InavCgifInav">>, <<"MSTAR.CGIF.MSTAR", "MstarCgifMstar">>,
    <<"CCCY.CGIF.CCCY", "CccyCgifCccy">>, <<"CGI.CGIF.CGI", "CgiCgifCgi">>,
    <<"MAIN.CGIF.DEF", "MainCgifDef">>, <<"XTKS.FLEX.XTKS", "XtksFlexXtks">>,
    <<"XTKT.ITCH.XTKT", "XtktItchXtkt">>, <<"XOSE.ITCH.XOSE", "XoseItchXose">>
  >>

PublisherFromString == PublisherFromString_1 \o PublisherFromString_2 \o PublisherFromString_3
-----------------------------------------------------------------------------
(* PublisherVenue and PublisherDataset.                                    *)
PublisherVenue_1 ==
  [
    GlbxMdp3Glbx |-> "Glbx", XnasItchXnas |-> "Xnas", XbosItchXbos |-> "Xbos",
    XpsxItchXpsx |-> "Xpsx", BatsPitchBats |-> "Bats", BatyPitchBaty |-> "Baty",
    EdgaPitchEdga |-> "Edga", EdgxPitchEdgx |-> "Edgx", XnysPillarXnys |-> "Xnys",
    XcisPillarXcis |-> "Xcis", XasePillarXase |-> "Xase", XchiPillarXchi |-> "Xchi",
    XcisBboXcis |-> "Xcis", XcisTradesXcis |-> "Xcis", MemxMemoirMemx |-> "Memx",
    EprlDomEprl |-> "Eprl", XnasNlsFinn |-> "Finn", XnasNlsFinc |-> "Finc",
    XnysTradesFiny |-> "Finy", OpraPillarAmxo |-> "Amxo", OpraPillarXbox |-> "Xbox",
    OpraPillarXcbo |-> "Xcbo", OpraPillarEmld |-> "Emld", OpraPillarEdgo |-> "Edgo",
    OpraPillarGmni |-> "Gmni", OpraPillarXisx |-> "Xisx", OpraPillarMcry |-> "Mcry",
    OpraPillarXmio |-> "Xmio", OpraPillarArco |-> "Arco", OpraPillarOpra |-> "Opra",
    OpraPillarMprl |-> "Mprl", OpraPillarXndq |-> "Xndq", OpraPillarXbxo |-> "Xbxo",
    OpraPillarC2Ox |-> "C2Ox", OpraPillarXphl |-> "Xphl", OpraPillarBato |-> "Bato",
    OpraPillarMxop |-> "Mxop", IexgTopsIexg |-> "Iexg", DbeqBasicXchi |-> "Xchi",
    DbeqBasicXcis |-> "Xcis", DbeqBasicIexg |-> "Iexg", DbeqBasicEprl |-> "Eprl",
    ArcxPillarArcx |-> "Arcx", XnysBboXnys |-> "Xnys", XnysTradesXnys |-> "Xnys",
    XnasQbboXnas |-> "Xnas", XnasNlsXnas |-> "Xnas", EqusPlusXchi |-> "Xchi"
  ]
PublisherVenue_2 ==
  [
    EqusPlusXcis |-> "Xcis", EqusPlusIexg |-> "Iexg", EqusPlusEprl |-> "Eprl",
    EqusPlusXnas |-> "Xnas", EqusPlusXnys |-> "Xnys", EqusPlusFinn |-> "Finn",
    EqusPlusFiny |-> "Finy", EqusPlusFinc |-> "Finc", IfeuImpactIfeu |-> "Ifeu",
    NdexImpactNdex |-> "Ndex", DbeqBasicDbeq |-> "Dbeq", EqusPlusEqus |-> "Equs",
    OpraPillarSphr |-> "Sphr", EqusAllXchi |-> "Xchi", EqusAllXcis |-> "Xcis",
    EqusAllIexg |-> "Iexg", EqusAllEprl |-> "Eprl", EqusAllXnas |-> "Xnas",
    EqusAllXnys |-> "Xnys", EqusAllFinn |-> "Finn", EqusAllFiny |-> "Finy",
    EqusAllFinc |-> "Finc", EqusAllBats |-> "Bats", EqusAllBaty |-> "Baty",
    EqusAllEdga |-> "Edga", EqusAllEdgx |-> "Edgx", EqusAllXbos |-> "Xbos",
    EqusAllXpsx |-> "Xpsx", EqusAllMemx |-> "Memx", EqusAllXase |-> "Xase",
    EqusAllArcx |-> "Arcx", EqusAllLtse |-> "Ltse", XnasBasicXnas |-> "Xnas",
    XnasBasicFinn |-> "Finn", XnasBasicFinc |-> "Finc", IfeuImpactXoff |-> "Xoff",
    NdexImpactXoff |-> "Xoff", XnasNlsXbos |-> "Xbos", XnasNlsXpsx |-> "Xpsx",
    XnasBasicXbos |-> "Xbos", XnasBasicXpsx |-> "Xpsx", EqusSummaryEqus |-> "Equs",
    XcisTradesbboXcis |-> "Xcis", XnysTradesbboXnys |-> "Xnys", XnasBasicEqus |-> "Equs",
    EqusAllEqus |-> "Equs", EqusMiniEqus |-> "Equs", XnysTradesEqus |-> "Equs",
    IfusImpactIfus |-> "Ifus"
  ]
PublisherVenue_3 ==
  [
    IfusImpactXoff |-> "Xoff", IfllImpactIfll |-> "Ifll", IfllImpactXoff |-> "Xoff",
    XeurEobiXeur |-> "Xeur", XeeeEobiXeee |-> "Xeee", XeurEobiXoff |-> "Xoff",
    XeeeEobiXoff |-> "Xoff", XcbfPitchXcbf |-> "Xcbf", XcbfPitchXoff |-> "Xoff",
    OceaMemoirOcea |-> "Ocea", OpraPillarMxto |-> "Mxto", OpraPillarIexo |-> "Iexo",
    MainCgifMain |-> "Main", EqusSipXase |-> "Xase", EqusSipXbos |-> "Xbos",
    EqusSipXcis |-> "Xcis", EqusSipTxse |-> "Txse", EqusSip24Eq |-> "_24Eq",
    EqusSipEprl |-> "Eprl", EqusSipXisx |-> "Xisx", EqusSipEdga |-> "Edga",
    EqusSipEdgx |-> "Edgx", EqusSipLtse |-> "Ltse", EqusSipXchi |-> "Xchi",
    EqusSipXnys |-> "Xnys", EqusSipArcx |-> "Arcx", EqusSipXnas |-> "Xnas",
    EqusSipMemx |-> "Memx", EqusSipIexg |-> "Iexg", EqusSipXpsx |-> "Xpsx",
    EqusSipBaty |-> "Baty", EqusSipBats |-> "Bats", EqusSipFinn |-> "Finn",
    EqusSipFiny |-> "Finy", EqusSipFinc |-> "Finc", EqusSipXadf |-> "Xadf",
    EqusSipCta |-> "Cta", EqusSipUtp |-> "Utp", MsciCgifMsci |-> "Msci",
    FtseCgifFtse |-> "Ftse", InavCgifInav |-> "Inav", MstarCgifMstar |-> "Mstar",
    CccyCgifCccy |-> "Cccy", CgiCgifCgi |-> "Cgi", MainCgifDef |-> "Def",
    XtksFlexXtks |-> "Xtks", XtktItchXtkt |-> "Xtkt", XoseItchXose |-> "Xose"
  ]

PublisherVenue == PublisherVenue_1 @@ PublisherVenue_2 @@ PublisherVenue_3
PublisherDataset_1 ==
  [
    GlbxMdp3Glbx |-> "GlbxMdp3", XnasItchXnas |-> "XnasItch", XbosItchXbos |-> "XbosItch",
    XpsxItchXpsx |-> "XpsxItch", BatsPitchBats |-> "BatsPitch",
    BatyPitchBaty |-> "BatyPitch", EdgaPitchEdga |-> "EdgaPitch",
    EdgxPitchEdgx |-> "EdgxPitch", XnysPillarXnys |-> "XnysPillar",
    XcisPillarXcis |-> "XcisPillar", XasePillarXase |-> "XasePillar",
    XchiPillarXchi |-> "XchiPillar", XcisBboXcis |-> "XcisBbo",
    XcisTradesXcis |-> "XcisTrades", MemxMemoirMemx |-> "MemxMemoir",
    EprlDomEprl |-> "EprlDom", XnasNlsFinn |-> "XnasNls", XnasNlsFinc |-> "XnasNls",
    XnysTradesFiny |-> "XnysTrades", OpraPillarAmxo |-> "OpraPillar",
    OpraPillarXbox |-> "OpraPillar", OpraPillarXcbo |-> "OpraPillar",
    OpraPillarEmld |-> "OpraPillar", OpraPillarEdgo |-> "OpraPillar",
    OpraPillarGmni |-> "OpraPillar", OpraPillarXisx |-> "OpraPillar",
    OpraPillarMcry |-> "OpraPillar", OpraPillarXmio |-> "OpraPillar",
    OpraPillarArco |-> "OpraPillar", OpraPillarOpra |-> "OpraPillar",
    OpraPillarMprl |-> "OpraPillar", OpraPillarXndq |-> "OpraPillar",
    OpraPillarXbxo |-> "OpraPillar", OpraPillarC2Ox |-> "OpraPillar",
    OpraPillarXphl |-> "OpraPillar", OpraPillarBato |-> "OpraPillar",
    OpraPillarMxop |-> "OpraPillar", IexgTopsIexg |-> "IexgTops",
    DbeqBasicXchi |-> "DbeqBasic", DbeqBasicXcis |-> "DbeqBasic",
    DbeqBasicIexg |-> "DbeqBasic", DbeqBasicEprl |-> "DbeqBasic",
    ArcxPillarArcx |-> "ArcxPillar", XnysBboXnys |-> "XnysBbo",
    XnysTradesXnys |-> "XnysTrades", XnasQbboXnas |-> "XnasQbbo", XnasNlsXnas |-> "XnasNls",
    EqusPlusXchi |-> "EqusPlus"
  ]
PublisherDataset_2 ==
  [
    EqusPlusXcis |-> "EqusPlus", EqusPlusIexg |-> "EqusPlus", EqusPlusEprl |-> "EqusPlus",
    EqusPlusXnas |-> "EqusPlus", EqusPlusXnys |-> "EqusPlus", EqusPlusFinn |-> "EqusPlus",
    EqusPlusFiny |-> "EqusPlus", EqusPlusFinc |-> "EqusPlus",
    IfeuImpactIfeu |-> "IfeuImpact", NdexImpactNdex |-> "NdexImpact",
    DbeqBasicDbeq |-> "DbeqBasic", EqusPlusEqus |-> "EqusPlus",
    OpraPillarSphr |-> "OpraPillar", EqusAllXchi |-> "EqusAll", EqusAllXcis |-> "EqusAll",
    EqusAllIexg |-> "EqusAll", EqusAllEprl |-> "EqusAll", EqusAllXnas |-> "EqusAll",
    EqusAllXnys |-> "EqusAll", EqusAllFinn |-> "EqusAll", EqusAllFiny |-> "EqusAll",
    EqusAllFinc |-> "EqusAll", EqusAllBats |-> "EqusAll", EqusAllBaty |-> "EqusAll",
    EqusAllEdga |-> "EqusAll", EqusAllEdgx |-> "EqusAll", EqusAllXbos |-> "EqusAll",
    EqusAllXpsx |-> "EqusAll", EqusAllMemx |-> "EqusAll", EqusAllXase |-> "EqusAll",
    EqusAllArcx |-> "EqusAll", EqusAllLtse |-> "EqusAll", XnasBasicXnas |-> "XnasBasic",
    XnasBasicFinn |-> "XnasBasic", XnasBasicFinc |-> "XnasBasic",
    IfeuImpactXoff |-> "IfeuImpact", NdexImpactXoff |-> "NdexImpact",
    XnasNlsXbos |-> "XnasNls", XnasNlsXpsx |-> "XnasNls", XnasBasicXbos |-> "XnasBasic",
    XnasBasicXpsx |-> "XnasBasic", EqusSummaryEqus |-> "EqusSummary",
    XcisTradesbboXcis |-> "XcisTradesbbo", XnysTradesbboXnys |-> "XnysTradesbbo",
    XnasBasicEqus |-> "XnasBasic", EqusAllEqus |-> "EqusAll", EqusMiniEqus |-> "EqusMini",
    XnysTradesEqus |-> "XnysTrades", IfusImpactIfus |-> "IfusImpact"
  ]
PublisherDataset_3 ==
  [
    IfusImpactXoff |-> "IfusImpact", IfllImpactIfll |-> "IfllImpact",
    IfllImpactXoff |-> "IfllImpact", XeurEobiXeur |-> "XeurEobi",
    XeeeEobiXeee |-> "XeeeEobi", XeurEobiXoff |-> "XeurEobi", XeeeEobiXoff |-> "XeeeEobi",
    XcbfPitchXcbf |-> "XcbfPitch", XcbfPitchXoff |-> "XcbfPitch",
    OceaMemoirOcea |-> "OceaMemoir", OpraPillarMxto |-> "OpraPillar",
    OpraPillarIexo |-> "OpraPillar", MainCgifMain |-> "MainCgif", EqusSipXase |-> "EqusSip",
    EqusSipXbos |-> "EqusSip", EqusSipXcis |-> "EqusSip", EqusSipTxse |-> "EqusSip",
    EqusSip24Eq |-> "EqusSip", EqusSipEprl |-> "EqusSip", EqusSipXisx |-> "EqusSip",
    EqusSipEdga |-> "EqusSip", EqusSipEdgx |-> "EqusSip", EqusSipLtse |-> "EqusSip",
    EqusSipXchi |-> "EqusSip", EqusSipXnys |-> "EqusSip", EqusSipArcx |-> "EqusSip",
    EqusSipXnas |-> "EqusSip", EqusSipMemx |-> "EqusSip", EqusSipIexg |-> "EqusSip",
    EqusSipXpsx |-> "EqusSip", EqusSipBaty |-> "EqusSip", EqusSipBats |-> "EqusSip",
    EqusSipFinn |-> "EqusSip", EqusSipFiny |-> "EqusSip", EqusSipFinc |-> "EqusSip",
    EqusSipXadf |-> "EqusSip", EqusSipCta |-> "EqusSip", EqusSipUtp |-> "EqusSip",
    MsciCgifMsci |-> "MsciCgif", FtseCgifFtse |-> "FtseCgif", InavCgifInav |-> "InavCgif",
    MstarCgifMstar |-> "MstarCgif", CccyCgifCccy |-> "CccyCgif", CgiCgifCgi |-> "CgiCgif",
    MainCgifDef |-> "MainCgif", XtksFlexXtks |-> "XtksFlex", XtktItchXtkt |-> "XtktItch",
    XoseItchXose |-> "XoseItch"
  ]
PublisherDataset == PublisherDataset_1 @@ PublisherDataset_2 @@ PublisherDataset_3
=============================================================================
