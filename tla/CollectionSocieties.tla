------------------------- MODULE CollectionSocieties -------------------------
(***************************************************************************)
(* collection_societies.rs: the static register of collection societies    *)
(* and the routing of a royalty to them, with the handlers of main.rs.     *)
(*                                                                         *)
(* A society is its id, the territories it serves and the rights it        *)
(* administers; names, web sites, currencies and payment networks are      *)
(* copied into the answers and decide nothing.  Case is folded: the code   *)
(* compares ids and territories without it.                                *)
(***************************************************************************)
EXTENDS Naturals, FiniteSets

\* RightType.
Rights == {"Performance", "Mechanical", "Neighbouring", "Reprographic",
           "PrivateCopying", "Synchronisation", "AllRights"}

Soc(id, territories, rights) == [id |-> id, territories |-> territories, rights |-> rights]

P   == {"Performance"}
M   == {"Mechanical"}
N   == {"Neighbouring"}
A   == {"AllRights"}
PM  == P \cup M
PN  == P \cup N
PMN == PM \cup N
NC  == N \cup {"PrivateCopying"}
RM  == M \cup {"Reprographic"}

-----------------------------------------------------------------------------
(* REGISTRY, region by region.                                             *)

NorthAmerica ==
  {Soc("ASCAP", {"US", "VI", "PR", "GU", "MP"}, P), Soc("BMI", {"US", "VI", "PR", "GU"}, P),
   Soc("SESAC", {"US"}, P), Soc("GMR", {"US"}, P), Soc("SOUNDEXCHANGE", {"US"}, N),
   Soc("MLC", {"US"}, M), Soc("SOCAN", {"CA"}, PM), Soc("CMRRA", {"CA"}, M),
   Soc("RESOUND", {"CA"}, N),
   Soc("CONNECT", {"CA"}, NC), Soc("SODRAC", {"CA"}, RM)}

LatinAmerica1 ==
  {Soc("ECAD", {"BR"}, P), Soc("ABRAMUS", {"BR"}, PM), Soc("SADAIC", {"AR"}, PM),
   Soc("CAPIF", {"AR"}, N), Soc("SCD", {"CL"}, PM), Soc("SAYCO", {"CO"}, PM),
   Soc("APDAYC", {"PE"}, PM),
   Soc("SACM", {"MX"}, PM), Soc("ACAM", {"CR"}, PM), Soc("SOBODAYCOM", {"BO"}, PM),
   Soc("SACIM", {"SV"}, PM)}

LatinAmerica2 ==
  {Soc("APA_PY", {"PY"}, PM), Soc("AGADU", {"UY"}, PM), Soc("SGACEDOM", {"DO"}, PM),
   Soc("NICAUTOR", {"NI"}, PM), Soc("GEDAR", {"GT"}, PM), Soc("APDIF_MX", {"MX"}, N),
   Soc("SGH", {"HN"}, PM), Soc("BGDA_PA", {"PA"}, PM), Soc("BUBEDRA", {"BJ"}, PMN)}

Europe1 ==
  {Soc("PRS", {"GB", "IE"}, PM), Soc("PPL", {"GB"}, N), Soc("GEMA", {"DE", "AT"}, PM),
   Soc("GVL", {"DE"}, N), Soc("SACEM", {"FR", "MC", "LU", "MA", "TN", "DZ"}, PM),
   Soc("SCPP", {"FR"}, N), Soc("SPPF", {"FR"}, N), Soc("SIAE", {"IT", "SM", "VA"}, PM),
   Soc("SGAE", {"ES"}, PM), Soc("AGEDI", {"ES"}, N), Soc("BUMA_STEMRA", {"NL"}, PM)}

Europe2 ==
  {Soc("SENA", {"NL"}, N), Soc("SABAM", {"BE"}, PMN), Soc("SUISA", {"CH", "LI"}, PM),
   Soc("TONO", {"NO"}, PMN), Soc("STIM", {"SE"}, PM), Soc("SAMI", {"SE"}, N),
   Soc("TEOSTO", {"FI"}, PM),
   Soc("GRAMEX_FI", {"FI"}, N), Soc("KODA", {"DK", "GL", "FO"}, PM), Soc("GRAMEX_DK", {"DK"}, N),
   Soc("IMRO", {"IE"}, P)}

Europe3 ==
  {Soc("AKM", {"AT"}, PM), Soc("LSG", {"AT"}, N), Soc("ARTISJUS", {"HU"}, PM), Soc("ZAIKS", {"PL"}, PM),
   Soc("OSA", {"CZ"}, PM), Soc("SOZA", {"SK"}, PM), Soc("LATGA", {"LT"}, PM),
   Soc("AKKA_LAA", {"LV"}, PM), Soc("EAU", {"EE"}, PM), Soc("GESTOR", {"PT"}, N),
   Soc("SPA_PT", {"PT"}, PM)}

Europe4 ==
  {Soc("HDS_ZAMP", {"HR"}, PM), Soc("SOKOJ", {"RS"}, PM), Soc("ZAMP_MK", {"MK"}, PM),
   Soc("MUSICAUTOR", {"BG"}, PM), Soc("UCMR_ADA", {"RO"}, PM), Soc("AEI_GR", {"GR", "CY"}, PM),
   Soc("MESAM", {"TR"}, P), Soc("MSG_TR", {"TR"}, M), Soc("RAO", {"RU"}, PM), Soc("UACRR", {"UA"}, PM),
   Soc("BAZA", {"BA"}, PM)}

Europe5 ==
  {Soc("ERA_AL", {"AL"}, PM)}

AsiaPacific1 ==
  {Soc("JASRAC", {"JP"}, PM), Soc("NEXTONE", {"JP"}, PM), Soc("JRC", {"JP"}, N),
   Soc("KOMCA", {"KR"}, PM), Soc("SFP_KR", {"KR"}, N), Soc("CASH", {"HK"}, PM),
   Soc("MUST_TW", {"TW"}, PM), Soc("MCSC", {"CN"}, PM), Soc("IPRS", {"IN"}, PM), Soc("PPM", {"MY"}, PM),
   Soc("COMPASS", {"SG"}, PM)}

AsiaPacific2 ==
  {Soc("FILSCAP", {"PH"}, PM), Soc("MCT_TH", {"TH"}, PM), Soc("VCPMC", {"VN"}, PM),
   Soc("KCI", {"ID"}, PM), Soc("APRA_AMCOS", {"AU", "NZ", "PG", "FJ", "TO", "WS", "VU"}, PM),
   Soc("PPCA", {"AU"}, N), Soc("RMNZ", {"NZ"}, N)}

Africa1 ==
  {Soc("SAMRO", {"ZA", "BW", "LS", "SZ", "NA"}, PM), Soc("RISA", {"ZA"}, N), Soc("COSON", {"NG"}, PMN),
   Soc("GHAMRO", {"GH"}, PMN), Soc("MCSK", {"KE"}, PM), Soc("COSOMA", {"MW"}, PMN),
   Soc("COSOZA", {"TZ"}, PM), Soc("ZACRAS", {"ZM"}, PM), Soc("ZIMURA", {"ZW"}, PM),
   Soc("BURIDA", {"CI"}, PMN), Soc("BGDA", {"GN"}, PM)}

Africa2 ==
  {Soc("BUMDA", {"ML"}, PMN), Soc("SOCINADA", {"CM"}, PM), Soc("BCDA", {"BW"}, PN),
   Soc("MASA", {"MZ"}, PM), Soc("BNDA", {"NE"}, PMN), Soc("BSDA_SN", {"SN"}, PMN),
   Soc("ONDA", {"DZ"}, PMN), Soc("BMDA", {"MA"}, PMN), Soc("OTPDA", {"TG"}, PM),
   Soc("BSDA_BF", {"BF"}, PMN), Soc("SONECA", {"CD"}, PM)}

MiddleEast ==
  {Soc("ACUM", {"IL"}, PM), Soc("SACERAU", {"EG"}, PM), Soc("SANAR", {"SA"}, PM),
   Soc("ADA_UAE", {"AE"}, PM), Soc("NDA_JO", {"JO"}, PM), Soc("DALC_LB", {"LB"}, PM),
   Soc("QATFA", {"QA"}, P), Soc("KWCA", {"KW"}, PM)}

UmbrellaBodies ==
  {Soc("CISAC", {}, A), Soc("BIEM", {}, M), Soc("IFPI", {}, N), Soc("ICMP", {}, PM), Soc("DDEX", {}, A),
   Soc("ISWC_IA", {}, A)}

-----------------------------------------------------------------------------
(* Fault: a slip in the code below, for mutation runs *)

REGISTRY_ARegionForgotten ==
  UNION {NorthAmerica, LatinAmerica1, LatinAmerica2, Europe1, Europe2, Europe3, Europe4, Europe5,
         AsiaPacific1, AsiaPacific2, Africa1, MiddleEast, UmbrellaBodies}

-----------------------------------------------------------------------------

REGISTRY ==
  UNION {NorthAmerica, LatinAmerica1, LatinAmerica2, Europe1, Europe2, Europe3, Europe4, Europe5,
         AsiaPacific1, AsiaPacific2, Africa1, Africa2, MiddleEast, UmbrellaBodies}

Territories == UNION {s.territories : s \in REGISTRY}

-----------------------------------------------------------------------------
(* The look-ups.                                                           *)

SocietyById(id) == {s \in REGISTRY : s.id = id}

SocietiesForTerritory(t) == {s \in REGISTRY : t \in s.territories}

SocietiesForTerritoryAndRight(t, right) ==
  {s \in REGISTRY : t \in s.territories /\ right \in s.rights}

\* One instruction per society, each for the whole amount.
RouteRoyalty(t, right, amount) ==
  {[society |-> s.id, territory |-> t, right |-> right, amount |-> amount] :
     s \in SocietiesForTerritoryAndRight(t, right)}

\* How many societies serve each territory.
GlobalRoutingSummary == [t \in Territories |-> Cardinality(SocietiesForTerritory(t))]

-----------------------------------------------------------------------------
(* The handlers.  A malformed territory or id stands for every one that    *)
(* the format checks refuse; amounts are in units of the bound's tenth.    *)

CONSTANT Malformed

MaxAmount == 10     \* 1,000,000 USD

Refused(why) == [status |-> why, societies |-> {}]

GetById(id) ==
  CASE id = Malformed       -> Refused("unprocessable")
    [] SocietyById(id) = {} -> Refused("not_found")
    [] OTHER                -> [status |-> "ok", societies |-> SocietyById(id)]

GetByTerritory(t) ==
  IF t = Malformed THEN Refused("unprocessable")
  ELSE [status |-> "ok", societies |-> SocietiesForTerritory(t)]

PostRoute(t, right, amount) ==
  IF t = Malformed \/ amount \notin 0..MaxAmount \/ right \notin Rights
  THEN Refused("unprocessable")
  ELSE [status |-> "ok", societies |-> RouteRoyalty(t, right, amount)]

List == [status |-> "ok", societies |-> REGISTRY]
=============================================================================
