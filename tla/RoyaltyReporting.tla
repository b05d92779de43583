-------------------------- MODULE RoyaltyReporting --------------------------
(***************************************************************************)
(* royalty_reporting.rs and xslt.rs: a batch of works written as a CWR     *)
(* file, as the tables and envelopes that single societies want, and as    *)
(* the XML the style sheets read.                                          *)
(*                                                                         *)
(* A work is what decides how many records it gets and what they refer to: *)
(* writers [role, ipi, society, controlled], publishers [ipi, society],    *)
(* numbers of titles and artists, whether there is a recording, society    *)
(* and territories.  Widths, titles and dates are left out.  An option     *)
(* that is absent is None, written as blanks.                              *)
(***************************************************************************)
EXTENDS Naturals, Sequences, FiniteSets, SequencesExt

CONSTANTS Sheets,    \* style sheets that are in XSLT_DIR and well-formed
          IsoCodes   \* of countries; the Nordic file names five of them

ASSUME IsoAssumption == {"SE", "NO", "DK", "FI", "IS"} \subseteq IsoCodes

None == ""

Writer == [role : STRING, ipi : STRING, society : STRING, controlled : BOOLEAN]

Publisher == [ipi : STRING, society : STRING]

TerritoryScope == {"World", "Worldwide", "Europe", "NorthAmerica", "LatinAmerica",
                   "AsiaPacific", "Africa", "MiddleEast"} \cup IsoCodes

Work == [writers : Seq(Writer), publishers : Seq(Publisher), titles : Nat, artists : Nat,
         recording : BOOLEAN, society : STRING, territories : Seq(TerritoryScope)]

\* CollectionSociety: variant, three-digit code, primary territory.  Any other name
\* of a society is Other(name).
CollectionSociety == {
  <<"Ascap", "021", "US">>, <<"Bmi", "022", "US">>, <<"Sesac", "023", "US">>,
   <<"Socan", "055", "CA">>, <<"Cmrra", "050", "CA">>, <<"SpaciemMx", "048", "MX">>,
   <<"SociedadChilena", "080", "CL">>, <<"UbcBrazil", "088", "BR">>,
   <<"EcadBrazil", "089", "BR">>, <<"AbramusBrazil", "088", "BR">>, <<"SaycoCol", "120", "CO">>,
   <<"ApaParaguay", "145", "PY">>, <<"ApdaycPeru", "150", "PE">>,
   <<"SacvenVenezuela", "155", "VE">>, <<"SpaPanama", "160", "PA">>,
   <<"AcamCostaRica", "105", "CR">>, <<"AcdamCuba", "110", "CU">>, <<"BbubedraBol", "095", "BO">>,
   <<"AgaduUruguay", "100", "UY">>, <<"PrsUk", "052", "GB">>, <<"McpsUk", "053", "GB">>,
   <<"GemaDe", "035", "DE">>, <<"SacemFr", "058", "FR">>, <<"SiaeIt", "074", "IT">>,
   <<"SgaeEs", "068", "ES">>, <<"BumaNl", "028", "NL">>, <<"StemraNl", "028", "NL">>,
   <<"SabamBe", "055", "BE">>, <<"StimSe", "077", "SE">>, <<"TonoNo", "083", "NO">>,
   <<"KodaDk", "040", "DK">>, <<"TeostoFi", "078", "FI">>, <<"StefIs", "113", "IS">>,
   <<"ImroIe", "039", "IE">>, <<"ApaAt", "009", "AT">>, <<"SuisaCh", "076", "CH">>,
   <<"SpaciemPt", "069", "PT">>, <<"ArtisjusHu", "008", "HU">>, <<"OsaCz", "085", "CZ">>,
   <<"SozaSk", "072", "SK">>, <<"ZaiksPl", "089", "PL">>, <<"EauEe", "033", "EE">>,
   <<"LatgaLt", "044", "LT">>, <<"AkkaLv", "002", "LV">>, <<"HdsZampHr", "036", "HR">>,
   <<"SokojRs", "070", "RS">>, <<"ZampMkSi", "089", "MK">>, <<"MusicautorBg", "061", "BG">>,
   <<"UcmrRo", "087", "RO">>, <<"RaoRu", "064", "RU">>, <<"UacrUa", "081", "UA">>,
   <<"JasracJp", "099", "JP">>, <<"KmaKr", "100", "KR">>, <<"CashHk", "031", "HK">>,
   <<"MustTw", "079", "TW">>, <<"McscCn", "062", "CN">>, <<"ApraNz", "006", "AU">>,
   <<"IprsIn", "038", "IN">>, <<"MctTh", "097", "TH">>, <<"MacpMy", "098", "MY">>,
   <<"PphPh", "103", "PH">>, <<"WamiId", "111", "ID">>, <<"KciId", "112", "ID">>,
   <<"CompassSg", "114", "SG">>, <<"SamroZa", "066", "ZA">>, <<"CapassoZa", "115", "ZA">>,
   <<"McskKe", "116", "KE">>, <<"KampKe", "117", "KE">>, <<"CosonNg", "118", "NG">>,
   <<"AcremasciCi", "119", "CI">>, <<"BumdaDz", "121", "DZ">>, <<"BndaBf", "122", "BF">>,
   <<"SodavSn", "123", "SN">>, <<"ArmpMa", "124", "MA">>, <<"SacerauEg", "125", "EG">>,
   <<"SacsIl", "126", "IL">>, <<"OscTn", "127", "TN">>, <<"NcacGh", "128", "GH">>}

Variants == {r[1] : r \in CollectionSociety}

\* Four codes are given to two societies and 089 to three; Other(name) is written
\* as it is, and may be any of them.
CwrCode(society) ==
  IF society \in Variants THEN (CHOOSE r \in CollectionSociety : r[1] = society)[2] ELSE society

\* Other has "XX", which is no territory.
PrimaryTerritories == {r[3] : r \in CollectionSociety}

OptCode(society) == IF society = None THEN None ELSE CwrCode(society)

\* WriterRole: a lyricist and a sub-arranger share a code.
RoleCode(role) ==
  CASE role = "Composer" -> "C"
    [] role \in {"Lyricist", "SubArranger"} -> "A"
    [] role = "ComposerLyricist" -> "CA"
    [] role = "Arranger" -> "AR"
    [] role = "Adaptor" -> "AD"
    [] role = "Translator" -> "TR"
    [] role \in {"OriginalPublisher", "Publisher"} -> "E"
    [] role = "SubPublisher" -> "SE"
    [] role = "AcquisitionAdmins" -> "AM"
    [] role = "IncomeParticipant" -> "PA"

TisCode(scope) ==
  CASE scope \in {"World", "Worldwide"} -> "2136"
    [] scope = "Europe" -> "2100"
    [] scope = "NorthAmerica" -> "2104"
    [] scope = "LatinAmerica" -> "2106"
    [] scope = "AsiaPacific" -> "2114"
    [] scope = "Africa" -> "2120"
    [] scope = "MiddleEast" -> "2122"
    [] OTHER -> scope

-----------------------------------------------------------------------------
(* Faults: single slips in the code below, for mutation runs *)

Counted_NoPwr(work) ==
  1 + Len(work.publishers) + Len(work.writers) + work.titles + work.artists
    + (IF work.recording THEN 1 ELSE 0) + Len(work.territories)

XmlWriter_OwnCode(work, w) ==
  [role |-> RoleCode(w.role), society |-> CwrCode(work.society), controlled |-> w.controlled]

-----------------------------------------------------------------------------
(* generate_cwr *)

Times(n, Rec(_)) == [j \in 1..n |-> Rec(j)]

\* A controlled writer's record is followed by one for the first publisher.
WriterRecords(i, work, j) ==
  LET w == work.writers[j]
  IN  <<[k |-> "SWR", seq |-> i, n |-> j, role |-> RoleCode(w.role),
         society |-> OptCode(w.society), controlled |-> w.controlled]>>
      \o IF w.controlled /\ work.publishers # <<>>
         THEN <<[k |-> "PWR", seq |-> i, n |-> j, ipi |-> work.publishers[1].ipi]>>
         ELSE <<>>

WorkRecords(i, work) ==
  <<[k |-> "NWR", seq |-> i]>>
  \o Times(Len(work.publishers),
           LAMBDA j : [k |-> "SPU", seq |-> i, n |-> j,
                       society |-> OptCode(work.publishers[j].society)])
  \o FlattenSeq(Times(Len(work.writers), LAMBDA j : WriterRecords(i, work, j)))
  \o Times(work.titles, LAMBDA j : [k |-> "ALT", seq |-> i])
  \o Times(work.artists, LAMBDA j : [k |-> "PER", seq |-> i])
  \o (IF work.recording THEN <<[k |-> "REC", seq |-> i]>> ELSE <<>>)
  \o Times(Len(work.territories),
           LAMBDA j : [k |-> "ORN", seq |-> i, tis |-> TisCode(work.territories[j]),
                       society |-> CwrCode(work.society)])

\* record_count, which is kept beside the records.
Counted(work) ==
  1 + Len(work.publishers) + Len(work.writers)
    + Cardinality({j \in DOMAIN work.writers :
                     work.writers[j].controlled /\ work.publishers # <<>>})
    + work.titles + work.artists + (IF work.recording THEN 1 ELSE 0) + Len(work.territories)

RecordCount(works) == FoldSeq(LAMBDA w, sum : Counted(w) + sum, 0, works)

GenerateCwr(works, version) ==
  <<[k |-> "HDR", version |-> version], [k |-> "GRH", version |-> version]>>
  \o FlattenSeq(Times(Len(works), LAMBDA i : WorkRecords(i, works[i])))
  \o <<[k |-> "GRT", txns |-> Len(works), recs |-> RecordCount(works) + 2],
       [k |-> "TRL", txns |-> Len(works), recs |-> RecordCount(works) + 4]>>

-----------------------------------------------------------------------------
(* The other formats *)

Composers == {"Composer", "ComposerLyricist"}
Lyricists == {"Lyricist"}

WritersAs(work, roles) == SelectSeq(work.writers, LAMBDA w : w.role \in roles)

FirstIpi(people) == IF people = <<>> THEN None ELSE people[1].ipi

\* A row of the tables for JASRAC, GEMA and SAMRO.
CsvRow(work) == [composer  |-> FirstIpi(WritersAs(work, Composers)),
                 lyricist  |-> FirstIpi(WritersAs(work, Lyricists)),
                 publisher |-> FirstIpi(work.publishers)]

PartyCsv(works) == [i \in DOMAIN works |-> CsvRow(works[i])]

\* SACEM lists everybody who has a number, and the society.
KnownIpis(people) ==
  LET with == SelectSeq(people, LAMBDA p : p.ipi # None)
  IN  [j \in DOMAIN with |-> with[j].ipi]

SacemTsv(works) ==
  [i \in DOMAIN works |-> [composers |-> KnownIpis(WritersAs(works[i], Composers)),
                           lyricists |-> KnownIpis(WritersAs(works[i], Lyricists)),
                           publisher |-> FirstIpi(works[i].publishers),
                           society   |-> CwrCode(works[i].society)]]

JsonWriters(work) == [j \in DOMAIN work.writers |-> [ipi |-> work.writers[j].ipi,
                                                     role |-> RoleCode(work.writers[j].role),
                                                     society |-> work.writers[j].society]]

\* SOCAN gets the territories and PRS the recording.
SocanJson(works) ==
  [i \in DOMAIN works |-> [writers |-> JsonWriters(works[i]),
     territories |-> [j \in DOMAIN works[i].territories |-> TisCode(works[i].territories[j])]]]

PrsJson(works) ==
  [i \in DOMAIN works |-> [writers |-> JsonWriters(works[i]), recording |-> works[i].recording]]

Nordic == <<"SE", "NO", "DK", "FI", "IS">>

NordicBlock(works) ==
  GenerateCwr([i \in DOMAIN works |-> [works[i] EXCEPT !.territories = Nordic]], "02.20")

GenerateAllSubmissions(works) ==
  LET cwr == GenerateCwr(works, "02.20")
      F(society, format, payload) == [society |-> society, format |-> format, payload |-> payload]
  IN  {F("Ascap", "Cwr22", cwr), F("JasracJp", "JasracJdisc", PartyCsv(works)),
       F("Socan", "SocanJson", SocanJson(works)), F("ApraNz", "ApraXml", [base64 |-> cwr]),
       F("GemaDe", "GemaCsv", PartyCsv(works)), F("StimSe", "NordicBlock", NordicBlock(works)),
       F("PrsUk", "PrsJson", PrsJson(works)), F("SacemFr", "SacemTsv", SacemTsv(works)),
       F("SamroZa", "SamroCsv", PartyCsv(works))}

-----------------------------------------------------------------------------
(* xslt.rs *)

\* resolve_society: the style sheet of a slug.
ResolveSociety(slug) ==
  CASE slug \in {"apra", "apra_amcos"} -> "apra_amcos"
    [] slug \in {"gema", "sacem", "jasrac", "samro"} -> slug
    [] slug \in {"prs", "mcps"} -> "prs"
    [] slug \in {"socan", "cmrra"} -> "socan"
    [] slug \in {"nordic", "stim", "tono", "koda", "teosto", "stef"} -> "nordic"
    [] OTHER -> None

XmlWriter(work, w) ==
  [role |-> RoleCode(w.role), society |-> OptCode(w.society), controlled |-> w.controlled]

XmlPublisher(p) == [ipi |-> p.ipi, society |-> OptCode(p.society)]

XmlWork(work) ==
  [society     |-> CwrCode(work.society),
   writers     |-> [j \in DOMAIN work.writers |-> XmlWriter(work, work.writers[j])],
   publishers  |-> [j \in DOMAIN work.publishers |-> XmlPublisher(work.publishers[j])],
   titles      |-> work.titles,
   artists     |-> work.artists,
   recording   |-> work.recording,
   territories |-> [j \in DOMAIN work.territories |-> TisCode(work.territories[j])]]

ToCanonicalXml(works) == [i \in DOMAIN works |-> XmlWork(works[i])]

\* apply_xslt checks that the sheet can be read and gives the input back.
ApplyXslt(xml, sheet) == IF sheet \in Sheets THEN [ok |-> TRUE, xml |-> xml]
                         ELSE [ok |-> FALSE, xml |-> <<>>]

TransformSubmission(slug, works) ==
  LET sheet == ResolveSociety(slug)
      out   == ApplyXslt(ToCanonicalXml(works), sheet)
  IN  CASE sheet = None -> [status |-> "not_found", xml |-> <<>>]
        [] sheet # None /\ ~out.ok -> [status |-> "internal_error", xml |-> <<>>]
        [] OTHER -> [status |-> "ok", xml |-> out.xml]

AllSlugs == {"apra", "gema", "sacem", "prs", "jasrac", "socan", "samro", "nordic"}

\* A sheet that fails leaves an error text in its place, and the answer is 200.
TransformAllSubmissions(works) ==
  [status |-> "ok",
   xmls |-> [slug \in AllSlugs |-> ApplyXslt(ToCanonicalXml(works), ResolveSociety(slug))]]
=============================================================================
