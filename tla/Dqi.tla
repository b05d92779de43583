--------------------------------- MODULE Dqi ---------------------------------
(***************************************************************************)
(* dqi.rs: the data quality score of a track.  A field is absent, invalid  *)
(* or valid; fields without a format are valid when they are present.      *)
(***************************************************************************)
EXTENDS Naturals, FiniteSets, FiniteSetsExt

\* The fields evaluate looks at: name, weight, and how it is checked. "required"
\* fields are reported when they are missing, "silent" ones only when
\* invalid, "optional" ones never.
Fields ==
  {<<"isrc", 5, "required">>, <<"title", 5, "required">>, <<"primary_artist", 5, "required">>,
   <<"label_name", 5, "required">>,
   <<"iswc", 4, "required">>, <<"ipi_number", 4, "required">>, <<"songwriter_name", 4, "required">>,
   <<"publisher_name", 4, "required">>, <<"release_date", 4, "silent">>, <<"territory", 4, "required">>,
   <<"upc", 3, "required">>, <<"bowi", 3, "required">>, <<"wikidata_qid", 3, "required">>,
   <<"genre", 3, "silent">>, <<"language", 3, "required">>, <<"duration_secs", 3, "required">>,
   <<"featured_artists", 2, "optional">>, <<"catalogue_number", 2, "optional">>,
   <<"p_line", 2, "optional">>, <<"c_line", 2, "optional">>,
   <<"original_release_date", 2, "silent">>,
   <<"bpm", 1, "optional">>, <<"key_signature", 1, "optional">>,
   <<"explicit_content", 1, "optional">>, <<"btfs_cid", 1, "optional">>,
   <<"musicbrainz_id", 1, "optional">>}

Names == {f[1] : f \in Fields}

FieldValue == {"absent", "invalid", "valid"}

Weight(f) == f[2]

-----------------------------------------------------------------------------
(* Faults: single slips in the code below, for mutation runs *)

Note_OnlyMissing(f, value) ==
  IF value = "absent" /\ f[3] = "required" THEN {<<"missing", f[1]>>} ELSE {}

-----------------------------------------------------------------------------

\* eval_optional_text takes whatever is there, eval_field_with_validator what
\* passes its check.
IsValid(f, value) == value = "valid" \/ (value = "invalid" /\ f[3] = "optional")

Score(f, value) == IF IsValid(f, value) THEN Weight(f) ELSE 0

Note(f, value) ==
  IF value = "absent" /\ f[3] = "required" THEN {<<"missing", f[1]>>}
  ELSE IF value # "absent" /\ ~IsValid(f, value) THEN {<<"invalid", f[1]>>}
  ELSE {}

MaxScore == MapThenSumSet(Weight, Fields)

Tier(earned) ==
  CASE earned * 100 >= 90 * MaxScore -> "Gold"
    [] earned * 100 < 90 * MaxScore /\ earned * 100 >= 70 * MaxScore -> "Silver"
    [] earned * 100 < 70 * MaxScore /\ earned * 100 >= 50 * MaxScore -> "Bronze"
    [] OTHER -> "BelowBronze"

\* A track's metadata is a function from the names of fields to what is there.
Evaluate(input) ==
  LET earned == MapThenSumSet(LAMBDA f : Score(f, input[f[1]]), Fields)
  IN  [earned |-> earned, tier |-> Tier(earned),
       issues |-> UNION {Note(f, input[f[1]]) : f \in Fields}]
=============================================================================
