----------------------------- MODULE RightsDesk -----------------------------
(***************************************************************************)
(* The handlers over the registers and formats: routing a royalty, scoring *)
(* a track, looking at a rights record, writing a batch of works.  They    *)
(* keep nothing, so the state is the request being served; what matters is *)
(* how the tables and formats of different files fit together.             *)
(***************************************************************************)
EXTENDS CollectionSocieties, RoyaltyReporting, Dqi, Bwarm

CONSTANTS Tracks,       \* metadata of tracks: functions from Names
          RightsRecords,
          Batches,      \* sequences of works
          Slugs,
          RoutedTerritories

ASSUME DeskAssumption ==
    /\ Tracks \subseteq [Names -> FieldValue]
    /\ RightsRecords \subseteq RightsRecord
    /\ Batches \subseteq Seq(Work)

VARIABLE answer   \* the request being served, its answer, and the audit record it leaves

Nothing == [asked |-> "nothing"]

DeskInit == answer = Nothing

-----------------------------------------------------------------------------

Answers(a) == answer' = a

\* societies_list, societies_by_id, societies_by_territory
LookUp ==
    \/ Answers([asked |-> "list", out |-> List])
    \/ \E id \in {"ASCAP", "none", Malformed} : Answers([asked |-> "by_id", out |-> GetById(id)])
    \/ \E t \in RoutedTerritories : Answers([asked |-> "by_territory", out |-> GetByTerritory(t)])

\* societies_route_royalty
RouteHandler(t, right, amount) ==
    Answers([asked |-> "route", territory |-> t, right |-> right, amount |-> amount,
             out |-> PostRoute(t, right, amount)])

\* dqi_evaluate
DqiEvaluate(track) ==
    Answers([asked |-> "dqi", track |-> track, out |-> Evaluate(track), log |-> "DQI_EVALUATE"])

\* bwarm_create_record: the state it answers is not the one compute_state gives.
BwarmCreate(isrc) ==
    Answers([asked |-> "bwarm_new", out |-> NewRecord(isrc), log |-> "BWARM_CREATE"])

\* bwarm_detect_conflicts: the record is the client's.
BwarmConflicts(record) ==
    Answers([asked |-> "bwarm", record |-> record,
             out |-> [state |-> ComputeState(record), conflicts |-> DetectConflicts(record)]])

\* transform_submission leaves a record of what it could transform only,
\* transform_all_submissions of every call.
XsltHandler(slug, works) ==
    LET out == TransformSubmission(slug, works)
    IN  Answers([asked |-> "xslt", works |-> works, out |-> out,
                 log |-> IF out.status = "ok" THEN "XSLT_TRANSFORM" ELSE "none"])

XsltAllHandler(works) ==
    Answers([asked |-> "xslt_all", works |-> works, out |-> TransformAllSubmissions(works),
             log |-> "XSLT_TRANSFORM_ALL"])

\* generate_all_submissions, which no route calls yet.
Submit(works) ==
    Answers([asked |-> "submit", works |-> works, files |-> GenerateAllSubmissions(works)])

Return == answer # Nothing /\ answer' = Nothing

\* A request of any kind; the handlers keep nothing, so one at a time is enough.
Serve ==
    \/ LookUp
    \/ \E t \in RoutedTerritories, right \in Rights, amount \in {0, MaxAmount, MaxAmount + 1} :
          RouteHandler(t, right, amount)
    \/ \E track \in Tracks : DqiEvaluate(track)
    \/ \E isrc \in BOOLEAN : BwarmCreate(isrc)
    \/ \E record \in RightsRecords : BwarmConflicts(record)
    \/ \E works \in Batches : (\E slug \in Slugs : XsltHandler(slug, works))
                              \/ XsltAllHandler(works) \/ Submit(works)

DeskNext == (answer = Nothing /\ Serve) \/ Return

DeskSpec == DeskInit /\ [][DeskNext]_answer

-----------------------------------------------------------------------------
(* Properties *)

\* A performance royalty of a territory that the reporting module has a society
\* in reaches somebody, Cuba, Iceland and Venezuela excepted: the two tables are
\* kept by hand in two files (royalty_reporting.rs line 340, collection_societies.rs
\* line 178).
ReportedTerritoriesAreRouted ==
    answer.asked = "route" /\ answer.right = "Performance" /\ answer.out.status = "ok"
       => (answer.territory \in PrimaryTerritories \ {"CU", "IS", "VE"}
              => answer.out.societies # {})

\* Nothing is lost without a word: a track that gets no issue is at least
\* Silver, whichever fields without an issue text it lacks.
SilentLossesAreSmall ==
    answer.asked = "dqi" /\ answer.out.issues = {} => answer.out.tier \in {"Gold", "Silver"}

StageRank == [s \in RightsState |->
    CASE s = "Unregistered" -> 0 [] s = "Registered" -> 1 [] s = "PRO_Registered" -> 2
      [] s = "NeighbouringRegistered" -> 3 [] s = "MechanicalLicensed" -> 4
      [] s = "DistributionReady" -> 5 [] OTHER -> 0]

\* One more confirmation never takes a record back on its way to distribution,
\* whichever body gives it and in whatever order they come.
ConfirmationsNeverSetBack ==
    answer.asked = "bwarm" =>
       \A b \in Bodies :
          StageRank[ComputeState([answer.record EXCEPT !.confirmed = @ \cup {b}])]
             >= StageRank[answer.out.state]

\* Where a file has records of a kind, and those of them that are of its i-th work.
OfKind(file, kind) == {p \in DOMAIN file : file[p].k = kind}

OwnOf(file, kind, i) == {p \in OfKind(file, kind) : file[p].seq = i}

\* The trailers of a CWR file count what is in it, kept as they are in counters
\* of their own, and a publisher's record follows the writer it is for.
TrailersCountTheRecords(file, works) ==
    /\ file[Len(file)] = [k |-> "TRL", txns |-> Cardinality(OfKind(file, "NWR")), recs |-> Len(file)]
    /\ file[Len(file) - 1].recs = Len(file) - 2
    /\ \A p \in OfKind(file, "PWR") :
          /\ file[p - 1].k = "SWR" /\ file[p - 1].n = file[p].n /\ file[p - 1].seq = file[p].seq
          /\ works[file[p].seq].writers[file[p].n].controlled

CwrFilesAddUp ==
    answer.asked = "submit" =>
       \A f \in answer.files : f.format \in {"Cwr22", "NordicBlock"}
          => TrailersCountTheRecords(f.payload, answer.works)

\* The writers' records of a work and its XML name the same writers in the same
\* order, in the same roles and for the same societies.
SameWriters(file, i, writers) ==
    /\ Cardinality(OwnOf(file, "SWR", i)) = Len(writers)
    /\ \A p \in OwnOf(file, "SWR", i) :
          /\ file[p].n \in DOMAIN writers
          /\ writers[file[p].n] = [role |-> file[p].role, society |-> file[p].society,
                                   controlled |-> file[p].controlled]
          /\ \A q \in OwnOf(file, "SWR", i) : p < q => file[p].n < file[q].n

\* The CWR file and the XML of a work, which are written by two serialisers,
\* agree on its writers and on how many publishers and territories it has.
XmlAgreesWithCwr ==
    answer.asked = "xslt" /\ answer.out.status = "ok" =>
       \A i \in DOMAIN answer.works :
          LET file == GenerateCwr(answer.works, "02.20")
              xml  == answer.out.xml[i]
          IN  /\ SameWriters(file, i, xml.writers)
              /\ Cardinality(OwnOf(file, "SPU", i)) = Len(xml.publishers)
              /\ Cardinality(OwnOf(file, "ORN", i)) = Len(xml.territories)
=============================================================================
