-------------------------------- MODULE Bwarm --------------------------------
(***************************************************************************)
(* bwarm.rs: the rights record of a recording, the conflicts found in it   *)
(* and the stage of its life they and its confirmations put it in.         *)
(*                                                                         *)
(* A record keeps what these look at: whether it has an identifier, the    *)
(* holders [name, type, pct, pro], which licences are confirmed, and the   *)
(* bodies that confirmed it.  The state a record carries is written by     *)
(* nobody after its creation, whatever compute_state says of it.           *)
(***************************************************************************)
EXTENDS Naturals, FiniteSets, FiniteSetsExt

RightsState == {"Unregistered", "Registered", "PRO_Registered", "NeighbouringRegistered",
                "MechanicalLicensed", "DistributionReady", "Disputed", "Lapsed"}

Songwriters == {"Songwriter", "CoSongwriter"}
Publishers  == {"Publisher", "CoPublisher", "SubPublisher"}

PROs   == {"ascap", "bmi", "sesac", "socan", "prs"}
Bodies == PROs \cup {"soundexchange", "mlc"}

RightsHolder == [name : STRING, type : STRING, pct : Nat, pro : BOOLEAN]

RightsRecord == [isrc : BOOLEAN, iswc : BOOLEAN, holders : SUBSET RightsHolder, unconfirmed : Nat,
                 confirmed : SUBSET Bodies, state : RightsState]

\* BwarmRecord::new
NewRecord(isrc) == [isrc |-> isrc, iswc |-> FALSE, holders |-> {}, unconfirmed |-> 0,
                    confirmed |-> {}, state |-> "Unregistered"]

-----------------------------------------------------------------------------
(* Faults: single slips in the code below, for mutation runs *)

Stage_NeighbouringFirst(confirmed) ==
  CASE "soundexchange" \in confirmed -> "NeighbouringRegistered"
    [] "soundexchange" \notin confirmed /\ "mlc" \in confirmed -> "MechanicalLicensed"
    [] OTHER -> IF confirmed \cap PROs # {} THEN "PRO_Registered" ELSE "Registered"

-----------------------------------------------------------------------------

Owned(record, types) ==
  MapThenSumSet(LAMBDA h : h.pct, {h \in record.holders : h.type \in types})

\* detect_conflicts; of the kinds it names, overlaps and split mismatches are
\* looked for nowhere.
DetectConflicts(record) ==
  {<<"OwnershipExceedsHundred", types>> :
     types \in {t \in {Songwriters, Publishers} : Owned(record, t) > 100}}
  \cup {<<"MissingProAffiliation", {h.name}>> :
          h \in {g \in record.holders : g.type \in Songwriters /\ ~g.pro}}
  \cup {<<"UnconfirmedLicence", {l}>> : l \in 1..record.unconfirmed}

Stage(confirmed) ==
  LET pro == confirmed \cap PROs # {}
      mechanical == "mlc" \in confirmed
      neighbouring == "soundexchange" \in confirmed
  IN  CASE pro /\ mechanical /\ neighbouring -> "DistributionReady"
        [] mechanical /\ ~(pro /\ neighbouring) -> "MechanicalLicensed"
        [] neighbouring /\ ~mechanical -> "NeighbouringRegistered"
        [] pro /\ ~mechanical /\ ~neighbouring -> "PRO_Registered"
        [] OTHER -> "Registered"

ComputeState(record) ==
  IF ~record.isrc /\ ~record.iswc THEN "Unregistered"
  ELSE IF \E c \in DetectConflicts(record) : c[1] = "OwnershipExceedsHundred" THEN "Disputed"
  ELSE Stage(record.confirmed)
=============================================================================
