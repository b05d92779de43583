-------------------------------- MODULE Gtms --------------------------------
(***************************************************************************)
(* gtms.rs: classification of works and screening of payments against      *)
(* lists of countries.  A handler evaluates the request, writes the audit  *)
(* record and saves the result under its id, each behind a lock of its     *)
(* own; ids of screenings are the client's.                                *)
(*                                                                         *)
(* Countries are compared as they are spelled; Amounts are thousands of    *)
(* US dollars.                                                             *)
(***************************************************************************)
EXTENDS Naturals, FiniteSets

CONSTANTS Screeners,     \* requests served at a time
          ScreeningIds,
          Countries,     \* countries of requests
          Amounts,
          MaxScreenings  \* bound: requests made

VARIABLES task,             \* per handler: the result it has to log and save
          classifications,  \* results of classifications
          screenings,       \* per id: the result saved last
          gtmsAudit,        \* results in the audit log
          gtmsCalls

gtmsVars == <<task, classifications, screenings, gtmsAudit, gtmsCalls>>

EMBARGOED_COUNTRIES == {"CU", "IR", "KP", "RU", "BY", "SY", "VE", "MM", "ZW", "SS", "CF", "LY",
                        "SD", "SO", "YE", "HT", "ML", "NI"}

RESTRICTED_TERRITORIES == {"CN", "IN", "NG", "EG", "PK", "BD", "VN"}

ProductTypes == {"DigitalDownload", "StreamingLicense", "VinylRecord", "Cd", "Usb",
                 "Merchandise", "PublishingLicense", "MasterRecording"}

PhysicalGoods == {"VinylRecord", "Cd", "Usb"}

NoTask   == [pc |-> "idle"]
NoResult == [outcome |-> "none"]

GtmsInit ==
    /\ task = [w \in Screeners |-> NoTask]
    /\ classifications = {}
    /\ screenings = [i \in ScreeningIds |-> NoResult]
    /\ gtmsAudit = {}
    /\ gtmsCalls = 0

-----------------------------------------------------------------------------
(* Faults: single slips in the code below, for mutation runs *)

Evaluated_SkipsTheLog(r) == [pc |-> "save", result |-> r]

-----------------------------------------------------------------------------
(* The rules *)

\* classify: a licence is needed for an embargoed destination and only then;
\* physical goods get a customs code and an incoterm.
Classify(product, countries) ==
    LET embargoed == countries \cap EMBARGOED_COUNTRIES
    IN  [what |-> "classification", product |-> product,
         embargoed |-> embargoed, restricted |-> countries \cap RESTRICTED_TERRITORIES,
         licenceRequired |-> embargoed # {},
         exception |-> IF embargoed = {} THEN "NLR" ELSE "none",
         incoterm |-> IF product \in PhysicalGoods THEN "DAP" ELSE "none"]

\* The payee's country counts as restricted when it is one of the delivery
\* territories that are.
IsRestricted(c, restricted) == c \in restricted

ReviewReasons(req, restricted) ==
    (IF restricted # {} THEN {"restricted_territories"} ELSE {})
    \cup (IF req.amount > 10 /\ IsRestricted(req.payee, restricted)
          THEN {"enhanced_due_diligence"} ELSE {})

BlockedReasons(req, embargoed) ==
    (IF req.payee \in EMBARGOED_COUNTRIES THEN {"payee_country"} ELSE {})
    \cup (IF embargoed # {} THEN {"territories"} ELSE {})

Outcome(blocked, review) ==
    CASE blocked # {} -> "Blocked"
      [] blocked = {} /\ review # {} -> "ReviewRequired"
      [] OTHER -> "Clear"

Screen(req) ==
    LET embargoed  == req.territories \cap EMBARGOED_COUNTRIES
        restricted == req.territories \cap RESTRICTED_TERRITORIES
        blocked    == BlockedReasons(req, embargoed)
        review     == ReviewReasons(req, restricted)
    IN  [what |-> "screening", id |-> req.id, req |-> req, outcome |-> Outcome(blocked, review),
         blocked |-> blocked, review |-> review]

-----------------------------------------------------------------------------
(* The handlers *)

Evaluated(r) == [pc |-> "log", result |-> r]

Takes(w, r) == /\ task[w] = NoTask
               /\ gtmsCalls < MaxScreenings
               /\ gtmsCalls' = gtmsCalls + 1
               /\ task' = [task EXCEPT ![w] = Evaluated(r)]
               /\ UNCHANGED <<classifications, screenings, gtmsAudit>>

ClassifyWork(w, product, countries) == Takes(w, Classify(product, countries))

ScreenDistribution(w, req) == Takes(w, Screen(req))

Log(w) == /\ task[w].pc = "log"
          /\ gtmsAudit' = gtmsAudit \cup {task[w].result}
          /\ task' = [task EXCEPT ![w].pc = "save"]
          /\ UNCHANGED <<classifications, screenings, gtmsCalls>>

\* save_classification under a fresh id, save_screening over what the id had.
Save(w) ==
    /\ task[w].pc = "save"
    /\ LET r == task[w].result
       IN  IF r.what = "screening"
           THEN /\ screenings' = [screenings EXCEPT ![r.id] = r]
                /\ UNCHANGED classifications
           ELSE /\ classifications' = classifications \cup {r}
                /\ UNCHANGED screenings
    /\ task' = [task EXCEPT ![w] = NoTask]
    /\ UNCHANGED <<gtmsAudit, gtmsCalls>>

\* Everything is in memory, the audit log too.
GtmsRestart ==
    /\ task' = [w \in Screeners |-> NoTask]
    /\ classifications' = {}
    /\ screenings' = [i \in ScreeningIds |-> NoResult]
    /\ gtmsAudit' = {}
    /\ UNCHANGED gtmsCalls

Requests == [id : ScreeningIds, payee : Countries, territories : {{}} \cup {{c} : c \in Countries},
             amount : Amounts]

GtmsNext ==
    \/ \E w \in Screeners :
          \/ \E req \in Requests : ScreenDistribution(w, req)
          \/ \E p \in {"StreamingLicense", "Cd"}, c \in Countries : ClassifyWork(w, p, {c})
          \/ Log(w) \/ Save(w)
    \/ GtmsRestart

GtmsSpec == GtmsInit /\ [][GtmsNext]_gtmsVars

-----------------------------------------------------------------------------
(* Properties *)

\* What the store says of a payment or a work is in the audit log, whoever
\* overwrote what and across restarts (line 27: "all screening results and
\* classifications logged").
StoredResultsWereLogged ==
    {screenings[i] : i \in ScreeningIds} \cup classifications
       \subseteq gtmsAudit \cup {NoResult}

-----------------------------------------------------------------------------
(* What the code's comments say and the code does not do, see README.md *)

\* "Large-value payments to high-risk jurisdictions need enhanced due
\* diligence" (line 434).
LargePaymentsAreReviewed ==
    \A i \in ScreeningIds :
       /\ screenings[i] # NoResult
       /\ screenings[i].req.amount > 10
       /\ screenings[i].req.payee \in RESTRICTED_TERRITORIES
       => screenings[i].outcome # "Clear"
=============================================================================
