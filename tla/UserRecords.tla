---------------------------- MODULE UserRecords ----------------------------
(***************************************************************************)
(* apps/api-server/src/kyc.rs and privacy.rs: what is kept of a user.      *)
(*                                                                         *)
(* A user submits and reads only records of their own (the caller of the   *)
(* request must be the uid of the path), so a request is named by its      *)
(* user.  Each store operation is one LMDB transaction, append() included. *)
(* A failed write is logged and the request goes on as if it had worked.   *)
(***************************************************************************)
EXTENDS Naturals, Sequences

SX == INSTANCE SequencesExt

CONSTANTS Users,
          Countries,    \* of the submissions made
          Purposes,     \* of consent
          NoRecord,
          StoreFails,   \* whether writes may fail
          MaxConsents   \* bound: consents kept per user

VARIABLES kyc,        \* KycStore: a record per user
          consents,   \* PrivacyStore: per user, the list of consents
          deletions,  \* PrivacyStore: users whose data is to be deleted
          said,       \* history: per user and purpose, the last answered consent
          unsaved     \* history: users a consent of whom was not written

userVars == <<kyc, consents, deletions, said, unsaved>>

Tiers == {"Tier0Unverified", "Tier1Basic", "Tier2Full", "Suspended"}

OfacStatus == {"Clear", "PendingScreening", "Flagged", "Blocked"}

KycRecord == [tier : Tiers, ofac : OfacStatus, blocked : BOOLEAN]

Consent == [purpose : Purposes, granted : BOOLEAN]

ASSUME UserAssumption == NoRecord \notin KycRecord /\ StoreFails \in BOOLEAN

UserTypeOK == /\ kyc \in [Users -> KycRecord \cup {NoRecord}]
              /\ consents \in [Users -> Seq(Consent)]
              /\ deletions \subseteq Users
              /\ said \in [Users -> [Purposes -> BOOLEAN]]
              /\ unsaved \subseteq Users

UserInit == /\ kyc = [u \in Users |-> NoRecord]
            /\ consents = [u \in Users |-> << >>]
            /\ deletions = {}
            /\ said = [u \in Users |-> [p \in Purposes |-> FALSE]]
            /\ unsaved = {}

-----------------------------------------------------------------------------
(* Faults: single slips in the code below, for mutation runs *)

LatestFirst_OldestFirst(list) == list

-----------------------------------------------------------------------------
(* kyc.rs *)

SANCTIONED == {"CU", "IR", "KP", "RU", "SY", "VE"}

ScreenOfac(country) == IF country \in SANCTIONED THEN "Flagged" ELSE "Clear"

Screened(country) ==
    LET ofac == ScreenOfac(country)
        blocked == ofac \in {"Flagged", "Blocked"}
    IN  [tier |-> IF blocked THEN "Suspended" ELSE "Tier1Basic",
         ofac |-> ofac, blocked |-> blocked]

\* payout_permitted for a record and an amount in dollars.
Permits(record, amount) ==
    /\ record # NoRecord
    /\ ~record.blocked
    /\ record.ofac = "Clear"
    /\ amount > 3000 => record.tier = "Tier2Full"
    /\ record.tier # "Tier0Unverified"

\* submit_kyc: the new record replaces the old one, whatever it said.
SubmitKyc(u, country) ==
    /\ \/ kyc' = [kyc EXCEPT ![u] = Screened(country)]
       \/ StoreFails /\ UNCHANGED kyc
    /\ UNCHANGED <<consents, deletions, said, unsaved>>

-----------------------------------------------------------------------------
(* privacy.rs *)

LatestFirst(list) == SX!Reverse(list)

\* has_consent: what the first match says, or FALSE.
HasConsent(u, purpose) ==
    LET list == LatestFirst(consents[u])
    IN  \E i \in DOMAIN list : /\ list[i].purpose = purpose
                               /\ list[i].granted
                               /\ \A k \in 1..(i - 1) : list[k].purpose # purpose

RecordConsent(u, consent) ==
    /\ Len(consents[u]) < MaxConsents
    /\ \/ consents' = [consents EXCEPT ![u] = Append(@, consent)] /\ UNCHANGED unsaved
       \/ StoreFails /\ unsaved' = unsaved \cup {u} /\ UNCHANGED consents
    /\ said' = [said EXCEPT ![u][consent.purpose] = consent.granted]
    /\ UNCHANGED <<kyc, deletions>>

\* delete_user_data queues the request; nothing in the code carries it out.
DeleteUserData(u) ==
    /\ \/ deletions' = deletions \cup {u}
       \/ StoreFails /\ UNCHANGED deletions
    /\ UNCHANGED <<kyc, consents, said, unsaved>>

KycNext == \E u \in Users, country \in Countries : SubmitKyc(u, country)

PrivacyNext == \E u \in Users : \/ \E consent \in Consent : RecordConsent(u, consent)
                                \/ DeleteUserData(u)

UserNext == KycNext \/ PrivacyNext

-----------------------------------------------------------------------------
(* Properties *)

\* The consent looked up is the last one the user was told is recorded, over
\* consents to several purposes kept in one list and over restarts; only a
\* failed write, which is in the error log, makes the two differ.
LastWordCounts ==
    \A u \in Users \ unsaved, p \in Purposes : HasConsent(u, p) = said[u][p]
=============================================================================
