----------------------------- MODULE SapPosting -----------------------------
(***************************************************************************)
(* sap.rs: royalty postings, vendor records and IDocs sent to SAP, with    *)
(* the SAP systems behind them.                                            *)
(*                                                                         *)
(* A handler checks the amounts (postings only), writes the audit record,  *)
(* makes one HTTP call and answers.  The call may be lost, and SAP may act *)
(* on it before the answer, after it, or when the server that made it is   *)
(* gone; a client that got an error sends the same correlation id again.   *)
(* The audit log is in memory.  Amounts are in cents.                      *)
(***************************************************************************)
EXTENDS Naturals, Integers

CONSTANTS SapHandlers,  \* requests served at a time
          Corrs,        \* correlation ids
          SapAmounts,   \* amounts of requests, some out of range
          MaxSapCalls   \* bound: requests made

ASSUME SapAssumption == SapAmounts \subseteq Int /\ MaxSapCalls \in Nat

VARIABLES sapMode,   \* "simulated" (not SAP_ENABLED, or SAP_DEV_MODE), "s4" or "ecc"
          sapRequest, \* per handler: the number of the request it waits for, or 0
          sapCalls,  \* requests made; they are numbered
          calls,     \* per request: what was sent to SAP for it
          acted,     \* SAP: the calls it has acted on
          sapAudit,  \* the audit log: the requests with a record
          since,     \* requests made before the server was started last
          posted     \* history: requests answered "Posted" or "POSTED"

sapVars == <<sapMode, sapRequest, sapCalls, calls, acted, sapAudit, since, posted>>

SapModes == {"simulated", "s4", "ecc"}

\* RoyaltyPosting: what is sent for one payee and period.
Posting == [corr : Corrs, amount : SapAmounts, net : SapAmounts]

\* VendorRecord: one with a bp_number is changed, one without is created.
Vendor == {"new", "known"}

NoCall == [what |-> "nothing"]

SapInit ==
    /\ sapMode \in SapModes
    /\ sapRequest = [h \in SapHandlers |-> 0]
    /\ sapCalls = 0
    /\ calls = [n \in 1..MaxSapCalls |-> NoCall]
    /\ acted = {}
    /\ sapAudit = {}
    /\ since = 0
    /\ posted = {}

-----------------------------------------------------------------------------
(* Faults: single slips in the code below, for mutation runs *)

Audited_Not(n) == sapAudit

OutOfTime_Never(h) == FALSE

-----------------------------------------------------------------------------
(* What is sent *)

\* "net_amount > amount + 0.01" is one cent over.
ValidAmounts(p) == p.amount >= 0 /\ p.net >= 0 /\ p.net <= p.amount + 1

\* build_journal_entry_payload: expense against liability; the withholding
\* tax has no line of its own.
JournalEntry(p) == [what |-> "journal", corr |-> p.corr, debit |-> p.amount, credit |-> p.net]

\* build_royalty_idoc: the same two lines for ECC.
RoyaltyIdoc(p) == [what |-> "idoc", corr |-> p.corr, debit |-> p.amount, credit |-> p.net]

Partner(v) == [what |-> "vendor", vendor |-> v]

Starts(h) == /\ sapRequest[h] = 0
             /\ sapCalls < MaxSapCalls
             /\ sapCalls' = sapCalls + 1
             /\ UNCHANGED <<sapMode, acted, since, posted>>

Audited(n) == sapAudit \cup {n}

\* The record first, then the call, if calls are made at all.
Sends(h, call) ==
    LET n == sapCalls + 1
    IN  /\ sapAudit' = Audited(n)
        /\ IF sapMode = "simulated" THEN UNCHANGED <<sapRequest, calls>>
           ELSE /\ sapRequest' = [sapRequest EXCEPT ![h] = n]
                /\ calls' = [calls EXCEPT ![n] = call]

\* post_royalty_document; SAP_ECC_MODE picks the IDoc.
PostRoyaltyDocument(h, p) ==
    /\ Starts(h)
    /\ IF ValidAmounts(p)
       THEN Sends(h, IF sapMode = "ecc" THEN RoyaltyIdoc(p) ELSE JournalEntry(p))
       ELSE UNCHANGED <<sapRequest, calls, sapAudit>>

\* emit_royalty_idoc: to ECC whatever the mode, and with no check of amounts.
EmitRoyaltyIdoc(h, p) == Starts(h) /\ Sends(h, RoyaltyIdoc(p))

\* sync_vendor: PATCH for a known partner, POST for a new one.
SyncVendor(h, v) == Starts(h) /\ Sends(h, Partner(v))

-----------------------------------------------------------------------------
(* SAP, the network, and the end of a server *)

\* The system acts on a call, at most once, whether or not anybody still waits
\* for the answer.  It knows nothing of correlation ids, which are reference
\* texts to it.
Acts(n) ==
    /\ calls[n] # NoCall /\ n \notin acted
    /\ acted' = acted \cup {n}
    /\ UNCHANGED <<sapMode, sapRequest, sapCalls, calls, sapAudit, since, posted>>

\* A status that is no success, or the 30 s of the client are over: 502,
\* whatever SAP did or will do.
OutOfTime(h) == sapRequest[h] # 0

Fails(h) ==
    /\ OutOfTime(h)
    /\ sapRequest' = [sapRequest EXCEPT ![h] = 0]
    /\ UNCHANGED <<sapMode, sapCalls, calls, acted, sapAudit, since, posted>>

Answered(n) == IF calls[n].what = "vendor" THEN posted ELSE posted \cup {n}

\* A success.  Only the S/4 path needs a body it can read; without one it
\* answers 502 (Fails above).
Succeeds(h) ==
    /\ sapRequest[h] \in acted
    /\ posted' = Answered(sapRequest[h])
    /\ sapRequest' = [sapRequest EXCEPT ![h] = 0]
    /\ UNCHANGED <<sapMode, sapCalls, calls, acted, sapAudit, since>>

\* The requests and the log are in memory; calls that are on their way stay on
\* it.  The server may come back with another configuration.
SapRestart ==
    /\ sapRequest' = [h \in SapHandlers |-> 0]
    /\ sapAudit' = {}
    /\ since' = sapCalls
    /\ sapMode' \in SapModes
    /\ UNCHANGED <<sapCalls, calls, acted, posted>>

SapNext ==
    \/ \E h \in SapHandlers :
           \/ \E p \in Posting : PostRoyaltyDocument(h, p) \/ EmitRoyaltyIdoc(h, p)
           \/ \E v \in Vendor : SyncVendor(h, v)
           \/ Fails(h) \/ Succeeds(h)
    \/ \E n \in 1..MaxSapCalls : Acts(n)
    \/ SapRestart

\* An answer or the time-out comes, and the handler goes on.
SapFairness == \A h \in SapHandlers : WF_sapVars(Succeeds(h) \/ Fails(h))

SapSpec == SapInit /\ [][SapNext]_sapVars /\ SapFairness

-----------------------------------------------------------------------------
(* Properties *)

Documents == {n \in acted : calls[n].what \in {"journal", "idoc"}}

\* Whatever is lost, late or cut off on the way: an answer "Posted" stands for a
\* document in SAP, and a document that the server of today has asked for is in
\* its audit log (line 19: "every posting logged to audit store with correlation
\* ID").  The records of earlier servers are gone.
EveryBookingIsAccounted ==
    /\ posted \subseteq Documents
    /\ {n \in Documents : n > since} \subseteq sapAudit

\* Every request is answered, also when SAP hangs: the client gives up after
\* 30 seconds (line 89).
SapRequestsEnd == \A h \in SapHandlers : sapRequest[h] # 0 ~> sapRequest[h] = 0

-----------------------------------------------------------------------------
(* What the code's comments say and the code does not do, see README.md *)

\* "idempotency key" (line 101): a posting that is sent again under its
\* correlation id makes no second document.
OneDocumentPerId ==
    \A n, m \in Documents : calls[n].corr = calls[m].corr => n = m

\* "append-only audit store" (iso_store.rs line 1): no document is in SAP
\* without a record.
DocumentsStayOnRecord == Documents \subseteq sapAudit

\* "all monetary amounts validated before mapping to SAP fields" (line 18).
AmountsAreValid ==
    \A n \in Documents : ValidAmounts([amount |-> calls[n].debit, net |-> calls[n].credit])
=============================================================================
