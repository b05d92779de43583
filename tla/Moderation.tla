----------------------------- MODULE Moderation -----------------------------
(***************************************************************************)
(* apps/api-server/src/moderation.rs: reports on content and their         *)
(* resolution, with the reports the upload filter of main.rs files itself. *)
(*                                                                         *)
(* A report of a user gets a random id.  The filter's id is made of the    *)
(* ISRC, so every upload of a known ISRC puts a fresh report over the last *)
(* one.  A report of the gravest category starts a task of its own that    *)
(* calls the NCMEC; the request does not wait for it, and a restart ends   *)
(* it.  add() and resolve() ignore a store that fails.                     *)
(***************************************************************************)
EXTENDS LmdbStore, Naturals, FiniteSets

CONSTANTS FilterIds,     \* ids "ART17-<isrc>"; the other keys are random ids
          Resolutions,   \* statuses an administrator sets
          NoText,
          StorageFails,  \* whether transactions of the store may fail
          MaxUploads     \* bound: uploads the filter flags

VARIABLES job,      \* per handler: the request it serves and what it does next
          uploads,  \* uploads flagged so far
          ncmec,    \* per report: its referral to the NCMEC
          answered, \* history: ids of reports answered with "Received"
          dropped   \* history: ids of reports whose write failed

vars == <<db, copy, job, uploads, ncmec, answered, dropped>>

ReportStatus == {"Received", "UnderReview"} \cup Resolutions

\* at stands for submitted_at: 0 for a user's report, else the upload's number.
Report == [status : ReportStatus, resolution : Workers \cup {NoText},
           at : 0..MaxUploads]

ASSUME ModerationAssumption == /\ FilterIds \subseteq Keys
                               /\ NoText \notin Workers
                               /\ Absent \notin Report
                               /\ StorageFails \in BOOLEAN
                               /\ MaxUploads \in Nat

Idle == [what |-> "nothing", id |-> Absent, to |-> "Received", pc |-> "idle"]

Job == [what : {"report", "resolve"}, id : Keys, to : ReportStatus,
        pc : {"add", "read", "write", "answer"}]

Referral == {"none", "pending", "submitted", "failed", "lost"}

TypeOK == /\ db \in [Keys -> Report \cup {Absent}]
          /\ copy \in [Workers -> Report \cup {Absent}]
          /\ job \in [Workers -> Job \cup {Idle}]
          /\ uploads \in 0..MaxUploads
          /\ ncmec \in [Keys -> Referral]
          /\ answered \subseteq Keys
          /\ dropped \subseteq Keys

Init == /\ db = EmptyStore
        /\ copy = NoCopies
        /\ job = [w \in Workers |-> Idle]
        /\ uploads = 0
        /\ ncmec = [id \in Keys |-> "none"]
        /\ answered = {}
        /\ dropped = {}

-----------------------------------------------------------------------------
(* Faults: single slips in the code below, for mutation runs *)

AfterSpawn_AnswersFirst == "answer"

Resolved_AppealKeepsText(r, to, text) ==
    [r EXCEPT !.status = to, !.resolution = IF to = "Appealed" THEN @ ELSE text]

-----------------------------------------------------------------------------
(* Filing a report *)

Filed(status, at) == [status |-> status, resolution |-> NoText, at |-> at]

Unused(id) == /\ id \notin FilterIds
              /\ db[id] = Absent
              /\ id \notin answered
              /\ \A w \in Workers : job[w].id # id

\* What submit_report does after it has drawn an id and started the referral.
AfterSpawn == "add"

Submit(w, id, csam) ==
    /\ job[w] = Idle
    /\ Unused(id)
    /\ ncmec' = [ncmec EXCEPT ![id] = IF csam THEN "pending" ELSE @]
    /\ job' = [job EXCEPT ![w] = [what |-> "report", id |-> id, to |-> "Received",
                                  pc |-> AfterSpawn]]
    /\ UNCHANGED <<db, copy, uploads, answered, dropped>>

\* add(): a failure is logged and the caller goes on.
PutOrDrop(id, report) ==
    \/ Put(id, report) /\ UNCHANGED dropped
    \/ StorageFails /\ WriteFails /\ dropped' = dropped \cup {id}

Add(w) ==
    /\ job[w].pc = "add"
    /\ PutOrDrop(job[w].id, Filed("Received", 0))
    /\ job' = [job EXCEPT ![w].pc = "answer"]
    /\ UNCHANGED <<copy, uploads, ncmec, answered>>

\* The Article 17 filter, in the middle of an upload.
FilterFiles(id) ==
    /\ uploads < MaxUploads
    /\ uploads' = uploads + 1
    /\ PutOrDrop(id, Filed("UnderReview", uploads + 1))
    /\ UNCHANGED <<copy, job, ncmec, answered>>

\* The task that calls the NCMEC ends.
ReferralEnds(id) ==
    /\ ncmec[id] = "pending"
    /\ \E end \in {"submitted", "failed"} : ncmec' = [ncmec EXCEPT ![id] = end]
    /\ UNCHANGED <<db, copy, job, uploads, answered, dropped>>

-----------------------------------------------------------------------------
(* Resolving a report *)

Resolved(r, to, text) == [r EXCEPT !.status = to, !.resolution = text]

\* resolve_report; 404 for an id that is not stored.  The text is the
\* handler's name, so that two administrators write different ones.
Resolve(w, id, to) ==
    /\ job[w] = Idle
    /\ db[id] # Absent
    /\ job' = [job EXCEPT ![w] = [what |-> "resolve", id |-> id, to |-> to,
                                  pc |-> "read"]]
    /\ UNCHANGED <<db, copy, uploads, ncmec, answered, dropped>>

Read(w) ==
    /\ job[w].pc = "read"
    /\ UpdateRead(w, job[w].id)
    /\ job' = [job EXCEPT ![w].pc = "write"]
    /\ UNCHANGED <<db, uploads, ncmec, answered, dropped>>

Write(w) ==
    /\ job[w].pc = "write"
    /\ UpdateWrite(w, job[w].id, Resolved(copy[w], job[w].to, w))
    /\ job' = [job EXCEPT ![w].pc = "answer"]
    /\ UNCHANGED <<uploads, ncmec, answered, dropped>>

FailedUpdate(w) ==
    /\ StorageFails
    /\ job[w].pc \in {"read", "write"}
    /\ WriteFails
    /\ ForgetCopy(w)
    /\ job' = [job EXCEPT ![w].pc = "answer"]
    /\ UNCHANGED <<uploads, ncmec, answered, dropped>>

Answer(w) ==
    /\ job[w].pc = "answer"
    /\ answered' = IF job[w].what = "report" THEN answered \cup {job[w].id} ELSE answered
    /\ job' = [job EXCEPT ![w] = Idle]
    /\ UNCHANGED <<db, copy, uploads, ncmec, dropped>>

Restart ==
    /\ copy' = NoCopies
    /\ job' = [w \in Workers |-> Idle]
    /\ ncmec' = [id \in Keys |-> IF ncmec[id] = "pending" THEN "lost" ELSE ncmec[id]]
    /\ UNCHANGED <<db, uploads, answered, dropped>>

Next == \/ \E w \in Workers :
             \/ \E id \in Keys, csam \in BOOLEAN : Submit(w, id, csam)
             \/ \E id \in Keys, to \in Resolutions : Resolve(w, id, to)
             \/ Add(w) \/ Read(w) \/ Write(w) \/ FailedUpdate(w) \/ Answer(w)
        \/ \E id \in FilterIds : FilterFiles(id)
        \/ \E id \in Keys : ReferralEnds(id)
        \/ Restart

Spec == Init /\ [][Next]_vars

-----------------------------------------------------------------------------
(* Properties *)

\* Only a write that failed, and is in the error log (line 86), keeps an
\* answered report out of the queue: not a restart and not another request.
OnlyFailedWritesLoseReports == \A id \in answered \ dropped : db[id] # Absent

AtomicFor(ids) ==
    \A w \in Workers :
       Write(w) /\ job[w].id \in ids =>
          Put(job[w].id, Resolved(db[job[w].id], job[w].to, w))

\* Two administrators who resolve the same report of a user leave it as one
\* after the other would: update() reads in one transaction and writes in
\* another, but a resolution replaces all the fields a resolution changes.
UserReportsResolveAtomically == [][AtomicFor(Keys \ FilterIds)]_vars

-----------------------------------------------------------------------------
(* What the code's comments say and the code does not do, see README.md *)

\* A report answered with "Received" is in the queue, across restarts: line 3,
\* "Persistence: LMDB via persist::LmdbStore."
AnsweredReportsAreStored == \A id \in answered : db[id] # Absent

\* persist.rs 111: "Read-modify-write under `key` in a single write
\* transaction."
UpdatesAreAtomic == [][AtomicFor(Keys)]_vars

\* "LEGAL REQUIREMENT: Electronic report to NCMEC CyberTipline" (line 197): an
\* answered report of that category was submitted, is about to be, or its
\* failure is in the log (line 215).
ReferralsAreNotLost == \A id \in answered : ncmec[id] # "lost"
=============================================================================
