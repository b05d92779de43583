---------------------------- MODULE TrackUpload ----------------------------
(***************************************************************************)
(* The upload of a track (upload_track of main.rs, with audio_qc.rs,       *)
(* dsp.rs, wikidata.rs, btfs.rs, bttc.rs, ddex.rs, mirrors.rs) and the     *)
(* registration of its parties (publishing.rs), which looks every          *)
(* contributor up in the KYC store while users submit records to it.       *)
(*                                                                         *)
(* An action is a request's code from one await, or one access to shared   *)
(* counters, to the next.  Calls to services end in an answer, an error or *)
(* a timeout; the last two are one case to the code.  The audit log and    *)
(* the counters are in memory: a restart empties both.                     *)
(***************************************************************************)
EXTENDS UserRecords, FiniteSets

Fns == INSTANCE Functions

CONSTANTS Workers,       \* request handlers that run at a time
          Isrcs,         \* well-formed recording codes
          Files,         \* records of the type File
          FileRoot,      \* digit root of the hash of a recording's code and a file
          ClaimRoot,     \* the same for a claimed band, in the place of the file
          PartyLists,    \* lists of contributors that clients register
          ClaimedBands,  \* bands that clients claim
          MaxRequests    \* bound: uploads and registrations

Bands == 0..2

\* band_from_digit_root: seven of the nine roots are common.
BandFromDigitRoot(root) == CASE root = 3 -> 1 [] root = 2 -> 2 [] OTHER -> 0

\* What the checks tell apart in a file: its leading bytes, whether it is
\* above the limit, and what stands where a WAV header has rate and channels.
File == [magic : {"RIFF", "fLaC", "ID3", "PK"}, oversize : BOOLEAN,
         rate : Nat, channels : Nat]

\* register_track refuses an empty list of contributors and a band above 2.
ASSUME UploadAssumption ==
    /\ IsFiniteSet(Workers)
    /\ Files \subseteq File
    /\ PartyLists \subseteq Seq(Users) \ {<< >>}
    /\ ClaimedBands \subseteq Bands
    /\ MaxRequests \in Nat

Modes == [bttc_dev : BOOLEAN, ddex_dev : BOOLEAN]

VARIABLES mode,      \* BTTC_DEV_MODE and DDEX_DEV_MODE
          job,       \* per handler: the request it serves and what it does next
          stored,    \* files in BTFS, by recording
          ledger,    \* distributions sent to the chain
          delivered, \* DDEX messages delivered
          flagged,   \* recordings the upload filter reported
          audit,     \* AuditStore: number of entries of each kind
          metrics,   \* CtqMetrics
          answers,   \* history: requests answered, as far as properties tell them
          requests   \* history: requests begun

trackVars == <<mode, job, stored, ledger, delivered, flagged, audit, metrics,
               answers, requests>>

uploadVars == <<userVars, trackVars>>

AuditKinds == {"UPLOAD_START", "WIKIDATA_ENRICH", "UPLOAD_DONE", "REGISTER"}

NoMetrics == [uploads |-> 0, defects |-> 0, band |-> [b \in Bands |-> 0]]

NoAudit == [k \in AuditKinds |-> 0]

Idle == [pc |-> "idle"]

UploadSteps == {"exists", "wiki", "btfs", "bttc", "ddex", "mirrors", "count", "band",
                "latency", "done"}

RegistrationSteps == {"look", "permit", "deliver", "register", "count", "band", "answer"}

\* What a handler has of an upload, and of a registration.
Upload == [what : {"upload"}, pc : UploadSteps, isrc : Isrcs, file : Files, band : Bands]

Registration == [what : {"register"}, pc : RegistrationSteps, isrc : Isrcs,
                 parties : PartyLists, claimed : ClaimedBands, band : Bands,
                 seen : Seq([tier : Tiers, permitted : BOOLEAN]), tier : Tiers,
                 cleared : SUBSET Users, ddex : BOOLEAN]

UploadTypeOK == /\ UserTypeOK
                /\ mode \in Modes
                /\ job \in [Workers -> {Idle} \cup Upload \cup Registration]
                /\ stored \subseteq Isrcs \X Files
                /\ ledger \subseteq Isrcs
                /\ flagged \subseteq Isrcs
                /\ audit \in [AuditKinds -> Nat]
                /\ metrics \in [uploads : Nat, defects : Nat, band : [Bands -> Nat]]
                /\ requests \in Nat

UploadInit == /\ UserInit
              /\ mode \in Modes
              /\ job = [w \in Workers |-> Idle]
              /\ stored = {} /\ ledger = {} /\ delivered = {} /\ flagged = {}
              /\ audit = NoAudit
              /\ metrics = NoMetrics
              /\ answers = {}
              /\ requests = 0

-----------------------------------------------------------------------------
(* Faults: single slips in the code below, for mutation runs *)

AllPassed_LastOnly(seen) == seen[Len(seen)].permitted

DeliveryFails_Ignored(w) == [job[w] EXCEPT !.pc = "mirrors"]

Counted_BandOnly == metrics.uploads

-----------------------------------------------------------------------------
(* Checks of the file *)

\* upload_track refuses files by their first bytes; an unknown signature only
\* draws a warning.
ForbiddenMagic == {"PK"}

FormatOk(f) == f.magic \in {"RIFF", "fLaC"}

\* run_qc reads rate and channels where a WAV header has them, in any file;
\* loudness and peak are not measured (None) and pass.
SampleRateOk(f) == f.rate \in 44100..96000

QcDefects(f) == {d \in {"format", "sample rate", "channels"} :
                   \/ d = "format" /\ ~FormatOk(f)
                   \/ d = "sample rate" /\ ~SampleRateOk(f)
                   \/ d = "channels" /\ f.channels # 2}

DspSpec == [Spotify |-> [stereo |-> TRUE, upc_req |-> TRUE],
            AppleMusic |-> [stereo |-> TRUE, upc_req |-> TRUE],
            AmazonMusic |-> [stereo |-> TRUE, upc_req |-> TRUE],
            YouTubeMusic |-> [stereo |-> FALSE, upc_req |-> FALSE],
            TikTok |-> [stereo |-> FALSE, upc_req |-> FALSE],
            Tidal |-> [stereo |-> TRUE, upc_req |-> TRUE]]

\* validate_for, with the metadata upload_track gives it: a code, no UPC, no
\* cover art.
DspDefects(dsp, f) ==
    (QcDefects(f) \ (IF DspSpec[dsp].stereo THEN {} ELSE {"channels"}))
        \cup (IF DspSpec[dsp].upc_req THEN {"UPC required"} ELSE {})
        \cup {"cover art missing"}

DspReady(f) == \A dsp \in DOMAIN DspSpec : DspDefects(dsp, f) = {}

-----------------------------------------------------------------------------
(* Shared counters and the audit log *)

Logged(kind) == [audit EXCEPT ![kind] = @ + 1]

WithDefects(n) == [metrics EXCEPT !.defects = @ + n]

Step(w, pc) == job' = [job EXCEPT ![w].pc = pc]

Answered(w, answer) == /\ answers' = answers \cup {answer}
                       /\ job' = [job EXCEPT ![w] = Idle]

\* A refusal before anything else has changed; the answer is not kept.
Refuse(w, defects) ==
    /\ requests' = requests + 1
    /\ metrics' = WithDefects(defects)
    /\ UNCHANGED <<userVars, mode, job, stored, ledger, delivered, flagged, audit,
                   answers>>

Begin(w) == job[w] = Idle /\ requests < MaxRequests

\* record_band is two increments, of the total and of the band.
Counted == metrics.uploads + 1

CountUpload(w) ==
    /\ job[w].pc = "count"
    /\ metrics' = [metrics EXCEPT !.uploads = Counted]
    /\ Step(w, "band")
    /\ UNCHANGED <<userVars, mode, stored, ledger, delivered, flagged, audit, answers,
                   requests>>

CountBand(w) ==
    /\ job[w].pc = "band"
    /\ metrics' = [metrics EXCEPT !.band[job[w].band] = @ + 1]
    /\ Step(w, IF job[w].what = "upload" THEN "latency" ELSE "answer")
    /\ UNCHANGED <<userVars, mode, stored, ledger, delivered, flagged, audit, answers,
                   requests>>

-----------------------------------------------------------------------------
(* upload_track *)

\* 413, or 422 for a forbidden signature or a code that is not an ISRC.
RefuseUpload(w) == Begin(w) /\ Refuse(w, 1)

\* A file with or without defects of quality goes on.
BeginUpload(w, isrc, f) ==
    /\ Begin(w)
    /\ ~f.oversize /\ f.magic \notin ForbiddenMagic
    /\ requests' = requests + 1
    /\ metrics' = WithDefects(Cardinality(QcDefects(f)))
    /\ audit' = Logged("UPLOAD_START")
    /\ job' = [job EXCEPT ![w] = [what |-> "upload", pc |-> "exists", isrc |-> isrc,
                 file |-> f, band |-> BandFromDigitRoot(FileRoot[<<isrc, f>>])]]
    /\ UNCHANGED <<userVars, mode, stored, ledger, delivered, flagged, answers>>

\* isrc_exists: every failure of the query counts as no.
ArticleSeventeen(w, exists) ==
    /\ job[w].pc = "exists"
    /\ flagged' = IF exists THEN flagged \cup {job[w].isrc} ELSE flagged
    /\ Step(w, "wiki")
    /\ UNCHANGED <<userVars, mode, stored, ledger, delivered, audit, metrics, answers,
                   requests>>

\* lookup_artist, whose failure counts as an artist that is not known.
Enrich(w, found) ==
    /\ job[w].pc = "wiki"
    /\ audit' = IF found THEN Logged("WIKIDATA_ENRICH") ELSE audit
    /\ Step(w, "btfs")
    /\ UNCHANGED <<userVars, mode, stored, ledger, delivered, flagged, metrics, answers,
                   requests>>

\* 502.  What was done outside stays done, and nothing is counted or audited.
FailUpload(w, fault) ==
    /\ Answered(w, [what |-> "upload", status |-> 502, isrc |-> job[w].isrc,
                    file |-> job[w].file, fault |-> fault])
    /\ UNCHANGED <<userVars, mode, flagged, audit, metrics, requests>>

\* The node may have the file though its answer is lost or no CID is in it.
StoreFile(w) ==
    /\ job[w].pc = "btfs"
    /\ UNCHANGED <<ledger, delivered>>
    /\ \/ /\ stored' = stored \cup {<<job[w].isrc, job[w].file>>}
          /\ Step(w, "bttc")
          /\ UNCHANGED <<userVars, mode, flagged, audit, metrics, answers, requests>>
       \/ /\ stored' \in {stored, stored \cup {<<job[w].isrc, job[w].file>>}}
          /\ FailUpload(w, TRUE)

MAX_DISTRIBUTION_BTT == 1000000

Total(splits, field) == Fns!SumFunction([i \in DOMAIN splits |-> splits[i][field]])

\* What submit_distribution requires of the splits before it asks the Ledger.
SplitsAccepted(splits) == /\ Total(splits, "amount_btt") <= MAX_DISTRIBUTION_BTT
                          /\ Total(splits, "bps") = 10000

\* The splits upload_track passes on.
UploadSplits == << >>

SubmitDistribution(w, confirmed) ==
    LET passes == SplitsAccepted(UploadSplits) IN
    /\ job[w].pc = "bttc"
    /\ UNCHANGED <<stored, delivered>>
    /\ ledger' = IF ~mode.bttc_dev /\ passes THEN ledger \cup {job[w].isrc} ELSE ledger
    /\ IF mode.bttc_dev \/ (passes /\ confirmed)
       THEN /\ Step(w, "ddex")
            /\ UNCHANGED <<userVars, mode, flagged, audit, metrics, answers, requests>>
       ELSE FailUpload(w, passes)

Message(w, contributors) == [isrc |-> job[w].isrc, band |-> job[w].band,
                             contributors |-> contributors]

\* What is left of an upload whose delivery fails: nothing, a 502.
DeliveryFails(w) == Idle

\* ddex::register.  A stub in development; a failure ends the upload.
DdexRegister(w) ==
    /\ job[w].pc = "ddex"
    /\ UNCHANGED <<userVars, mode, stored, ledger, flagged, audit, metrics, requests>>
    /\ \/ /\ delivered' = IF mode.ddex_dev THEN delivered
                          ELSE delivered \cup {Message(w, {})}
          /\ Step(w, "mirrors")
          /\ UNCHANGED answers
       \/ /\ ~mode.ddex_dev
          /\ job' = [job EXCEPT ![w] = DeliveryFails(w)]
          /\ answers' = answers \cup
                {[what |-> "upload", status |-> 502, isrc |-> job[w].isrc,
                  file |-> job[w].file, fault |-> TRUE]}
          /\ UNCHANGED delivered

\* push_all: both mirrors may fail, and the upload goes on.
PushMirrors(w) ==
    /\ job[w].pc = "mirrors"
    /\ Step(w, "count")
    /\ UNCHANGED <<userVars, mode, stored, ledger, delivered, flagged, audit, metrics,
                   answers, requests>>

\* Above 200 ms a defect is counted.
RecordLatency(w, slow) ==
    /\ job[w].pc = "latency"
    /\ metrics' = WithDefects(IF slow THEN 1 ELSE 0)
    /\ Step(w, "done")
    /\ UNCHANGED <<userVars, mode, stored, ledger, delivered, flagged, audit, answers,
                   requests>>

FinishUpload(w) ==
    /\ job[w].pc = "done"
    /\ audit' = Logged("UPLOAD_DONE")
    /\ Answered(w, [what |-> "upload", status |-> 200, isrc |-> job[w].isrc,
                    file |-> job[w].file, band |-> job[w].band,
                    dsp_ready |-> DspReady(job[w].file)])
    /\ UNCHANGED <<userVars, mode, stored, ledger, delivered, flagged, metrics, requests>>

-----------------------------------------------------------------------------
(* register_track *)

\* 422 for fields out of range and splits that are not 10000 in all; only a
\* code that is not an ISRC counts as a defect.
RefuseRegistration(w) == Begin(w) /\ \E defects \in {0, 1} : Refuse(w, defects)

BeginRegistration(w, isrc, parties, band) ==
    /\ Begin(w)
    /\ requests' = requests + 1
    /\ job' = [job EXCEPT ![w] = [what |-> "register", pc |-> "look", isrc |-> isrc,
                 parties |-> parties, claimed |-> band,
                 band |-> BandFromDigitRoot(ClaimRoot[<<isrc, band>>]),
                 seen |-> << >>, tier |-> "Tier0Unverified",
                 cleared |-> {}, ddex |-> FALSE]]
    /\ UNCHANGED <<userVars, mode, stored, ledger, delivered, flagged, audit, metrics,
                   answers>>

Party(w) == job[w].parties[Len(job[w].seen) + 1]

\* A read that fails is taken for a record that is not there.
Read(u) == {kyc[u]} \cup (IF StoreFails THEN {NoRecord} ELSE {})

\* The answer for one contributor is complete: on to the next, if there is one.
See(w, tier, permitted) ==
    LET seen == Append(job[w].seen, [tier |-> tier, permitted |-> permitted]) IN
    job' = [job EXCEPT ![w].seen = seen,
              ![w].cleared = IF permitted THEN @ \cup {Party(w)} ELSE @,
              ![w].pc = IF Len(seen) = Len(job[w].parties) THEN "deliver" ELSE "look"]

\* kyc_db.get, for the tier the answer names ...
LookUp(w) ==
    /\ job[w].pc = "look"
    /\ \E record \in Read(Party(w)) :
         IF record = NoRecord THEN See(w, "Tier0Unverified", FALSE)
         ELSE job' = [job EXCEPT ![w].pc = "permit", ![w].tier = record.tier]
    /\ UNCHANGED <<userVars, mode, stored, ledger, delivered, flagged, audit, metrics,
                   answers, requests>>

\* ... and payout_permitted, which reads the record again.
CheckPermitted(w) ==
    /\ job[w].pc = "permit"
    /\ \E record \in Read(Party(w)) : See(w, job[w].tier, Permits(record, 0))
    /\ UNCHANGED <<userVars, mode, stored, ledger, delivered, flagged, audit, metrics,
                   answers, requests>>

AllPassed(seen) == \A i \in DOMAIN seen : seen[i].permitted

\* 403 and a defect.
BlockRegistration(w) ==
    /\ job[w].pc = "deliver"
    /\ ~AllPassed(job[w].seen)
    /\ metrics' = WithDefects(1)
    /\ job' = [job EXCEPT ![w] = Idle]
    /\ UNCHANGED <<userVars, mode, stored, ledger, delivered, flagged, audit, answers,
                   requests>>

\* register_with_contributors; a failure does not end the registration.
Deliver(w) ==
    /\ job[w].pc = "deliver"
    /\ AllPassed(job[w].seen)
    /\ \E ok \in BOOLEAN :
         /\ mode.ddex_dev => ok
         /\ delivered' = IF ok /\ ~mode.ddex_dev
                         THEN delivered \cup {Message(w, Fns!Range(job[w].parties))}
                         ELSE delivered
         /\ job' = [job EXCEPT ![w].pc = "register", ![w].ddex = ok]
    /\ UNCHANGED <<userVars, mode, stored, ledger, flagged, audit, metrics, answers,
                   requests>>

AuditRegistration(w) ==
    /\ job[w].pc = "register"
    /\ audit' = Logged("REGISTER")
    /\ Step(w, "count")
    /\ UNCHANGED <<userVars, mode, stored, ledger, delivered, flagged, metrics, answers,
                   requests>>

\* The band answered is the one the caller claimed.  No record of the
\* registration is kept: the answer and the audit line are all there is.
FinishRegistration(w) ==
    /\ job[w].pc = "answer"
    /\ Answered(w, [what |-> "register", status |-> 200, isrc |-> job[w].isrc,
                    parties |-> Fns!Range(job[w].parties), cleared |-> job[w].cleared,
                    band |-> job[w].claimed, ddex_submitted |-> job[w].ddex])
    /\ UNCHANGED <<userVars, mode, stored, ledger, delivered, flagged, audit, metrics,
                   requests>>

-----------------------------------------------------------------------------
(* The server stops and starts again: stores and services keep what they have *)
Restart ==
    /\ job' = [w \in Workers |-> Idle]
    /\ audit' = NoAudit
    /\ metrics' = NoMetrics
    /\ UNCHANGED <<userVars, mode, stored, ledger, delivered, flagged, answers, requests>>

TrackNext ==
    \/ \E w \in Workers :
         \/ RefuseUpload(w) \/ RefuseRegistration(w)
         \/ \E isrc \in Isrcs, f \in Files : BeginUpload(w, isrc, f)
         \/ \E b \in BOOLEAN : \/ ArticleSeventeen(w, b) \/ Enrich(w, b)
                               \/ SubmitDistribution(w, b) \/ RecordLatency(w, b)
         \/ StoreFile(w) \/ DdexRegister(w) \/ PushMirrors(w) \/ FinishUpload(w)
         \/ \E isrc \in Isrcs, parties \in PartyLists, band \in ClaimedBands :
              BeginRegistration(w, isrc, parties, band)
         \/ LookUp(w) \/ CheckPermitted(w) \/ BlockRegistration(w) \/ Deliver(w)
         \/ AuditRegistration(w) \/ FinishRegistration(w)
         \/ CountUpload(w) \/ CountBand(w)
    \/ Restart

UploadNext == TrackNext \/ (UserNext /\ UNCHANGED trackVars)

UploadSpec == UploadInit /\ [][UploadNext]_uploadVars

-----------------------------------------------------------------------------
(* Properties *)

Uploads(status) == {a \in answers : a.what = "upload" /\ a.status = status}

Registrations == {a \in answers : a.what = "register"}

\* An upload answered with a CID is in BTFS and, outside development, on the
\* chain and delivered to DDEX with the band that was answered: the steps that
\* can fail all come before the answer, and no other upload undoes them.
AnsweredUploadsAreWhole ==
    \A a \in Uploads(200) :
       /\ <<a.isrc, a.file>> \in stored
       /\ mode.bttc_dev \/ a.isrc \in ledger
       /\ mode.ddex_dev \/ [isrc |-> a.isrc, band |-> a.band, contributors |-> {}]
                              \in delivered

\* However submissions to the KYC store come between the reads of it, each
\* contributor of an accepted registration had a record that permits payouts
\* at some time during the request, and a DDEX message never names a
\* contributor whose check failed.
RegistrantsWereCleared ==
    /\ \A a \in Registrations : a.parties \subseteq a.cleared
    /\ \A w \in Workers :
          /\ job[w] # Idle
          /\ job[w].what = "register"
          /\ job[w].pc \in {"register", "count", "band", "answer"}
          => Fns!Range(job[w].parties) \subseteq job[w].cleared

At(what, pcs) == Cardinality({w \in Workers : /\ job[w] # Idle
                                              /\ job[w].what = what
                                              /\ job[w].pc \in pcs})

\* The total of the dashboard, the counts by band and the audit log agree, but
\* for requests between two of the three: concurrent requests lose no count,
\* and a request that fails is in none of them.
CountsAgreeWithTheAudit ==
    /\ metrics.uploads = Fns!SumFunction(metrics.band)
                           + At("upload", {"band"}) + At("register", {"band"})
    /\ metrics.uploads + At("register", {"count"}) =
         audit["UPLOAD_DONE"] + audit["REGISTER"]
           + At("upload", {"band", "latency", "done"})

\* replit.md 65: "Frontend POSTs audio as multipart to `POST /api/upload` →
\* BTFS upload, BTTC distribution, DDEX registration, mirrors push.  Returns
\* `cid`, `band`": an upload for which every service did its part is answered.
FailedUploadsHaveAFault == \A a \in Uploads(502) : a.fault
=============================================================================
