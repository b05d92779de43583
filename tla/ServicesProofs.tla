---------------------------- MODULE ServicesProofs ----------------------------
(***************************************************************************)
(* Proofs about three services of the API server that share no state: the  *)
(* moderation queue, the rate limiter and the wallet login.                *)
(*                                                                         *)
(* Moderation, for any number of handlers, reports and uploads, whichever  *)
(* writes fail and whenever the server restarts.  Both results rest on     *)
(* what a handler knows at each step (Good): a report to be answered was   *)
(* written or its write failed, and the copy of an update is of a report   *)
(* that is there.  That two resolutions of a user's report do not mix      *)
(* needs that nothing but a resolution changes such a report: its time of  *)
(* submission is the same in the copy and the store (UsersKeepTheirTime),  *)
(* which the filter's reports do not satisfy.                              *)
(*                                                                         *)
(* The rate limiter, for any number of threads and keys.  As long as none  *)
(* of a window's requests was dropped from its list, the list bounds them. *)
(* Only a request that read the clock after the window was over drops one, *)
(* and from then on the requests still to come for that window are among   *)
(* those that were in progress (WindowOK).                                 *)
(*                                                                         *)
(* The login: a challenge gives one session at most, to the wallet it was  *)
(* issued to, whatever requests race for it, and a request is served only  *)
(* within the lifetime of such a session.  A challenge is in the store or  *)
(* with one handler, never both (JobsAgree, JobsApart).                    *)
(***************************************************************************)
EXTENDS Moderation, RateLimiter, WalletAuth, SumTheorems

At(w) == job[w].id

UsersKeepTheirTime ==
    \A id \in Keys \ FilterIds : db[id] # Absent => db[id].at = 0

Good(w) ==
    /\ job[w].pc = "add" => job[w].what = "report"
    /\ job[w].what = "report" => /\ job[w].pc \in {"add", "answer"}
                                 /\ At(w) \notin FilterIds
    /\ job[w].what = "report" /\ job[w].pc = "answer" => db[At(w)] # Absent \/ At(w) \in dropped
    /\ job[w].pc \in {"read", "write"} => db[At(w)] # Absent
    /\ job[w].pc = "write" => /\ copy[w] # Absent
                              /\ At(w) \notin FilterIds => copy[w].at = 0

IInv == /\ TypeOK
        /\ UsersKeepTheirTime
        /\ \A w \in Workers : Good(w)
        /\ OnlyFailedWritesLoseReports

-----------------------------------------------------------------------------

\* A handler is idle or serves a request on some report.
Shape(w) ==
    \/ job[w] = Idle /\ job[w].what = "nothing" /\ job[w].pc = "idle"
    \/ /\ job[w] \in Job /\ job[w] # Idle /\ At(w) \in Keys /\ job[w].to \in ReportStatus
       /\ job[w].what \in {"report", "resolve"}
       /\ job[w].pc \in {"add", "read", "write", "answer"}

\* So does every one.
LEMMA Shapes == ASSUME TypeOK PROVE \A w \in Workers : Shape(w)
  BY DEF TypeOK, Shape, Job, Idle, At

\* A handler goes on to its next step.
Moves(w, pc) == /\ \A v \in Workers \ {w} : job'[v] = job[v]
                /\ job'[w].what = job[w].what /\ job'[w].pc = pc
                /\ job'[w].id = job[w].id /\ job'[w].to = job[w].to

\* Only the step of one handler changes.
LEMMA Moving ==
    ASSUME TypeOK, NEW w \in Workers, NEW pc \in {"add", "read", "write", "answer"},
           job[w] # Idle, job' = [job EXCEPT ![w].pc = pc]
    PROVE  Moves(w, pc) /\ job' \in [Workers -> Job \cup {Idle}]
  BY DEF TypeOK, Moves, Job, Idle

\* No step takes a report out of the store or a failure out of the log.
Grows == /\ \A id \in Keys : db[id] # Absent => db'[id] # Absent
         /\ dropped \subseteq dropped'

\* What the others know stays true.
LEMMA GoodStays ==
    ASSUME TypeOK, NEW u \in Workers, Good(u), Grows, job'[u] = job[u], copy'[u] = copy[u]
    PROVE  Good(u)'
  BY Shapes DEF Shape, Good, Grows, At

\* A handler that is done, or was ended by a restart, knows nothing.
LEMMA GoodIdle == ASSUME NEW u \in Workers, job'[u] = Idle PROVE Good(u)'
  BY DEF Good, Idle, At

\* Answered reports stay where they are as long as nothing new is answered.
LEMMA AnsweredStay ==
    ASSUME IInv, Grows, answered' = answered
    PROVE  OnlyFailedWritesLoseReports'
  BY DEF IInv, TypeOK, OnlyFailedWritesLoseReports, Grows

\* Reports are typed, none of them is Absent, and a user's is of time 0.
LEMMA Filings ==
    ASSUME NEW status \in ReportStatus, NEW at \in 0..MaxUploads
    PROVE  /\ Filed(status, at) \in Report /\ Filed(status, at) # Absent
           /\ Filed(status, at).at = at
  <1>1. Filed(status, at) \in Report /\ Filed(status, at).at = at
    BY DEF Filed, Report
  <1> QED
    BY <1>1, ModerationAssumption

\* A resolution replaces all but the time of submission.
LEMMA ResolvedIs ==
    ASSUME NEW r \in Report, NEW to \in ReportStatus, NEW w \in Workers
    PROVE  /\ Resolved(r, to, w) \in Report /\ Resolved(r, to, w) # Absent
           /\ Resolved(r, to, w) = [status |-> to, resolution |-> w, at |-> r.at]
  <1>1. Resolved(r, to, w) \in Report
    BY DEF Resolved, Report
  <1>2. [status |-> to, resolution |-> w, at |-> r.at] \in Report
    BY DEF Report
  <1>3. /\ Resolved(r, to, w).status = to /\ Resolved(r, to, w).resolution = w
        /\ Resolved(r, to, w).at = r.at
    BY DEF Resolved, Report
  <1>4. ASSUME NEW p \in Report, NEW q \in Report,
               p.status = q.status, p.resolution = q.resolution, p.at = q.at
        PROVE  p = q
    BY <1>4 DEF Report
  <1> QED
    BY <1>1, <1>2, <1>3, <1>4, ModerationAssumption

-----------------------------------------------------------------------------
(* Every step keeps the invariant *)

\* Nothing is reported at first.
LEMMA InitInv == Init => IInv
  BY ModerationAssumption
     DEF Init, IInv, TypeOK, UsersKeepTheirTime, Good, OnlyFailedWritesLoseReports,
         EmptyStore, NoCopies, Idle, At, Referral

\* A report is put into the store or its write fails; job and copy are told of.
LEMMA Puts ==
    ASSUME IInv, NEW id \in Keys, NEW r \in Report, r # Absent, id \notin FilterIds => r.at = 0,
           PutOrDrop(id, r)
    PROVE  /\ db' \in [Keys -> Report \cup {Absent}] /\ dropped' \subseteq Keys
           /\ Grows /\ UsersKeepTheirTime'
           /\ db'[id] # Absent \/ id \in dropped'
  <1>1. CASE db' = [db EXCEPT ![id] = r] /\ dropped' = dropped
    BY <1>1 DEF IInv, TypeOK, Grows, UsersKeepTheirTime
  <1>2. CASE db' = db /\ dropped' = dropped \cup {id}
    BY <1>2 DEF IInv, TypeOK, Grows, UsersKeepTheirTime
  <1> QED
    BY <1>1, <1>2 DEF PutOrDrop, Put, WriteFails

\* Every step keeps the invariant.
LEMMA NextInv == IInv /\ [Next]_vars => IInv'
<1> SUFFICES ASSUME IInv, [Next]_vars PROVE IInv'
  OBVIOUS
<1>a. TypeOK /\ \A w \in Workers : Good(w) /\ Shape(w)
  BY Shapes DEF IInv
<1>b. ASSUME db' = db, dropped' = dropped
      PROVE  Grows /\ UsersKeepTheirTime'
  BY <1>b DEF IInv, Grows, UsersKeepTheirTime
<1>1. CASE UNCHANGED vars
  BY <1>1 DEF vars, IInv, TypeOK, UsersKeepTheirTime, Good, OnlyFailedWritesLoseReports, At
<1>2. ASSUME NEW w \in Workers, NEW id \in Keys, NEW csam \in BOOLEAN, Submit(w, id, csam)
      PROVE  IInv'
  <2> DEFINE new == [what |-> "report", id |-> id, to |-> "Received", pc |-> "add"]
  <2>1. /\ job' = [job EXCEPT ![w] = new] /\ id \notin FilterIds
        /\ UNCHANGED <<db, copy, uploads, answered, dropped>>
        /\ ncmec' = [ncmec EXCEPT ![id] = IF csam THEN "pending" ELSE @]
    BY <1>2 DEF Submit, Unused, AfterSpawn
  <2>2. new \in Job
    BY DEF Job, ReportStatus
  <2>3. TypeOK'
    BY <1>a, <2>1, <2>2 DEF TypeOK, Referral
  <2>4. Grows /\ UsersKeepTheirTime'
    BY <1>b, <2>1
  <2>5. ASSUME NEW u \in Workers
        PROVE  Good(u)'
    <3>1. CASE u = w
      BY <1>a, <2>1, <3>1 DEF Good, At, TypeOK
    <3>2. CASE u # w
      BY <1>a, <2>1, <2>4, <3>2, GoodStays DEF TypeOK
    <3> QED
      BY <3>1, <3>2
  <2> QED
    BY <2>1, <2>3, <2>4, <2>5, AnsweredStay DEF IInv
<1>3. ASSUME NEW w \in Workers, NEW id \in Keys, NEW to \in Resolutions, Resolve(w, id, to)
      PROVE  IInv'
  <2> DEFINE new == [what |-> "resolve", id |-> id, to |-> to, pc |-> "read"]
  <2>1. /\ job' = [job EXCEPT ![w] = new] /\ db[id] # Absent
        /\ UNCHANGED <<db, copy, uploads, ncmec, answered, dropped>>
    BY <1>3 DEF Resolve
  <2>2. new \in Job
    BY DEF Job, ReportStatus
  <2>3. TypeOK'
    BY <1>a, <2>1, <2>2 DEF TypeOK
  <2>4. Grows /\ UsersKeepTheirTime'
    BY <1>b, <2>1
  <2>5. ASSUME NEW u \in Workers
        PROVE  Good(u)'
    <3>1. CASE u = w
      BY <1>a, <2>1, <3>1 DEF Good, At, TypeOK
    <3>2. CASE u # w
      BY <1>a, <2>1, <2>4, <3>2, GoodStays DEF TypeOK
    <3> QED
      BY <3>1, <3>2
  <2> QED
    BY <2>1, <2>3, <2>4, <2>5, AnsweredStay DEF IInv
<1>4. ASSUME NEW w \in Workers, Add(w)
      PROVE  IInv'
  <2>1. /\ job[w].pc = "add" /\ PutOrDrop(At(w), Filed("Received", 0))
        /\ job' = [job EXCEPT ![w].pc = "answer"]
        /\ UNCHANGED <<copy, uploads, ncmec, answered>>
    BY <1>4 DEF Add, At
  <2>2. job[w] # Idle /\ At(w) \in Keys /\ job[w].what = "report" /\ At(w) \notin FilterIds
    BY <1>a, <2>1 DEF Shape, Good
  <2>3. Filed("Received", 0) \in Report /\ Filed("Received", 0) # Absent
        /\ Filed("Received", 0).at = 0
    BY Filings, ModerationAssumption DEF ReportStatus
  <2>4. /\ db' \in [Keys -> Report \cup {Absent}] /\ dropped' \subseteq Keys
        /\ Grows /\ UsersKeepTheirTime'
        /\ db'[At(w)] # Absent \/ At(w) \in dropped'
    BY <2>1, <2>2, <2>3, Puts
  <2>5. Moves(w, "answer") /\ job' \in [Workers -> Job \cup {Idle}]
    BY <1>a, <2>1, <2>2, Moving
  <2>6. TypeOK'
    BY <1>a, <2>1, <2>4, <2>5 DEF TypeOK
  <2>7. ASSUME NEW u \in Workers
        PROVE  Good(u)'
    <3>1. CASE u = w
      BY <2>2, <2>4, <2>5, <3>1 DEF Good, At, Moves
    <3>2. CASE u # w
      BY <1>a, <2>1, <2>4, <2>5, <3>2, GoodStays DEF TypeOK, Moves
    <3> QED
      BY <3>1, <3>2
  <2> QED
    BY <2>1, <2>4, <2>6, <2>7, AnsweredStay DEF IInv
<1>5. ASSUME NEW id \in FilterIds, FilterFiles(id)
      PROVE  IInv'
  <2>1. /\ uploads < MaxUploads /\ uploads' = uploads + 1
        /\ PutOrDrop(id, Filed("UnderReview", uploads + 1))
        /\ UNCHANGED <<copy, job, ncmec, answered>>
    BY <1>5 DEF FilterFiles
  <2>2. uploads + 1 \in 0..MaxUploads /\ id \in Keys
    BY <1>a, <2>1, ModerationAssumption DEF TypeOK
  <2>3. Filed("UnderReview", uploads + 1) \in Report
        /\ Filed("UnderReview", uploads + 1) # Absent
    BY <2>2, Filings DEF ReportStatus
  <2>4. /\ db' \in [Keys -> Report \cup {Absent}] /\ dropped' \subseteq Keys
        /\ Grows /\ UsersKeepTheirTime'
    BY <2>1, <2>2, <2>3, Puts
  <2>5. TypeOK'
    BY <1>a, <2>1, <2>2, <2>4 DEF TypeOK
  <2>6. \A u \in Workers : Good(u)'
    BY <1>a, <2>1, <2>4, GoodStays
  <2> QED
    BY <2>1, <2>4, <2>5, <2>6, AnsweredStay DEF IInv
<1>6. ASSUME NEW id \in Keys, ReferralEnds(id)
      PROVE  IInv'
  <2>1. UNCHANGED <<db, copy, job, uploads, answered, dropped>>
    BY <1>6 DEF ReferralEnds
  <2>2. TypeOK'
    BY <1>a, <1>6, <2>1 DEF TypeOK, ReferralEnds, Referral
  <2>3. Grows /\ UsersKeepTheirTime'
    BY <1>b, <2>1
  <2>4. \A u \in Workers : Good(u)'
    BY <1>a, <2>1, <2>3, GoodStays
  <2> QED
    BY <2>1, <2>2, <2>3, <2>4, AnsweredStay DEF IInv
<1>7. ASSUME NEW w \in Workers, Read(w)
      PROVE  IInv'
  <2>1. /\ job[w].pc = "read" /\ job' = [job EXCEPT ![w].pc = "write"]
        /\ copy' = [copy EXCEPT ![w] = db[At(w)]]
        /\ UNCHANGED <<db, uploads, ncmec, answered, dropped>>
    BY <1>7 DEF Read, UpdateRead, At
  <2>2. job[w] # Idle /\ At(w) \in Keys /\ db[At(w)] # Absent /\ job[w].what = "resolve"
    BY <1>a, <2>1 DEF Shape, Good
  <2>3. Moves(w, "write") /\ job' \in [Workers -> Job \cup {Idle}]
    BY <1>a, <2>1, <2>2, Moving
  <2>4. TypeOK'
    BY <1>a, <2>1, <2>2, <2>3 DEF TypeOK
  <2>5. Grows /\ UsersKeepTheirTime'
    BY <1>b, <2>1
  <2>6. ASSUME NEW u \in Workers
        PROVE  Good(u)'
    <3>1. CASE u = w
      <4>1. copy'[w] = db[At(w)]
        BY <1>a, <2>1 DEF TypeOK
      <4>2. At(w) \notin FilterIds => db[At(w)].at = 0
        BY <2>2 DEF IInv, UsersKeepTheirTime
      <4> QED
        BY <2>1, <2>2, <2>3, <3>1, <4>1, <4>2 DEF Good, At, Moves
    <3>2. CASE u # w
      BY <1>a, <2>1, <2>3, <2>5, <3>2, GoodStays DEF TypeOK, Moves
    <3> QED
      BY <3>1, <3>2
  <2> QED
    BY <2>1, <2>4, <2>5, <2>6, AnsweredStay DEF IInv
<1>8. ASSUME NEW w \in Workers, Write(w)
      PROVE  IInv'
  <2> DEFINE r == Resolved(copy[w], job[w].to, w)
  <2>1. /\ job[w].pc = "write" /\ job' = [job EXCEPT ![w].pc = "answer"]
        /\ db' = [db EXCEPT ![At(w)] = r] /\ copy' = [copy EXCEPT ![w] = Absent]
        /\ UNCHANGED <<uploads, ncmec, answered, dropped>>
    BY <1>8 DEF Write, UpdateWrite, Put, At
  <2>2. /\ job[w] # Idle /\ At(w) \in Keys /\ job[w].to \in ReportStatus
        /\ job[w].what = "resolve" /\ copy[w] \in Report
        /\ At(w) \notin FilterIds => copy[w].at = 0
    BY <1>a, <2>1 DEF Shape, Good, TypeOK
  <2>3. r \in Report /\ r # Absent /\ r.at = copy[w].at
    BY <2>2, ResolvedIs
  <2>4. Moves(w, "answer") /\ job' \in [Workers -> Job \cup {Idle}]
    BY <1>a, <2>1, <2>2, Moving
  <2> HIDE DEF r
  <2>5. TypeOK'
    BY <1>a, <2>1, <2>3, <2>4 DEF TypeOK
  <2>6. Grows
    BY <1>a, <2>1, <2>3 DEF TypeOK, Grows
  <2>7. UsersKeepTheirTime'
    BY <1>a, <2>1, <2>2, <2>3 DEF IInv, TypeOK, UsersKeepTheirTime
  <2>8. ASSUME NEW u \in Workers
        PROVE  Good(u)'
    <3>1. CASE u = w
      BY <2>2, <2>4, <3>1 DEF Good, At, Moves
    <3>2. CASE u # w
      BY <1>a, <2>1, <2>4, <2>6, <3>2, GoodStays DEF TypeOK, Moves
    <3> QED
      BY <3>1, <3>2
  <2> QED
    BY <2>1, <2>5, <2>6, <2>7, <2>8, AnsweredStay DEF IInv
<1>9. ASSUME NEW w \in Workers, FailedUpdate(w)
      PROVE  IInv'
  <2>1. /\ job[w].pc \in {"read", "write"} /\ job' = [job EXCEPT ![w].pc = "answer"]
        /\ copy' = [copy EXCEPT ![w] = Absent]
        /\ UNCHANGED <<db, uploads, ncmec, answered, dropped>>
    BY <1>9 DEF FailedUpdate, WriteFails, ForgetCopy
  <2>2. job[w] # Idle /\ job[w].what = "resolve"
    BY <1>a, <2>1 DEF Shape, Good
  <2>3. Moves(w, "answer") /\ job' \in [Workers -> Job \cup {Idle}]
    BY <1>a, <2>1, <2>2, Moving
  <2>4. TypeOK'
    BY <1>a, <2>1, <2>3 DEF TypeOK
  <2>5. Grows /\ UsersKeepTheirTime'
    BY <1>b, <2>1
  <2>6. ASSUME NEW u \in Workers
        PROVE  Good(u)'
    <3>1. CASE u = w
      BY <2>2, <2>3, <3>1 DEF Good, At, Moves
    <3>2. CASE u # w
      BY <1>a, <2>1, <2>3, <2>5, <3>2, GoodStays DEF TypeOK, Moves
    <3> QED
      BY <3>1, <3>2
  <2> QED
    BY <2>1, <2>4, <2>5, <2>6, AnsweredStay DEF IInv
<1>10. ASSUME NEW w \in Workers, Answer(w)
       PROVE  IInv'
  <2>1. /\ job[w].pc = "answer" /\ job' = [job EXCEPT ![w] = Idle]
        /\ UNCHANGED <<db, copy, uploads, ncmec, dropped>>
        /\ answered' = IF job[w].what = "report" THEN answered \cup {At(w)} ELSE answered
    BY <1>10 DEF Answer, At
  <2>2. At(w) \in Keys
    BY <1>a, <2>1 DEF Shape
  <2>3. TypeOK'
    BY <1>a, <2>1, <2>2 DEF TypeOK
  <2>4. Grows /\ UsersKeepTheirTime'
    BY <1>b, <2>1
  <2>5. ASSUME NEW u \in Workers
        PROVE  Good(u)'
    <3>1. CASE u = w
      BY <1>a, <2>1, <3>1, GoodIdle DEF TypeOK
    <3>2. CASE u # w
      BY <1>a, <2>1, <2>4, <3>2, GoodStays DEF TypeOK
    <3> QED
      BY <3>1, <3>2
  <2>6. OnlyFailedWritesLoseReports'
    BY <1>a, <2>1 DEF IInv, OnlyFailedWritesLoseReports, Good
  <2> QED
    BY <2>3, <2>4, <2>5, <2>6 DEF IInv
<1>11. ASSUME Restart
       PROVE  IInv'
  <2>1. /\ copy' = [v \in Workers |-> Absent] /\ job' = [v \in Workers |-> Idle]
        /\ UNCHANGED <<db, uploads, answered, dropped>>
    BY <1>11 DEF Restart, NoCopies
  <2>2. TypeOK'
    BY <1>a, <1>11, <2>1 DEF TypeOK, Restart, Referral
  <2>3. Grows /\ UsersKeepTheirTime'
    BY <1>b, <2>1
  <2>4. \A u \in Workers : Good(u)'
    BY <2>1, GoodIdle
  <2> QED
    BY <2>1, <2>2, <2>3, <2>4, AnsweredStay DEF IInv
<1> QED
  BY <1>1, <1>2, <1>3, <1>4, <1>5, <1>6, <1>7, <1>8, <1>9, <1>10, <1>11 DEF Next

\* The write of an update of a user's report does what it would do to the
\* report that is there by then.
LEMMA WritesAreAtomic == ASSUME IInv PROVE AtomicFor(Keys \ FilterIds)
<1> SUFFICES ASSUME NEW w \in Workers, Write(w), job[w].id \in Keys \ FilterIds
             PROVE  Put(job[w].id, Resolved(db[job[w].id], job[w].to, w))
  BY DEF AtomicFor
<1>1. job[w].pc = "write" /\ Put(At(w), Resolved(copy[w], job[w].to, w))
  BY DEF Write, UpdateWrite, At
<1>2. Good(w) /\ Shape(w) /\ At(w) \in Keys \ FilterIds
  BY Shapes DEF IInv, At
<1>3. /\ copy[w] \in Report /\ copy[w].at = 0 /\ job[w].to \in ReportStatus
  BY <1>1, <1>2 DEF IInv, TypeOK, Good, Shape
<1>4. db[At(w)] \in Report /\ db[At(w)].at = 0
  BY <1>1, <1>2 DEF IInv, TypeOK, UsersKeepTheirTime, Good
<1> QED
  BY <1>1, <1>3, <1>4, ResolvedIs DEF At

-----------------------------------------------------------------------------
(* Results *)

\* The types of reports, requests and referrals are kept.
THEOREM TypeCorrect == Spec => []TypeOK
<1>1. IInv => TypeOK
  BY DEF IInv
<1> QED
  BY <1>1, InitInv, NextInv, PTL DEF Spec

\* For any number of requests, restarts and failures: a report that was
\* answered with "Received" is in the queue unless its own write failed
\* (moderation.rs lines 80-90 and 170-210).
THEOREM ReportsAreKept == Spec => []OnlyFailedWritesLoseReports
<1>1. IInv => OnlyFailedWritesLoseReports
  BY DEF IInv
<1> QED
  BY <1>1, InitInv, NextInv, PTL DEF Spec

\* Although update() is two transactions, resolutions of a user's report have
\* the effect of one after the other (persist.rs lines 111-131).
THEOREM ResolutionsAreAtomic == Spec => UserReportsResolveAtomically
<1>1. IInv /\ [Next]_vars => [AtomicFor(Keys \ FilterIds)]_vars
  BY WritesAreAtomic
<1> QED
  BY <1>1, InitInv, NextInv, PTL DEF Spec, UserReportsResolveAtomically

-----------------------------------------------------------------------------
(* The rate limiter *)

WindowFrom(s) == {t \in Times : s <= t /\ t < s + Window}

\* Requests of key k that read the clock in the window and are not served yet.
Underway(k, s) ==
    {t \in Threads : /\ request[t] # NoRequest /\ request[t].key = k
                      /\ request[t].at \in WindowFrom(s)}

\* None of the window's requests was dropped from its key's list.
Complete(k, s) == \A t \in WindowFrom(s) : passed[k][t] = Listed(k)[t]

\* A window is complete; or it is over, and with the requests that are still
\* to be counted for it, all of which are in progress, it stays in its bound.
WindowOK(k, s) ==
    \/ Complete(k, s)
    \/ /\ s + Window <= now
       /\ InWindow(k, s) + Cardinality(Underway(k, s)) <= Limit(k) + Cardinality(Threads) - 1

LimiterInv ==
    /\ LimiterTypeOK
    /\ \A t \in Threads : request[t] # NoRequest => request[t].at <= now
    /\ \A k \in WindowKeys : Size(Listed(k)) <= Limit(k)
    /\ \A k \in WindowKeys, s \in Times : WindowOK(k, s)

\* The times of a window are finitely many natural numbers.
LEMMA TimesFinite ==
    /\ IsFiniteSet(Times) /\ Times \subseteq Nat
    /\ \A s : WindowFrom(s) \in SUBSET Times /\ IsFiniteSet(WindowFrom(s))
<1>1. IsFiniteSet(Times) /\ Times \subseteq Nat
  BY LimiterAssumption, FS_Interval DEF Times
<1>2. \A s : WindowFrom(s) \in SUBSET Times
  BY DEF WindowFrom
<1> QED BY <1>1, <1>2, FS_Subset

\* rate_limit.rs lets at least one request through in a window.
LEMMA LimitIsPositive == \A k \in WindowKeys : Limit(k) \in Nat /\ Limit(k) >= 1
<1> SUFFICES ASSUME NEW k \in WindowKeys PROVE Limit(k) \in Nat /\ Limit(k) >= 1
  OBVIOUS
<1>1. k[1] \in Buckets
  BY DEF WindowKeys
<1>2. BaseLimit[k[1]] \in Nat \ {0} /\ Divisor \in Nat \ {0}
  BY <1>1, LimiterAssumption
<1>3. BaseLimit[k[1]] \div Divisor \in Nat
  BY <1>2
<1> QED BY <1>2, <1>3 DEF Limit

\* The length of a list of times is the sum of how often each time is in it.
LEMMA SizeIsSum == \A w \in [Times -> Nat] : Size(w) = SumOver(w, Times) /\ Size(w) \in Nat
<1>1. \A w \in [Times -> Nat] : Size(w) = SumOver(w, Times)
  BY DEF Size, F!FoldFunction, F!FoldFunctionOnSet, F!MapThenFoldSet,
         SumOver, Fn!SumFunctionOnSet, Fn!FoldFunctionOnSet, Fn!MapThenFoldSet
<1>2. ASSUME NEW w \in [Times -> Nat] PROVE SumOver(w, Times) \in Nat
  BY TimesFinite, SumIsNat
<1> QED BY <1>1, <1>2

\* The fold of the community modules is the sum of SumTheorems.
LEMMA FoldIsSum == \A f, S : F!FoldFunctionOnSet(+, 0, f, S) = SumOver(f, S)
BY DEF F!FoldFunctionOnSet, F!MapThenFoldSet,
       SumOver, Fn!SumFunctionOnSet, Fn!FoldFunctionOnSet, Fn!MapThenFoldSet

\* What the model counts, as sums, now and after a step.
LEMMA CountsAreSums ==
    /\ \A k, s : /\ InWindow(k, s) = SumOver(passed[k], WindowFrom(s))
                 /\ InWindow(k, s)' = SumOver(passed'[k], WindowFrom(s))
    /\ \A k : /\ Size(Listed(k)) = SumOver(Listed(k), DOMAIN Listed(k))
              /\ Size(Listed(k))' = SumOver(Listed(k)', DOMAIN Listed(k)')
<1>1. \A k, s : InWindow(k, s) = SumOver(passed[k], WindowFrom(s))
  BY FoldIsSum DEF InWindow, WindowFrom
<1>2. \A k, s : InWindow(k, s)' = SumOver(passed'[k], WindowFrom(s))
  BY DEF InWindow, WindowFrom, F!FoldFunctionOnSet, F!MapThenFoldSet, SumOver,
         Fn!SumFunctionOnSet, Fn!FoldFunctionOnSet, Fn!MapThenFoldSet
<1>3. \A f : F!FoldFunction(+, 0, f) = SumOver(f, DOMAIN f)
  BY FoldIsSum DEF F!FoldFunction
<1>4. \A k : Size(Listed(k)) = SumOver(Listed(k), DOMAIN Listed(k))
  BY <1>3 DEF Size
<1>5. \A k : Size(Listed(k))' = SumOver(Listed(k)', DOMAIN Listed(k)')
  BY DEF Size, F!FoldFunction, F!FoldFunctionOnSet, F!MapThenFoldSet, SumOver,
         Fn!SumFunctionOnSet, Fn!FoldFunctionOnSet, Fn!MapThenFoldSet
<1> QED BY <1>1, <1>2, <1>4, <1>5

\* A client without a list has an empty one.
LEMMA ListedType == ASSUME LimiterTypeOK PROVE \A k : Listed(k) \in [Times -> Nat]
BY DEF LimiterTypeOK, Listed, NoTimes

\* A part of a list is no longer than the list.
LEMMA PartOfList ==
    ASSUME NEW w \in [Times -> Nat], NEW f, NEW S \in SUBSET Times,
           \A t \in S : f[t] \in Nat /\ f[t] <= w[t]
    PROVE  SumOver(f, S) \in Nat /\ SumOver(f, S) <= Size(w)
<1> DEFINE g == [t \in Times |-> IF t \in S THEN f[t] ELSE 0]
<1>1. /\ IsFiniteSet(Times) /\ IsFiniteSet(S)
  BY TimesFinite, FS_Subset
<1>2. \A t \in Times : g[t] \in Int /\ w[t] \in Int /\ g[t] <= w[t]
  OBVIOUS
<1>3. (\A t \in S : g[t] = f[t] /\ g[t] \in Int) /\ \A t \in Times \ S : g[t] = 0
  OBVIOUS
<1> HIDE DEF g
<1>4. SumOver(g, Times) <= SumOver(w, Times)
  BY <1>1, <1>2, SumMonotone
<1>5. SumOver(g, Times) = SumOver(g, S)
  BY <1>1, <1>3, SumSubset
<1>6. SumOver(g, S) = SumOver(f, S)
  BY <1>1, <1>3, SumCongruence
<1>7. SumOver(f, S) \in Nat
  BY <1>1, SumIsNat
<1> QED BY <1>4, <1>5, <1>6, <1>7, SizeIsSum

\* A list cut to what is recent.
LEMMA RecentOK ==
    ASSUME LimiterTypeOK, NEW k \in WindowKeys, NEW at \in Times
    PROVE  /\ Recent(k, at) \in [Times -> Nat]
           /\ \A t \in Times : Recent(k, at)[t] <= Listed(k)[t]
           /\ Size(Recent(k, at)) <= Size(Listed(k))
<1>1. Listed(k) \in [Times -> Nat]
  BY ListedType
<1>2. Recent(k, at) \in [Times -> Nat] /\ \A t \in Times : Recent(k, at)[t] <= Listed(k)[t]
  BY <1>1, TimesFinite DEF Recent
<1>3. SumOver(Recent(k, at), Times) <= Size(Listed(k))
  BY <1>1, <1>2, PartOfList
<1> QED BY <1>2, <1>3, SizeIsSum

\* One more entry makes a list one longer.
LEMMA SizeOfOneMore ==
    ASSUME NEW w \in [Times -> Nat], NEW at \in Times
    PROVE  /\ [w EXCEPT ![at] = @ + 1] \in [Times -> Nat]
           /\ Size([w EXCEPT ![at] = @ + 1]) = Size(w) + 1
<1> DEFINE g == [w EXCEPT ![at] = @ + 1]
<1>1. g \in [Times -> Nat] /\ g[at] = w[at] + 1 /\ \A t \in Times \ {at} : g[t] = w[t]
  BY TimesFinite
<1> HIDE DEF g
<1>2. SumOver(g, Times) = SumOver(w, Times) - w[at] + g[at]
  <2>1. \A t \in Times : w[t] \in Int
    OBVIOUS
  <2>2. g[at] \in Int /\ \A t \in Times \ {at} : g[t] = w[t]
    BY <1>1
  <2>3. IsFiniteSet(Times)
    BY TimesFinite
  <2> QED BY <2>1, <2>2, <2>3, SumUpdate
<1>3. Size(w) \in Nat /\ Size(w) = SumOver(w, Times) /\ Size(g) = SumOver(g, Times)
  BY <1>1, SizeIsSum
<1>4. w[at] \in Nat
  OBVIOUS
<1> QED BY <1>1, <1>2, <1>3, <1>4 DEF g

\* A request of thread th was served: its key's list is now w, what was recent
\* of it and the request, if it passed.
Served(th, k, at, w, added) ==
    /\ request[th] = [key |-> k, at |-> at] /\ request[th] # NoRequest
    /\ w \in [Times -> Nat]
    /\ \A t \in Times : w[t] = Recent(k, at)[t] + (IF t = at THEN added ELSE 0)
    /\ Size(w) <= Limit(k)
    /\ \A key \in WindowKeys : Listed(key)' = IF key = k THEN w ELSE Listed(key)
    /\ \A key \in WindowKeys : passed'[key] =
         IF key = k THEN [t \in Times |-> passed[k][t] + (IF t = at THEN added ELSE 0)]
         ELSE passed[key]
    /\ request' = [request EXCEPT ![th] = NoRequest]
    /\ now' = now

\* Serving a request keeps every window of its key in bounds.  A window that
\* loses an entry is over, and this request came too late to be counted for
\* it, so that at most the other threads' requests still are.
LEMMA ServedWindow ==
    ASSUME LimiterInv, NEW th \in Threads, NEW k, NEW at, NEW w, NEW added \in {0, 1},
           Served(th, k, at, w, added), NEW s \in Times
    PROVE  WindowOK(k, s)'
<1> DEFINE win == WindowFrom(s)
<1>1. /\ k \in WindowKeys /\ at \in Times /\ at <= now /\ now \in Times
      /\ passed \in [WindowKeys -> [Times -> Nat]]
  BY DEF LimiterInv, LimiterTypeOK, Served
<1>2. /\ Listed(k) \in [Times -> Nat] /\ Size(Listed(k)) <= Limit(k)
      /\ Size(Listed(k)) \in Nat
  BY <1>1, ListedType, SizeIsSum DEF LimiterInv
<1>3. Limit(k) \in Nat /\ Cardinality(Threads) \in Nat
  BY <1>1, LimitIsPositive, LimiterAssumption, FS_CardinalityType
<1>4. win \in SUBSET Times /\ IsFiniteSet(win) /\ Times \subseteq Nat
      /\ Window \in Nat \ {0}
  BY TimesFinite, LimiterAssumption
<1>5. WindowFrom(s)' = win /\ now' = now /\ Listed(k)' = w
  BY <1>1 DEF Served, WindowFrom
<1> DEFINE new == [t \in Times |-> passed[k][t] + (IF t = at THEN added ELSE 0)]
<1>6. passed'[k] = new
  BY <1>1 DEF Served
<1>7. \A t \in Times : w[t] = Recent(k, at)[t] + (IF t = at THEN added ELSE 0)
  BY DEF Served
<1>8. /\ InWindow(k, s)' = SumOver(new, win)
      /\ InWindow(k, s) = SumOver(passed[k], win)
  <2> HIDE DEF new
  <2> QED BY <1>6, CountsAreSums
<1>9. SumOver(passed[k], win) \in Nat
  BY <1>1, <1>4, SumIsNat
<1>10. request' = [request EXCEPT ![th] = NoRequest] /\ DOMAIN request = Threads
  BY DEF Served, LimiterInv, LimiterTypeOK
<1>11. Underway(k, s)' = Underway(k, s) \ {th}
  BY <1>5, <1>10 DEF Underway
<1>12. /\ Underway(k, s) \in SUBSET Threads /\ Underway(k, s)' \in SUBSET Threads
       /\ IsFiniteSet(Underway(k, s)) /\ IsFiniteSet(Underway(k, s)')
       /\ Cardinality(Underway(k, s)) \in Nat /\ Cardinality(Underway(k, s)') \in Nat
  <2>1. Underway(k, s) \in SUBSET Threads /\ Underway(k, s)' \in SUBSET Threads
    BY <1>11 DEF Underway
  <2>2. IsFiniteSet(Underway(k, s)) /\ IsFiniteSet(Underway(k, s)')
    BY <2>1, LimiterAssumption, FS_Subset
  <2> QED BY <2>1, <2>2, FS_CardinalityType
<1>13. at \notin win => SumOver(new, win) = SumOver(passed[k], win)
  <2>1. at \notin win => \A t \in win : new[t] = passed[k][t]
    <3>1. \A t \in Times : passed[k][t] \in Nat
      BY <1>1
    <3> HIDE DEF win
    <3> QED BY <1>4, <3>1
  <2> HIDE DEF new
  <2> QED BY <2>1, <1>4, SumCongruence
<1>14. CASE Complete(k, s)
  <2>1. CASE \A t \in win : Recent(k, at)[t] = Listed(k)[t]
    <3>1. \A t \in win : new[t] = w[t]
      BY <1>1, <1>4, <1>7, <1>14, <2>1 DEF Complete
    <3>2. Complete(k, s)'
      BY <1>5, <1>6, <3>1 DEF Complete
    <3> QED BY <3>2 DEF WindowOK
  <2>2. CASE \E t \in win : Recent(k, at)[t] # Listed(k)[t]
    <3>1. PICK t \in win : t + Window <= at
      <4>1. PICK t \in win : Recent(k, at)[t] # Listed(k)[t]
        BY <2>2
      <4>2. t \in Times /\ t \in Nat /\ at \in Nat
        BY <1>1, <1>4
      <4>3. ~(at < t + Window)
        BY <4>1, <4>2 DEF Recent
      <4> QED BY <1>4, <4>2, <4>3
    <3>2. s + Window <= now /\ at \notin win
      BY <1>1, <1>4, <3>1 DEF WindowFrom
    <3>3. InWindow(k, s)' <= Limit(k)
      <4>1. SumOver(passed[k], win) <= Size(Listed(k))
        <5>1. \A u \in win : passed[k][u] \in Nat /\ passed[k][u] <= Listed(k)[u]
          <6> SUFFICES ASSUME NEW u \in win
                       PROVE  passed[k][u] \in Nat /\ passed[k][u] <= Listed(k)[u]
            OBVIOUS
          <6>1. u \in Times /\ passed[k][u] = Listed(k)[u]
            BY <1>4, <1>14 DEF Complete
          <6>2. Listed(k)[u] \in Nat
            BY <1>2, <6>1
          <6> QED BY <6>1, <6>2
        <5> QED BY <1>2, <1>4, <5>1, PartOfList
      <4> QED BY <1>2, <1>3, <1>8, <1>9, <1>13, <3>2, <4>1
    <3>4. Cardinality(Underway(k, s)') <= Cardinality(Threads) - 1
      <4>1. Underway(k, s)' \in SUBSET (Threads \ {th})
        BY <1>11, <1>12
      <4>2. IsFiniteSet(Threads \ {th}) /\ Cardinality(Threads \ {th}) = Cardinality(Threads) - 1
        BY LimiterAssumption, FS_RemoveElement
      <4>3. Cardinality(Underway(k, s)') <= Cardinality(Threads \ {th})
        BY <4>1, <4>2, FS_Subset
      <4> QED BY <4>2, <4>3
    <3>5. InWindow(k, s)' \in Nat
      BY <1>8, <1>9, <1>13, <3>2
    <3>6. InWindow(k, s)' + Cardinality(Underway(k, s)') <= Limit(k) + Cardinality(Threads) - 1
      BY <1>3, <1>12, <3>3, <3>4, <3>5
    <3> QED BY <1>5, <3>2, <3>6 DEF WindowOK
  <2> QED BY <2>1, <2>2
<1>15. CASE ~Complete(k, s)
  <2>1. /\ s + Window <= now
        /\ InWindow(k, s) + Cardinality(Underway(k, s)) <= Limit(k) + Cardinality(Threads) - 1
    BY <1>1, <1>15 DEF LimiterInv, WindowOK
  <2>2. CASE at \in win
    <3>1. th \in Underway(k, s)
      BY <2>2 DEF Underway, Served
    <3>2. Cardinality(Underway(k, s)') = Cardinality(Underway(k, s)) - 1
      BY <1>11, <1>12, <3>1, FS_RemoveElement
    <3>3. SumOver(new, win) = SumOver(passed[k], win) + added
      <4>1. /\ \A t \in win : passed[k][t] \in Int
            /\ \A t \in win \ {at} : new[t] = passed[k][t]
            /\ new[at] = passed[k][at] + added /\ new[at] \in Int
        BY <1>1, <1>4, <2>2
      <4> HIDE DEF new
      <4>2. SumOver(new, win) = SumOver(passed[k], win) - passed[k][at] + new[at]
        BY <1>4, <2>2, <4>1, SumUpdate
      <4> QED BY <1>9, <2>2, <4>1, <4>2
    <3>4. InWindow(k, s)' + Cardinality(Underway(k, s)') <= Limit(k) + Cardinality(Threads) - 1
      <4>1. /\ InWindow(k, s)' = InWindow(k, s) + added /\ added \in 0..1
            /\ InWindow(k, s) \in Nat
        BY <1>8, <1>9, <3>3
      <4> QED BY <1>3, <1>12, <2>1, <3>2, <4>1
    <3> QED BY <1>5, <2>1, <3>4 DEF WindowOK
  <2>3. CASE at \notin win
    <3>1. Underway(k, s)' \in SUBSET Underway(k, s)
      BY <1>11
    <3>2. Cardinality(Underway(k, s)') <= Cardinality(Underway(k, s))
      BY <1>12, <3>1, FS_Subset
    <3>3. InWindow(k, s)' = InWindow(k, s) /\ InWindow(k, s) \in Nat
      BY <1>8, <1>9, <1>13, <2>3
    <3>4. InWindow(k, s)' + Cardinality(Underway(k, s)') <= Limit(k) + Cardinality(Threads) - 1
      BY <1>3, <1>12, <2>1, <3>2, <3>3
    <3> QED BY <1>5, <2>1, <3>4 DEF WindowOK
  <2> QED BY <2>2, <2>3
<1> QED BY <1>14, <1>15

\* What else is known of a request's times, lists and windows is not touched.
LEMMA ServedInv ==
    ASSUME LimiterInv, NEW th \in Threads, NEW k, NEW at, NEW w, NEW added \in {0, 1},
           Served(th, k, at, w, added), LimiterTypeOK'
    PROVE  LimiterInv'
<1>1. request' = [request EXCEPT ![th] = NoRequest] /\ DOMAIN request = Threads
  BY DEF Served, LimiterInv, LimiterTypeOK
<1>2. \A t \in Threads : request'[t] # NoRequest => request'[t].at <= now'
  BY <1>1 DEF Served, LimiterInv
<1>3. ASSUME NEW key \in WindowKeys
      PROVE  Size(Listed(key))' <= Limit(key)
  <2>1. Listed(key)' = IF key = k THEN w ELSE Listed(key)
    BY DEF Served
  <2>2. Size(w) = SumOver(w, DOMAIN w)
    BY SizeIsSum DEF Served
  <2> QED BY <2>1, <2>2, CountsAreSums DEF Served, LimiterInv
<1>4. ASSUME NEW key \in WindowKeys, NEW s \in Times
      PROVE  WindowOK(key, s)'
  <2>1. CASE key = k
    BY <2>1, ServedWindow
  <2>2. CASE key # k
    <3>1. passed'[key] = passed[key] /\ Listed(key)' = Listed(key) /\ now' = now
      BY <2>2 DEF Served
    <3>2. Underway(key, s)' = Underway(key, s)
      BY <1>1, <2>2 DEF Underway, WindowFrom, Served
    <3>3. Complete(key, s)' = Complete(key, s)
      BY <3>1 DEF Complete, WindowFrom
    <3>4. InWindow(key, s)' = InWindow(key, s)
      BY <3>1, CountsAreSums
    <3> QED BY <3>1, <3>2, <3>3, <3>4 DEF WindowOK, LimiterInv
  <2> QED BY <2>1, <2>2
<1> QED BY <1>2, <1>3, <1>4 DEF LimiterInv

\* The lists that the clean-up removes are empty: no key's list changes by it.
LEMMA PrunedListed ==
    ASSUME LimiterTypeOK, NEW k \in WindowKeys, NEW w \in [Times -> Nat],
           \/ windows' = WithTimes(k, w)
           \/ windows' = Pruned(WithTimes(k, w))
    PROVE  /\ DOMAIN windows' \subseteq WindowKeys
           /\ \A key \in DOMAIN windows' : windows'[key] \in [Times -> Nat]
           /\ \A key \in WindowKeys : Listed(key)' = IF key = k THEN w ELSE Listed(key)
<1> DEFINE map == WithTimes(k, w)
<1>1. /\ DOMAIN map = DOMAIN windows \cup {k}
      /\ \A key \in DOMAIN map : map[key] = IF key = k THEN w ELSE windows[key]
  BY DEF WithTimes
<1> HIDE DEF map
<1>2. /\ DOMAIN windows' \subseteq DOMAIN map
      /\ \A key \in DOMAIN windows' : windows'[key] = map[key]
      /\ \A key \in DOMAIN map \ DOMAIN windows' : map[key] = NoTimes
  <2>1. CASE windows' = map
    BY <2>1
  <2>2. CASE windows' = Pruned(map)
    BY <2>2 DEF Pruned
  <2> QED BY <2>1, <2>2 DEF map
<1>3. /\ DOMAIN windows' \subseteq WindowKeys
      /\ \A key \in DOMAIN windows' : windows'[key] \in [Times -> Nat]
  BY <1>1, <1>2 DEF LimiterTypeOK
<1>4. ASSUME NEW key \in WindowKeys
      PROVE  Listed(key)' = IF key = k THEN w ELSE Listed(key)
  <2>1. Listed(key)' = IF key \in DOMAIN windows' THEN windows'[key] ELSE NoTimes
    BY DEF Listed, NoTimes
  <2>2. Listed(key) = IF key \in DOMAIN windows THEN windows[key] ELSE NoTimes
    BY DEF Listed
  <2> QED BY <1>1, <1>2, <2>1, <2>2
<1> QED BY <1>3, <1>4

\* A request that is let through adds one time to its list and to the count.
LEMMA PassInv == ASSUME LimiterInv, NEW th \in Threads, Pass(th) PROVE LimiterInv'
<1>1. request[th] # NoRequest /\ LimiterTypeOK
  BY DEF Pass, LimiterInv
<1>2. PICK k \in WindowKeys, at \in Times : request[th] = [key |-> k, at |-> at]
  BY <1>1 DEF LimiterTypeOK
<1>3. PICK recent : recent = Recent(k, at)
  OBVIOUS
<1>4. PICK w : w = [recent EXCEPT ![at] = @ + 1]
  OBVIOUS
<1>5. recent \in [Times -> Nat] /\ HasRoom(recent, k)
  BY <1>1, <1>2, <1>3, RecentOK DEF Pass
<1>6. w \in [Times -> Nat] /\ Size(w) = Size(recent) + 1
  BY <1>4, <1>5, SizeOfOneMore
<1>7. /\ windows' = Pruned(WithTimes(k, w))
      /\ passed' = [passed EXCEPT ![k][at] = @ + 1]
      /\ request' = [request EXCEPT ![th] = NoRequest] /\ now' = now
  BY <1>2, <1>3, <1>4 DEF Pass
<1>8. /\ DOMAIN windows' \subseteq WindowKeys
      /\ \A key \in DOMAIN windows' : windows'[key] \in [Times -> Nat]
      /\ \A key \in WindowKeys : Listed(key)' = IF key = k THEN w ELSE Listed(key)
  BY <1>1, <1>6, <1>7, PrunedListed
<1>9. Size(w) <= Limit(k)
  BY <1>5, <1>6, SizeIsSum, LimitIsPositive DEF HasRoom
<1>10. \A t \in Times : w[t] = recent[t] + (IF t = at THEN 1 ELSE 0)
  BY <1>4, <1>5
<1>11. /\ passed' \in [WindowKeys -> [Times -> Nat]]
       /\ \A key \in WindowKeys : passed'[key] =
             IF key = k THEN [t \in Times |-> passed[k][t] + (IF t = at THEN 1 ELSE 0)]
             ELSE passed[key]
  <2>1. passed \in [WindowKeys -> [Times -> Nat]]
    BY <1>1 DEF LimiterTypeOK
  <2>2. PICK p \in [Times -> Nat] : p = passed[k]
    BY <2>1
  <2>3. PICK q : q = [p EXCEPT ![at] = @ + 1]
    OBVIOUS
  <2>4. /\ q \in [Times -> Nat]
        /\ q = [t \in Times |-> p[t] + (IF t = at THEN 1 ELSE 0)]
    BY <2>2, <2>3
  <2>5. passed' = [passed EXCEPT ![k] = q]
    BY <1>7, <2>2, <2>3
  <2> QED BY <2>1, <2>2, <2>4, <2>5
<1>12. Served(th, k, at, w, 1)
  BY <1>1, <1>2, <1>3, <1>6, <1>7, <1>8, <1>9, <1>10, <1>11 DEF Served
<1>13. LimiterTypeOK'
  BY <1>1, <1>7, <1>8, <1>11 DEF LimiterTypeOK
<1> QED BY <1>12, <1>13, ServedInv

\* A refused request keeps the recent times of its list only.
LEMMA RefuseInv == ASSUME LimiterInv, NEW th \in Threads, Refuse(th) PROVE LimiterInv'
<1>1. request[th] # NoRequest /\ LimiterTypeOK
  BY DEF Refuse, LimiterInv
<1>2. PICK k \in WindowKeys, at \in Times : request[th] = [key |-> k, at |-> at]
  BY <1>1 DEF LimiterTypeOK
<1>3. PICK w : w = Recent(k, at)
  OBVIOUS
<1>4. w \in [Times -> Nat] /\ Size(w) <= Size(Listed(k))
  BY <1>1, <1>3, RecentOK
<1>5. /\ windows' = WithTimes(k, w) /\ passed' = passed
      /\ request' = [request EXCEPT ![th] = NoRequest] /\ now' = now
  BY <1>2, <1>3 DEF Refuse
<1>6. /\ DOMAIN windows' \subseteq WindowKeys
      /\ \A key \in DOMAIN windows' : windows'[key] \in [Times -> Nat]
      /\ \A key \in WindowKeys : Listed(key)' = IF key = k THEN w ELSE Listed(key)
  BY <1>1, <1>4, <1>5, PrunedListed
<1>7. Size(w) <= Limit(k)
  <2>1. Size(Listed(k)) <= Limit(k) /\ Size(Listed(k)) \in Nat /\ Size(w) \in Nat
    BY <1>1, <1>4, ListedType, SizeIsSum DEF LimiterInv
  <2> QED BY <1>4, <2>1, LimitIsPositive
<1>8. \A t \in Times : w[t] = Recent(k, at)[t] + (IF t = at THEN 0 ELSE 0)
  BY <1>3, <1>4
<1>9. \A key \in WindowKeys : passed'[key] =
             IF key = k THEN [t \in Times |-> passed[k][t] + (IF t = at THEN 0 ELSE 0)]
             ELSE passed[key]
  BY <1>1, <1>5 DEF LimiterTypeOK
<1>10. Served(th, k, at, w, 0)
  BY <1>1, <1>2, <1>4, <1>5, <1>6, <1>7, <1>8, <1>9 DEF Served
<1>11. LimiterTypeOK'
  BY <1>1, <1>5, <1>6 DEF LimiterTypeOK
<1> QED BY <1>10, <1>11, ServedInv

\* A request that begins now is in no window that is over.
LEMMA ArriveInv ==
    ASSUME LimiterInv, NEW th \in Threads, NEW k \in WindowKeys, Arrive(th, k)
    PROVE  LimiterInv'
<1>1. LimiterTypeOK /\ request' = [request EXCEPT ![th] = [key |-> k, at |-> now]]
      /\ UNCHANGED <<windows, now, passed>>
  BY DEF LimiterInv, Arrive
<1>2. LimiterTypeOK'
  BY <1>1 DEF LimiterTypeOK
<1>3. \A t \in Threads : request'[t] # NoRequest => request'[t].at <= now'
  BY <1>1, TimesFinite DEF LimiterInv, LimiterTypeOK
<1>4. \A key \in WindowKeys : Size(Listed(key))' <= Limit(key)
  BY <1>1, CountsAreSums DEF LimiterInv, Listed
<1>5. ASSUME NEW key \in WindowKeys, NEW s \in Times
      PROVE  WindowOK(key, s)'
  <2>1. WindowOK(key, s)
    BY DEF LimiterInv
  <2>2. InWindow(key, s)' = InWindow(key, s) /\ Complete(key, s)' = Complete(key, s)
    BY <1>1, CountsAreSums DEF Complete, Listed
  <2>3. s + Window <= now => Underway(key, s)' = Underway(key, s)
    <3>1. s + Window <= now => now \notin WindowFrom(s)
      <4>1. now \in Nat /\ s \in Nat /\ Window \in Nat
        BY <1>1, TimesFinite, LimiterAssumption DEF LimiterTypeOK
      <4> QED BY <4>1 DEF WindowFrom
    <3>2. request[th] = NoRequest /\ DOMAIN request = Threads
      BY <1>1 DEF Arrive, LimiterTypeOK
    <3> QED BY <1>1, <3>1, <3>2 DEF Underway, WindowFrom
  <2> QED BY <1>1, <2>1, <2>2, <2>3 DEF WindowOK
<1> QED BY <1>2, <1>3, <1>4, <1>5 DEF LimiterInv

\* Time passing moves no list, and the windows that begin now are empty.
LEMMA TickInv == ASSUME LimiterInv, Tick PROVE LimiterInv'
<1>1. LimiterTypeOK /\ now' = now + 1 /\ now < MaxTime /\ UNCHANGED <<windows, request, passed>>
  BY DEF LimiterInv, Tick
<1>2. now \in Nat /\ now' \in Times
  BY <1>1, LimiterAssumption DEF Times, LimiterTypeOK
<1>3. LimiterTypeOK'
  BY <1>1, <1>2 DEF LimiterTypeOK
<1>4. ASSUME NEW t \in Threads, request'[t] # NoRequest
      PROVE  request'[t].at <= now'
  <2>1. request'[t] = request[t] /\ request[t].at <= now
    BY <1>1, <1>4 DEF LimiterInv
  <2>2. request[t] \in [key : WindowKeys, at : Times]
    BY <1>1, <1>4 DEF LimiterTypeOK
  <2>3. request[t].at \in Nat
    BY <2>2, TimesFinite
  <2> QED BY <1>1, <1>2, <2>1, <2>3
<1>5. \A key \in WindowKeys : Size(Listed(key))' <= Limit(key)
  BY <1>1, CountsAreSums DEF LimiterInv, Listed
<1>6. ASSUME NEW key \in WindowKeys, NEW s \in Times
      PROVE  WindowOK(key, s)'
  <2>1. /\ InWindow(key, s)' = InWindow(key, s) /\ Complete(key, s)' = Complete(key, s)
        /\ Underway(key, s)' = Underway(key, s)
    BY <1>1, CountsAreSums DEF Complete, Listed, Underway
  <2>2. s + Window <= now => s + Window <= now'
    BY <1>1, <1>2, TimesFinite, LimiterAssumption
  <2> QED BY <2>1, <2>2 DEF WindowOK, LimiterInv
<1> QED BY <1>3, <1>4, <1>5, <1>6 DEF LimiterInv

\* The invariant of the rate limiter holds in every reachable state.
LEMMA LimiterInductive == LimiterSpec => []LimiterInv
<1>1. LimiterInit => LimiterInv
  <2> SUFFICES ASSUME LimiterInit PROVE LimiterInv
    OBVIOUS
  <2>1. LimiterTypeOK
    BY LimiterAssumption DEF LimiterInit, LimiterTypeOK, NoTimes, Times
  <2>2. \A k \in WindowKeys : Listed(k) = NoTimes /\ passed[k] = NoTimes
    BY DEF LimiterInit, Listed
  <2>3. \A k \in WindowKeys, s \in Times : WindowOK(k, s)
    BY <2>2 DEF WindowOK, Complete
  <2>4. \A k \in WindowKeys : Size(Listed(k)) <= Limit(k)
    <3>1. \A t \in Times : NoTimes[t] = 0
      BY DEF NoTimes
    <3>2. SumOver(NoTimes, Times) = 0
      BY <3>1, TimesFinite, SumOfZeros
    <3>3. Size(NoTimes) = 0
      BY <3>2, SizeIsSum DEF NoTimes
    <3> QED BY <2>2, <3>3, LimitIsPositive
  <2>5. \A t \in Threads : request[t] = NoRequest
    BY DEF LimiterInit
  <2> QED BY <2>1, <2>3, <2>4, <2>5 DEF LimiterInv
<1>2. LimiterInv /\ [LimiterNext]_limiterVars => LimiterInv'
  <2> SUFFICES ASSUME LimiterInv, [LimiterNext]_limiterVars PROVE LimiterInv'
    OBVIOUS
  <2>1. CASE \E t \in Threads, k \in WindowKeys : Arrive(t, k)
    BY <2>1, ArriveInv
  <2>2. CASE \E t \in Threads : Pass(t) \/ Refuse(t)
    BY <2>2, PassInv, RefuseInv
  <2>3. CASE Tick
    BY <2>3, TickInv
  <2>4. CASE UNCHANGED limiterVars
    <3>1. UNCHANGED <<windows, request, now, passed>>
      BY <2>4 DEF limiterVars
    <3>2. \A k : Listed(k)' = Listed(k)
      BY <3>1 DEF Listed
    <3>3. \A k : Size(Listed(k))' = Size(Listed(k))
      BY <3>2, CountsAreSums
    <3>4. \A k, s : WindowOK(k, s)' = WindowOK(k, s)
      BY <3>1, <3>2, CountsAreSums DEF WindowOK, Complete, Underway
    <3> QED BY <3>1, <3>3, <3>4 DEF LimiterInv, LimiterTypeOK
  <2> QED BY <2>1, <2>2, <2>3, <2>4 DEF LimiterNext
<1> QED BY <1>1, <1>2, PTL DEF LimiterSpec

\* The lists and times of the rate limiter stay well formed.
THEOREM LimiterTypeCorrect == LimiterSpec => []LimiterTypeOK
<1>1. LimiterInv => LimiterTypeOK
  BY DEF LimiterInv
<1> QED BY <1>1, LimiterInductive, PTL

\* For any number of threads and keys and whatever the limits and the window:
\* reading the clock before the lock is taken costs at most one request above
\* the limit per other thread, in every window.
THEOREM OverrunStaysBounded == LimiterSpec => []OverrunIsBounded
<1>1. LimiterInv => OverrunIsBounded
  <2> SUFFICES ASSUME LimiterInv, NEW k \in WindowKeys, NEW s \in Times
               PROVE  InWindow(k, s) <= Limit(k) + Cardinality(Threads) - 1
    BY DEF OverrunIsBounded
  <2>1. WindowOK(k, s) /\ LimiterTypeOK /\ Size(Listed(k)) <= Limit(k)
    BY DEF LimiterInv
  <2>2. passed[k] \in [Times -> Nat] /\ Listed(k) \in [Times -> Nat]
    BY <2>1, ListedType DEF LimiterTypeOK
  <2>3. WindowFrom(s) \in SUBSET Times /\ InWindow(k, s) = SumOver(passed[k], WindowFrom(s))
    BY TimesFinite, FoldIsSum DEF InWindow, WindowFrom
  <2>4. Cardinality(Threads) \in Nat /\ Cardinality(Threads) >= 1
    BY LimiterAssumption, FS_CardinalityType, FS_EmptySet
  <2>5. CASE Complete(k, s)
    <3>1. \A t \in WindowFrom(s) : passed[k][t] \in Nat /\ passed[k][t] <= Listed(k)[t]
      BY <2>2, <2>3, <2>5 DEF Complete
    <3>2. InWindow(k, s) \in Nat /\ InWindow(k, s) <= Size(Listed(k))
      BY <2>2, <2>3, <3>1, PartOfList
    <3> QED BY <2>1, <2>2, <2>4, <3>2, SizeIsSum, LimitIsPositive
  <2>6. CASE InWindow(k, s) + Cardinality(Underway(k, s)) <= Limit(k) + Cardinality(Threads) - 1
    <3>1. Underway(k, s) \in SUBSET Threads
      BY DEF Underway
    <3>2. Cardinality(Underway(k, s)) \in Nat
      BY <3>1, LimiterAssumption, FS_Subset, FS_CardinalityType
    <3>3. InWindow(k, s) \in Nat
      BY <2>2, <2>3, TimesFinite, SumIsNat
    <3> QED BY <2>4, <2>6, <3>2, <3>3, LimitIsPositive
  <2> QED BY <2>1, <2>5, <2>6 DEF WindowOK
<1> QED BY <1>1, LimiterInductive, PTL

-----------------------------------------------------------------------------
(* The wallet login *)

Busy(w) == logins[w] # NoLogin

\* What is in the store is what was issued, in the past.
StoreAgrees ==
    /\ \A id \in DOMAIN pending : id \in DOMAIN issued /\ pending[id] = issued[id]
    /\ \A id \in DOMAIN issued : issued[id].at <= clock

\* A challenge is in the store or with one handler, never both: this is what
\* its removal in consume(), before anything is verified, is for.
JobsAgree ==
    \A w \in AuthHandlers : Busy(w) =>
       /\ logins[w].id \in DOMAIN issued
       /\ logins[w].challenge = issued[logins[w].id]
       /\ logins[w].id \notin DOMAIN pending

JobsApart ==
    \A w, v \in AuthHandlers : w # v /\ Busy(w) /\ Busy(v) => logins[w].id # logins[v].id

\* A token's challenge is used up, and the token is for its address.
TokensAgree ==
    \A t \in tokens :
       /\ t.id \in DOMAIN issued
       /\ t.id \notin DOMAIN pending
       /\ t.sub = issued[t.id].address
       /\ issued[t.id].at <= t.iat
       /\ t.iat <= clock
       /\ t.exp = t.iat + SessionTtl

TokensAreFinal ==
    \A t \in tokens, w \in AuthHandlers : Busy(w) => logins[w].id # t.id

TokensApart == \A t, u \in tokens : t.id = u.id => t = u

AuthIInv ==
    /\ AuthTypeOK
    /\ StoreAgrees
    /\ JobsAgree
    /\ JobsApart
    /\ TokensAgree
    /\ TokensAreFinal
    /\ TokensApart
    /\ ServedMeansLoggedIn

-----------------------------------------------------------------------------
(* A busy handler holds a login. *)

\* What a busy handler holds is a login, with the challenge it took.
LEMMA Holds ==
    ASSUME AuthTypeOK, NEW w \in AuthHandlers, Busy(w)
    PROVE  /\ logins[w] \in Login
           /\ logins[w].id \in Ids /\ logins[w].challenge \in Challenge
           /\ logins[w].address \in Address
           /\ logins[w].challenge.address \in Address
  BY DEF AuthTypeOK, Busy, Login, Challenge

\* The invariant holds when the server starts.
LEMMA InitHolds == ASSUME AuthInit PROVE AuthIInv
<1> USE WalletAuthAssumption DEF AuthInit
<1>1. AuthTypeOK
  BY DEF AuthTypeOK, Clock
<1>2. StoreAgrees /\ JobsAgree /\ JobsApart
  BY DEF StoreAgrees, JobsAgree, JobsApart, Busy
<1>3. TokensAgree /\ TokensAreFinal /\ TokensApart /\ ServedMeansLoggedIn
  BY DEF TokensAgree, TokensAreFinal, TokensApart, ServedMeansLoggedIn
<1> QED
  BY <1>1, <1>2, <1>3 DEF AuthIInv

\* A new challenge has an id that no handler and no token can have.
LEMMA IssueKeeps ==
    ASSUME AuthIInv, NEW id \in Ids, NEW a \in Address, Issue(id, a)
    PROVE  AuthIInv'
<1> USE DEF AuthIInv
<1> DEFINE challenge == [address |-> a, at |-> clock]
<1>1. /\ challenge \in Challenge /\ challenge.at = clock
      /\ id \notin DOMAIN issued
      /\ DOMAIN issued' = DOMAIN issued \cup {id}
      /\ issued'[id] = challenge
      /\ \A i \in DOMAIN issued : issued'[i] = issued[i]
  BY DEF Issue, With, AuthTypeOK, Challenge
<1>2. /\ DOMAIN pending' \subseteq DOMAIN pending \cup {id}
      /\ id \in DOMAIN pending' /\ pending'[id] = challenge
      /\ \A i \in DOMAIN pending' \ {id} : pending'[i] = pending[i]
  BY DEF Issue, With
<1>3. UNCHANGED <<logins, tokens, clock, bypass, refused, served>>
  BY DEF Issue
<1> HIDE DEF challenge
<1>4. AuthTypeOK'
  <2>1. DOMAIN pending' \subseteq Ids /\ DOMAIN issued' \subseteq Ids
    BY <1>1, <1>2 DEF AuthTypeOK
  <2>2. \A i \in DOMAIN issued' : issued'[i] \in Challenge
    BY <1>1 DEF AuthTypeOK
  <2>3. \A i \in DOMAIN pending' : pending'[i] \in Challenge
    BY <1>1, <1>2 DEF AuthTypeOK
  <2> QED
    BY <2>1, <2>2, <2>3, <1>3 DEF AuthTypeOK
<1>5. StoreAgrees'
  <2>1. clock \in Nat
    BY WalletAuthAssumption DEF AuthTypeOK, Clock
  <2>2. \A i \in DOMAIN pending' : i \in DOMAIN issued' /\ pending'[i] = issued'[i]
    BY <1>1, <1>2 DEF StoreAgrees
  <2>3. \A i \in DOMAIN issued' : issued'[i].at <= clock'
    BY <2>1, <1>1, <1>3 DEF StoreAgrees
  <2> QED
    BY <2>2, <2>3 DEF StoreAgrees
<1>6. JobsAgree'
  BY <1>1, <1>2, <1>3 DEF JobsAgree, Busy
<1>7. JobsApart'
  BY <1>3 DEF JobsApart, Busy
<1>8. TokensAgree'
  BY <1>1, <1>2, <1>3 DEF TokensAgree
<1>9. TokensAreFinal' /\ TokensApart'
  BY <1>3 DEF TokensAreFinal, TokensApart, Busy
<1>10. ServedMeansLoggedIn'
  <2> SUFFICES ASSUME served # NotServed
               PROVE  \E t \in tokens : /\ t.sub = served.sub
                                        /\ issued'[t.id].address = served.sub
                                        /\ issued'[t.id].at <= t.iat
                                        /\ t.iat <= served.at
                                        /\ served.at <= t.iat + SessionTtl
    BY <1>3 DEF ServedMeansLoggedIn
  <2>1. PICK t \in tokens : /\ t.sub = served.sub
                            /\ issued[t.id].address = served.sub
                            /\ issued[t.id].at <= t.iat
                            /\ t.iat <= served.at
                            /\ served.at <= t.iat + SessionTtl
    BY DEF ServedMeansLoggedIn
  <2>2. issued'[t.id] = issued[t.id]
    BY <1>1 DEF TokensAgree
  <2> QED
    BY <2>1, <2>2
<1> QED
  BY <1>4, <1>5, <1>6, <1>7, <1>8, <1>9, <1>10

\* Whoever takes a challenge takes it out of the store.
LEMMA ConsumeKeeps ==
    ASSUME AuthIInv, NEW w \in AuthHandlers, NEW id \in Ids, NEW a \in Address,
           NEW s \in Wallets \cup {Nobody}, Consume(w, id, a, s)
    PROVE  AuthIInv'
<1> USE DEF AuthIInv
<1> DEFINE login == [pc |-> "verify", id |-> id, challenge |-> pending[id],
                     address |-> a, signer |-> s]
<1>1. /\ id \in DOMAIN pending /\ id \in DOMAIN issued
      /\ pending[id] = issued[id] /\ pending[id] \in Challenge
  BY DEF Consume, StoreAgrees, AuthTypeOK
<1>2. /\ DOMAIN pending' = DOMAIN pending \ {id}
      /\ \A i \in DOMAIN pending' : pending'[i] = pending[i]
  BY DEF Consume, Without
<1>3. UNCHANGED <<tokens, clock, bypass, issued, refused, served>>
  BY DEF Consume
<1>4. /\ login \in Login /\ login # NoLogin
      /\ login.id = id /\ login.challenge = issued[id]
  BY <1>1 DEF Login, NoLogin
<1>5. \/ logins' = logins
      \/ /\ logins'[w] = login
         /\ \A v \in AuthHandlers \ {w} : logins'[v] = logins[v]
  BY DEF Consume, AuthTypeOK
<1>6. logins' \in [AuthHandlers -> Login \cup {NoLogin}]
  <2>1. logins' = logins \/ logins' = [logins EXCEPT ![w] = login]
    BY DEF Consume
  <2> QED
    BY <2>1, <1>4 DEF AuthTypeOK
<1> HIDE DEF login
<1>7. AuthTypeOK'
  BY <1>2, <1>3, <1>6 DEF AuthTypeOK
<1>8. StoreAgrees'
  BY <1>2, <1>3 DEF StoreAgrees
<1>9. \A v \in AuthHandlers : logins'[v] # NoLogin =>
         \/ Busy(v) /\ logins'[v] = logins[v] /\ logins[v].id # id
         \/ v = w /\ logins'[v] = login
  BY <1>1, <1>5 DEF Busy, JobsAgree
<1>10. JobsAgree'
  BY <1>1, <1>2, <1>3, <1>4, <1>9 DEF JobsAgree, Busy
<1>11. JobsApart'
  BY <1>4, <1>9 DEF JobsApart, Busy
<1>12. TokensAgree'
  BY <1>2, <1>3 DEF TokensAgree
<1>13. TokensAreFinal'
  BY <1>1, <1>3, <1>4, <1>9 DEF TokensAreFinal, TokensAgree, Busy
<1>14. TokensApart' /\ ServedMeansLoggedIn'
  BY <1>3 DEF TokensApart, ServedMeansLoggedIn
<1> QED
  BY <1>7, <1>8, <1>10, <1>11, <1>12, <1>13, <1>14

\* A handler that ends leaves the others with what they had.
LEMMA Ending ==
    ASSUME AuthIInv, NEW w \in AuthHandlers, logins' = [logins EXCEPT ![w] = NoLogin],
           UNCHANGED <<pending, issued>>
    PROVE  /\ logins' \in [AuthHandlers -> Login \cup {NoLogin}]
           /\ \A v \in AuthHandlers : logins'[v] # NoLogin => v # w /\ logins'[v] = logins[v]
           /\ JobsAgree' /\ JobsApart'
<1> USE DEF AuthIInv
<1>1. /\ logins' \in [AuthHandlers -> Login \cup {NoLogin}]
      /\ \A v \in AuthHandlers : logins'[v] # NoLogin => v # w /\ logins'[v] = logins[v]
  BY DEF AuthTypeOK
<1>2. JobsAgree' /\ JobsApart'
  BY <1>1 DEF JobsAgree, JobsApart, Busy
<1> QED
  BY <1>1, <1>2

\* A login that is accepted leaves a token that names its challenge.
LEMMA AcceptKeeps ==
    ASSUME AuthIInv, NEW w \in AuthHandlers, Accept(w)
    PROVE  AuthIInv'
<1> USE DEF AuthIInv
<1> DEFINE token == NewToken(logins[w])
<1>1. /\ Busy(w) /\ logins[w].challenge.address = logins[w].address
      /\ tokens' = tokens \cup {token}
      /\ logins' = [logins EXCEPT ![w] = NoLogin]
      /\ UNCHANGED <<pending, clock, bypass, issued, refused, served>>
  BY DEF Accept, Accepted, Busy
<1>2. clock \in Nat /\ clock <= MaxClock /\ MaxClock \in Nat /\ SessionTtl \in Nat
  BY WalletAuthAssumption DEF AuthTypeOK, Clock
<1>3. /\ token.id = logins[w].id /\ token.sub = logins[w].address
      /\ token.iat = clock /\ token.exp = clock + SessionTtl
  BY DEF NewToken
<1>4. token \in Token
  <2>1. clock \in Clock /\ clock + SessionTtl \in 0..MaxClock + SessionTtl
    BY <1>2 DEF Clock
  <2> QED
    BY <2>1, <1>1, Holds DEF Token, NewToken
<1> HIDE DEF token
<1>5. /\ token.id \in DOMAIN issued /\ token.id \notin DOMAIN pending
      /\ token.sub = issued[token.id].address
      /\ issued[token.id].at <= clock
  BY <1>1, <1>3 DEF JobsAgree, StoreAgrees
<1>6. /\ logins' \in [AuthHandlers -> Login \cup {NoLogin}]
      /\ \A v \in AuthHandlers : logins'[v] # NoLogin => v # w /\ logins'[v] = logins[v]
      /\ JobsAgree' /\ JobsApart'
  BY <1>1, Ending
<1>7. AuthTypeOK'
  BY <1>1, <1>4, <1>6 DEF AuthTypeOK
<1>8. StoreAgrees'
  BY <1>1 DEF StoreAgrees
<1>9. TokensAgree'
  BY <1>1, <1>2, <1>3, <1>5 DEF TokensAgree
<1>10. TokensAreFinal'
  <2> SUFFICES ASSUME NEW t \in tokens', NEW v \in AuthHandlers, logins'[v] # NoLogin
               PROVE  logins'[v].id # t.id
    BY DEF TokensAreFinal, Busy
  <2>1. v # w /\ logins'[v] = logins[v] /\ Busy(v)
    BY <1>6 DEF Busy
  <2>2. CASE t \in tokens
    BY <2>1, <2>2 DEF TokensAreFinal
  <2>3. CASE t = token
    BY <2>1, <2>3, <1>1, <1>3 DEF JobsApart
  <2> QED
    BY <2>2, <2>3, <1>1
<1>11. TokensApart'
  <2>1. \A t \in tokens : t.id # token.id
    BY <1>1, <1>3 DEF TokensAreFinal
  <2> QED
    BY <2>1, <1>1 DEF TokensApart
<1>12. ServedMeansLoggedIn'
  BY <1>1 DEF ServedMeansLoggedIn
<1> QED
  BY <1>6, <1>7, <1>8, <1>9, <1>10, <1>11, <1>12

\* A login that is refused leaves no token.
LEMMA RejectKeeps ==
    ASSUME AuthIInv, NEW w \in AuthHandlers, Reject(w)
    PROVE  AuthIInv'
<1> USE DEF AuthIInv
<1>1. /\ Busy(w) /\ refused' = logins[w]
      /\ logins' = [logins EXCEPT ![w] = NoLogin]
      /\ UNCHANGED <<pending, tokens, clock, bypass, issued, served>>
  BY DEF Reject, Busy
<1>2. /\ logins' \in [AuthHandlers -> Login \cup {NoLogin}]
      /\ \A v \in AuthHandlers : logins'[v] # NoLogin => v # w /\ logins'[v] = logins[v]
      /\ JobsAgree' /\ JobsApart'
  BY <1>1, Ending
<1>3. AuthTypeOK'
  BY <1>1, <1>2, Holds DEF AuthTypeOK
<1>4. StoreAgrees' /\ TokensAgree' /\ TokensApart' /\ ServedMeansLoggedIn'
  BY <1>1 DEF StoreAgrees, TokensAgree, TokensApart, ServedMeansLoggedIn
<1>5. TokensAreFinal'
  BY <1>1, <1>2 DEF TokensAreFinal, Busy
<1> QED
  BY <1>2, <1>3, <1>4, <1>5

\* A request served under a token changes neither challenges nor tokens.
LEMMA ServeKeeps ==
    ASSUME AuthIInv, NEW t \in tokens, Serve(t)
    PROVE  AuthIInv'
<1> USE DEF AuthIInv
<1>1. /\ clock <= t.exp /\ served' = [sub |-> t.sub, at |-> clock]
      /\ UNCHANGED <<pending, logins, tokens, clock, bypass, issued, refused>>
  BY DEF Serve, ValidToken
<1>2. served'.sub = t.sub /\ served'.at = clock
  BY <1>1
<1>3. AuthTypeOK'
  BY <1>1 DEF AuthTypeOK, Token
<1>4. ServedMeansLoggedIn'
  BY <1>1, <1>2 DEF ServedMeansLoggedIn, TokensAgree
<1>5. StoreAgrees' /\ JobsAgree' /\ JobsApart'
  BY <1>1 DEF StoreAgrees, JobsAgree, JobsApart, Busy
<1>6. TokensAgree' /\ TokensAreFinal' /\ TokensApart'
  BY <1>1 DEF TokensAgree, TokensAreFinal, TokensApart, Busy
<1> QED
  BY <1>3, <1>4, <1>5, <1>6

\* Time passing makes challenges and tokens expire and nothing else.
LEMMA TickKeeps == ASSUME AuthIInv, ClockTicks PROVE AuthIInv'
<1> USE DEF AuthIInv
<1>1. /\ clock \in Nat /\ clock' = clock + 1
      /\ UNCHANGED <<pending, logins, tokens, bypass, issued, refused, served>>
  BY WalletAuthAssumption DEF ClockTicks, AuthTypeOK, Clock
<1>2. AuthTypeOK'
  BY WalletAuthAssumption, <1>1 DEF AuthTypeOK, ClockTicks, Clock
<1>3. StoreAgrees'
  <2>1. \A id \in DOMAIN issued : issued[id].at \in Nat
    BY DEF AuthTypeOK, Challenge, Clock
  <2> QED
    BY <2>1, <1>1 DEF StoreAgrees
<1>4. JobsAgree' /\ JobsApart' /\ TokensAreFinal' /\ TokensApart'
  BY <1>1 DEF JobsAgree, JobsApart, TokensAreFinal, TokensApart, Busy
<1>5. TokensAgree'
  <2>1. \A t \in tokens : t.iat \in Nat
    BY DEF AuthTypeOK, Token, Clock
  <2> QED
    BY <2>1, <1>1 DEF TokensAgree
<1>6. ServedMeansLoggedIn'
  BY <1>1 DEF ServedMeansLoggedIn
<1> QED
  BY <1>2, <1>3, <1>4, <1>5, <1>6

\* A restart empties the store and drops the logins under way.
LEMMA RestartKeeps == ASSUME AuthIInv, AuthRestart PROVE AuthIInv'
<1> USE DEF AuthIInv
<1>1. /\ DOMAIN pending' = {} /\ \A w \in AuthHandlers : logins'[w] = NoLogin
      /\ logins' \in [AuthHandlers -> Login \cup {NoLogin}]
      /\ bypass' \in BOOLEAN
      /\ UNCHANGED <<tokens, clock, issued, refused, served>>
  BY DEF AuthRestart
<1>2. AuthTypeOK'
  BY <1>1 DEF AuthTypeOK
<1>3. StoreAgrees' /\ JobsAgree' /\ JobsApart' /\ TokensAreFinal'
  BY <1>1 DEF StoreAgrees, JobsAgree, JobsApart, TokensAreFinal, Busy
<1>4. TokensAgree' /\ TokensApart' /\ ServedMeansLoggedIn'
  BY <1>1 DEF TokensAgree, TokensApart, ServedMeansLoggedIn
<1> QED
  BY <1>2, <1>3, <1>4

\* Every step of the login service preserves the invariant.
LEMMA Inductive == ASSUME AuthIInv, [AuthNext]_authVars PROVE AuthIInv'
<1>1. ASSUME NEW id \in Ids, NEW a \in Address, Issue(id, a) PROVE AuthIInv'
  BY <1>1, IssueKeeps
<1>2. ASSUME NEW w \in AuthHandlers, NEW id \in Ids, NEW a \in Address,
             NEW s \in Wallets \cup {Nobody}, Consume(w, id, a, s)
      PROVE  AuthIInv'
  BY <1>2, ConsumeKeeps
<1>3. ASSUME NEW w \in AuthHandlers, Accept(w) PROVE AuthIInv'
  BY <1>3, AcceptKeeps
<1>4. ASSUME NEW w \in AuthHandlers, Reject(w) PROVE AuthIInv'
  BY <1>4, RejectKeeps
<1>5. ASSUME NEW t \in tokens, Serve(t) PROVE AuthIInv'
  BY <1>5, ServeKeeps
<1>6. ASSUME ClockTicks PROVE AuthIInv'
  BY <1>6, TickKeeps
<1>7. ASSUME AuthRestart PROVE AuthIInv'
  BY <1>7, RestartKeeps
<1>8. ASSUME UNCHANGED authVars PROVE AuthIInv'
  <2> USE <1>8 DEF authVars
  <2>1. AuthTypeOK' /\ StoreAgrees' /\ JobsAgree' /\ JobsApart'
    BY DEF AuthIInv, AuthTypeOK, StoreAgrees, JobsAgree, JobsApart, Busy
  <2>2. TokensAgree' /\ TokensAreFinal' /\ TokensApart' /\ ServedMeansLoggedIn'
    BY DEF AuthIInv, TokensAgree, TokensAreFinal, TokensApart, ServedMeansLoggedIn, Busy
  <2> QED
    BY <2>1, <2>2 DEF AuthIInv
<1> QED
  BY <1>1, <1>2, <1>3, <1>4, <1>5, <1>6, <1>7, <1>8 DEF AuthNext

\* The invariant of the login service holds in every reachable state.
LEMMA Always == AuthSpec => []AuthIInv
<1>1. AuthInit => AuthIInv
  BY InitHolds
<1>2. AuthIInv /\ [AuthNext]_authVars => AuthIInv'
  BY Inductive
<1> QED
  BY <1>1, <1>2, PTL DEF AuthSpec

-----------------------------------------------------------------------------
(* The properties *)

\* Challenges, logins and tokens stay well formed: in particular no token's
\* expiry leaves its range.
THEOREM AuthTypeCorrect == AuthSpec => []AuthTypeOK
<1>1. AuthIInv => AuthTypeOK
  BY DEF AuthIInv
<1> QED
  BY <1>1, Always, PTL

\* "Used challenges are deleted immediately": two handlers never work on one
\* challenge, and none works on a challenge a third could still find.
THEOREM ChallengesAreTakenOnce == AuthSpec => []TakenChallengesAreGone
<1>1. AuthIInv => TakenChallengesAreGone
  BY DEF AuthIInv, JobsAgree, JobsApart, TakenChallengesAreGone, Busy
<1> QED
  BY <1>1, Always, PTL

\* A challenge gives at most one token, for the address it was issued to,
\* however many requests, clocks and restarts come between.
THEOREM OneSession == AuthSpec => []OneTokenPerChallenge
<1>1. AuthIInv => OneTokenPerChallenge
  BY DEF AuthIInv, TokensAgree, TokensApart, OneTokenPerChallenge
<1> QED
  BY <1>1, Always, PTL

\* A request is served only under a login of its own address that is at most
\* one session lifetime old, restarts or not.
THEOREM SessionsEnd == AuthSpec => []ServedMeansLoggedIn
<1>1. AuthIInv => ServedMeansLoggedIn
  BY DEF AuthIInv
<1> QED
  BY <1>1, Always, PTL
==============================================================================
