------------------------------ MODULE Takedown ------------------------------
(***************************************************************************)
(* apps/api-server/src/takedown.rs: copyright notices and counter-notices. *)
(*                                                                         *)
(* A notice is stored as Received, set to ContentRemoved by an update in   *)
(* the same request, and its id, drawn at random, is told in the answer.   *)
(* Whoever knows an id may send a counter-notice for it.  Handlers run     *)
(* concurrently, the server may stop and start again, and a transaction    *)
(* of the store may fail: add() reports it, the updates ignore it.         *)
(*                                                                         *)
(* Requests without good faith are refused before anything is stored and   *)
(* are left out, as is an id drawn twice (32 random bits and the date).    *)
(***************************************************************************)
EXTENDS LmdbStore

CONSTANTS Uploaders,     \* who sends a counter-notice
          Nobody,
          StorageFails   \* whether transactions of the store may fail

VARIABLES job,    \* per handler: the request it serves and what it does next
          drawn,  \* ids drawn so far
          told    \* history: the status last told to a client, by id

vars == <<db, copy, job, drawn, told>>

NoticeStatus == {"Received", "ContentRemoved", "CounterReceived"}

Notice == [status : NoticeStatus, counter : Uploaders \cup {Nobody},
           resolved : BOOLEAN]

ASSUME TakedownAssumption == /\ Nobody \notin Uploaders
                             /\ Absent \notin Notice \cup NoticeStatus
                             /\ StorageFails \in BOOLEAN

Idle == [what |-> "nothing", id |-> Absent, by |-> Nobody, pc |-> "idle"]

Job == [what : {"submit", "counter"}, id : Keys, by : Uploaders \cup {Nobody},
        pc : {"add", "read", "write", "answer"}]

TypeOK == /\ db \in [Keys -> Notice \cup {Absent}]
          /\ copy \in [Workers -> Notice \cup {Absent}]
          /\ job \in [Workers -> Job \cup {Idle}]
          /\ drawn \subseteq Keys
          /\ told \in [Keys -> NoticeStatus \cup {Absent}]

Init == /\ db = EmptyStore
        /\ copy = NoCopies
        /\ job = [w \in Workers |-> Idle]
        /\ drawn = {}
        /\ told = EmptyStore

-----------------------------------------------------------------------------
(* Faults: single slips in the code below, for mutation runs *)

KnownIds_BeforeTheAnswer == {id \in Keys : db[id] # Absent}

AddFailed_Ignored(w) == job' = [job EXCEPT ![w].pc = "read"]

-----------------------------------------------------------------------------
(* What an update changes *)

Received == [status |-> "Received", counter |-> Nobody, resolved |-> FALSE]

\* update_status(id, ContentRemoved)
Removed(n) == [n EXCEPT !.status = "ContentRemoved", !.resolved = TRUE]

\* set_counter
Countered(n, by) == [n EXCEPT !.status = "CounterReceived", !.counter = by]

Changed(w, n) ==
    IF job[w].what = "submit" THEN Removed(n) ELSE Countered(n, job[w].by)

-----------------------------------------------------------------------------
(* The handlers *)

\* submit_notice draws an id.
Submit(w, id) ==
    /\ job[w] = Idle
    /\ id \notin drawn
    /\ drawn' = drawn \cup {id}
    /\ job' = [job EXCEPT ![w] = [what |-> "submit", id |-> id, by |-> Nobody,
                                  pc |-> "add"]]
    /\ UNCHANGED <<db, copy, told>>

Add(w) ==
    /\ job[w].pc = "add"
    /\ Put(job[w].id, Received)
    /\ job' = [job EXCEPT ![w].pc = "read"]
    /\ UNCHANGED <<copy, drawn, told>>

\* add() failed: 500, and the request is over.
AddFailed(w) == job' = [job EXCEPT ![w] = Idle]

FailedAdd(w) ==
    /\ StorageFails
    /\ job[w].pc = "add"
    /\ WriteFails
    /\ AddFailed(w)
    /\ UNCHANGED <<copy, drawn, told>>

KnownIds == {id \in Keys : told[id] # Absent}

\* submit_counter_notice; 404 for an id that is not stored.
Counter(w, id, by) ==
    /\ job[w] = Idle
    /\ id \in KnownIds
    /\ db[id] # Absent
    /\ job' = [job EXCEPT ![w] = [what |-> "counter", id |-> id, by |-> by,
                                  pc |-> "read"]]
    /\ UNCHANGED <<db, copy, drawn, told>>

Read(w) ==
    /\ job[w].pc = "read"
    /\ UpdateRead(w, job[w].id)
    /\ job' = [job EXCEPT ![w].pc = IF db[job[w].id] = Absent THEN "answer" ELSE "write"]
    /\ UNCHANGED <<db, drawn, told>>

Write(w) ==
    /\ job[w].pc = "write"
    /\ UpdateWrite(w, job[w].id, Changed(w, copy[w]))
    /\ job' = [job EXCEPT ![w].pc = "answer"]
    /\ UNCHANGED <<drawn, told>>

\* `let _ = self.db.update(..)`: a failed update is not noticed.
FailedUpdate(w) ==
    /\ StorageFails
    /\ job[w].pc \in {"read", "write"}
    /\ WriteFails
    /\ ForgetCopy(w)
    /\ job' = [job EXCEPT ![w].pc = "answer"]
    /\ UNCHANGED <<drawn, told>>

Answer(w) ==
    /\ job[w].pc = "answer"
    /\ told' = [told EXCEPT ![job[w].id] =
                   IF job[w].what = "submit" THEN "ContentRemoved" ELSE "CounterReceived"]
    /\ job' = [job EXCEPT ![w] = Idle]
    /\ UNCHANGED <<db, copy, drawn>>

\* The server stops and starts again: handlers are gone, the store is not.
Restart ==
    /\ copy' = NoCopies
    /\ job' = [w \in Workers |-> Idle]
    /\ UNCHANGED <<db, drawn, told>>

Next == \/ \E w \in Workers :
             \/ \E id \in Keys : Submit(w, id)
             \/ \E id \in Keys, by \in Uploaders : Counter(w, id, by)
             \/ Add(w) \/ FailedAdd(w)
             \/ Read(w) \/ Write(w) \/ FailedUpdate(w)
             \/ Answer(w)
        \/ Restart

Spec == Init /\ [][Next]_vars

-----------------------------------------------------------------------------
(* Properties *)

\* "notices survive server restarts" (line 3): whatever id a client was told,
\* the notice is there, after any restart and any failure of the store.
AnsweredNoticesAreStored == \A id \in KnownIds : db[id] # Absent

\* The update of a notice is two transactions (persist.rs 116-131), yet it
\* always has the effect of one: nobody can write the notice in between,
\* because nobody knows its id before the answer, and counter-notices set the
\* same fields.
UpdatesAreAtomic ==
    [][\A w \in Workers :
         Write(w) => Put(job[w].id, Changed(w, db[job[w].id]))]_vars

\* Once a counter-notice is stored the notice never falls back to
\* ContentRemoved and always names who countered it, even when the request
\* that removed the content is still running.
CounterNoticesStay ==
    [][\A id \in Keys :
         db[id] # Absent /\ db[id].counter # Nobody =>
            /\ db'[id].status = "CounterReceived"
            /\ db'[id].counter # Nobody]_vars

-----------------------------------------------------------------------------
(* What the code's comments say and the code does not do, see README.md *)

\* A client that was told a status can rely on it: the answer of line 144 and
\* the message of line 145 ("Notice received. Content removed within 24h").
StatusToldIsStored ==
    \A id \in KnownIds :
       told[id] = "ContentRemoved" /\ (\A w \in Workers : job[w] = Idle)
          => db[id].status # "Received"
=============================================================================
