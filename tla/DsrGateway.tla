----------------------------- MODULE DsrGateway -----------------------------
(***************************************************************************)
(* The DSR pull cycle: ddex_gateway.rs over sftp.rs and dsr_parser.rs.     *)
(*                                                                         *)
(* A request for a cycle visits the stores (DSPs) one after the other.  It *)
(* lists the reports a store has dropped, and for each one downloads it to *)
(* a staging file, reads the file for the receipt, reads it again to parse *)
(* it, and at some stores deletes the report there.  The results go into   *)
(* the answer and nowhere else.  Requests run concurrently and use the     *)
(* same staging file for the same report.                                  *)
(*                                                                         *)
(* Lists, transfers and deletions are child processes (the production      *)
(* path).  A child may fail, hang, and outlive its request: when a client  *)
(* goes away or the server stops, the handler is dropped and the child it  *)
(* waited for goes on (no kill_on_drop), writing the staging file or       *)
(* deleting the report.                                                    *)
(***************************************************************************)
EXTENDS Naturals, Sequences, FiniteSets

CONSTANTS Handlers,     \* cycles that run at a time
          DspOrder,     \* the stores that drop reports, in configuration order
          Files,        \* reports, of all stores
          At, Kind,     \* the store of a report; what is in the report
          Deletes,      \* stores with delete_after_ingest
          MaxCycles     \* bound: cycles started

Kinds == {"report", "small", "badname", "nontext"}

Dsps == {DspOrder[i] : i \in DOMAIN DspOrder}

NoOne == "no one"

ASSUME GatewayAssumption ==
    /\ Len(DspOrder) \in Nat /\ DOMAIN DspOrder = 1..Len(DspOrder)
    /\ \A i, j \in DOMAIN DspOrder : DspOrder[i] = DspOrder[j] => i = j
    /\ At \in [Files -> Dsps] /\ Kind \in [Files -> Kinds]
    /\ Deletes \subseteq Dsps
    /\ MaxCycles \in Nat
    /\ NoOne \notin Files

VARIABLES place,     \* per report: not yet dropped, in the drop directory, or removed
          staged,    \* staging files: which cycle's transfer truncated it last, is it done
          child,     \* per cycle, by number: the transfer or deletion that runs for it
          cycle,     \* per handler: the cycle it runs
          cycles,    \* cycles started so far
          readWhole, \* history: reports parsed from a complete copy
          crossed,   \* history: reports truncated under a cycle that was using the copy
          deletions, \* history: reports with an event "Deleted remote file"
          answered   \* history: how many answers contained a report

vars == <<place, staged, child, cycle, cycles, readWhole, crossed, deletions, answered>>

histories == <<readWhole, crossed, deletions, answered>>

Idle == [pc |-> "idle", id |-> 0, dsp |-> 0, todo |-> {}, found |-> {}, file |-> NoOne,
         processed |-> {}, rejected |-> {}]

Cycle == [pc : {"list", "next", "get", "size", "parse", "delete"},
          id : 1..MaxCycles, dsp : DOMAIN DspOrder \cup {Len(DspOrder) + 1},
          todo : SUBSET Files, found : SUBSET Files, file : Files \cup {NoOne},
          processed : SUBSET Files, rejected : SUBSET Files]

\* A child process; a transfer has opened, and so truncated, its staging file or not yet.
NoChild == [does |-> "nothing", file |-> NoOne, opened |-> FALSE]

Child == [does : {"get", "delete"}, file : Files, opened : BOOLEAN]

TypeOK == /\ place \in [Files -> {"expected", "dropped", "removed"}]
          /\ staged \in [Files -> [by : 0..MaxCycles, done : BOOLEAN]]
          /\ child \in [1..MaxCycles -> Child \cup {NoChild}]
          /\ cycle \in [Handlers -> Cycle \cup {Idle}]
          /\ cycles \in 0..MaxCycles
          /\ readWhole \subseteq Files
          /\ crossed \subseteq Files
          /\ deletions \subseteq Files
          /\ answered \in [Files -> Nat]

Init == /\ place \in [Files -> {"expected", "dropped"}]
        /\ staged = [f \in Files |-> [by |-> 0, done |-> FALSE]]
        /\ child = [n \in 1..MaxCycles |-> NoChild]
        /\ cycle = [c \in Handlers |-> Idle]
        /\ cycles = 0
        /\ readWhole = {}
        /\ crossed = {}
        /\ deletions = {}
        /\ answered = [f \in Files |-> 0]

\* The drop directories of all stores.
remote == {f \in Files : place[f] = "dropped"}

Whole(f) == staged[f].done

-----------------------------------------------------------------------------
(* Faults: single slips in the code below, for mutation runs *)

Rejected_Uncounted(c) == [cycle[c] EXCEPT !.pc = "next"]

AfterSize_Deletes(c) == IF At[cycle[c].file] \in Deletes THEN "delete" ELSE "parse"

NextDsp_Stays(c) == [Idle EXCEPT !.pc = "list", !.id = cycle[c].id, !.dsp = cycle[c].dsp]

-----------------------------------------------------------------------------
(* One cycle *)

Here(c) == DspOrder[cycle[c].dsp]

FirstDsp == 1

StartCycle(c) ==
    /\ cycle[c] = Idle
    /\ cycles < MaxCycles
    /\ cycles' = cycles + 1
    /\ cycle' = [cycle EXCEPT ![c] = [Idle EXCEPT !.pc = "list", !.id = cycles + 1,
                                                  !.dsp = FirstDsp]]
    /\ UNCHANGED <<place, staged, child, histories>>

\* The process that a handler starts when it comes to this step, if any.
Spawned(k) == IF k.pc \in {"get", "delete"}
              THEN [does |-> k.pc, file |-> k.file, opened |-> FALSE]
              ELSE NoChild

\* The handler goes on; the process it waited for, if any, has ended.
GoesOn(c, k) == /\ cycle' = [cycle EXCEPT ![c] = k]
                /\ child' = [child EXCEPT ![cycle[c].id] = Spawned(k)]
                /\ UNCHANGED cycles

\* Results of this store so far stay; the counters start again.
NextDsp(c) == [Idle EXCEPT !.pc = "list", !.id = cycle[c].id, !.dsp = cycle[c].dsp + 1,
                           !.processed = cycle[c].processed]

Listed(dsp) == {f \in remote : At[f] = dsp}

\* sftp_list returns; when it failed this store has no results.  The processes
\* it starts change nothing.
List(c) ==
    /\ cycle[c].pc = "list" /\ cycle[c].dsp \in DOMAIN DspOrder
    /\ \/ GoesOn(c, [cycle[c] EXCEPT !.pc = "next", !.todo = Listed(Here(c)),
                                     !.found = Listed(Here(c))])
       \/ GoesOn(c, NextDsp(c))
    /\ UNCHANGED <<place, staged, histories>>

\* One report counted as rejected, and on to the next one.
Rejected(c) == [cycle[c] EXCEPT !.pc = "next", !.rejected = @ \cup {cycle[c].file}]

\* The head of the loop: a bad name is rejected, else the transfer is started.
Taken(c, f) ==
    LET taken == [cycle[c] EXCEPT !.file = f, !.todo = @ \ {f}]
    IN  IF Kind[f] = "badname" THEN [taken EXCEPT !.rejected = @ \cup {f}]
        ELSE [taken EXCEPT !.pc = "get"]

Take(c, f) ==
    /\ cycle[c].pc = "next"
    /\ f \in cycle[c].todo
    /\ GoesOn(c, Taken(c, f))
    /\ UNCHANGED <<place, staged, histories>>

\* The transfer of cycle n ends well.  The copy is complete unless another
\* transfer has truncated the file since this one did.
Writes(n) ==
    /\ child[n].does = "get" /\ child[n].opened
    /\ staged' = [staged EXCEPT ![child[n].file].done = @ \/ staged[child[n].file].by = n]

GetEnds(c) ==
    /\ cycle[c].pc = "get"
    /\ Writes(cycle[c].id)
    /\ GoesOn(c, [cycle[c] EXCEPT !.pc = "size"])
    /\ UNCHANGED <<place, histories>>

GetFails(c) ==
    /\ cycle[c].pc = "get"
    /\ GoesOn(c, Rejected(c))
    /\ UNCHANGED <<place, staged, histories>>

AfterSize(c) == "parse"

\* The copy is read for the receipt; below min_dsr_file_bytes it is rejected,
\* as it is when it cannot be read.
CheckSize(c) ==
    LET f == cycle[c].file
    IN  /\ cycle[c].pc = "size"
        /\ \/ Kind[f] # "small" /\ GoesOn(c, [cycle[c] EXCEPT !.pc = AfterSize(c)])
           \/ GoesOn(c, Rejected(c))
        /\ UNCHANGED <<place, staged, histories>>

Processed(c) ==
    [cycle[c] EXCEPT !.processed = @ \cup {cycle[c].file},
                     !.pc = IF Here(c) \in Deletes THEN "delete" ELSE "next"]

\* The copy is read again.  Any text gives a report, an empty one if no line
\* looks like a header; only bytes that are no text are an error.  At some
\* stores the deletion is started.
Parse(c) ==
    LET f == cycle[c].file
    IN  /\ cycle[c].pc = "parse"
        /\ Kind[f] # "nontext" \/ ~Whole(f)
        /\ readWhole' = IF Whole(f) THEN readWhole \cup {f} ELSE readWhole
        /\ GoesOn(c, Processed(c))
        /\ UNCHANGED <<place, staged, crossed, deletions, answered>>

ParseFails(c) ==
    /\ cycle[c].pc = "parse"
    /\ GoesOn(c, Rejected(c))
    /\ UNCHANGED <<place, staged, histories>>

\* `rm` at the store, which may fail.
Removes(f) == \/ place' = [place EXCEPT ![f] = "removed"]
              \/ UNCHANGED place

\* sftp_delete is Ok whether or not `rm` succeeded.
Delete(c) ==
    LET f == cycle[c].file
    IN  /\ cycle[c].pc = "delete"
        /\ Removes(f)
        /\ deletions' = deletions \cup {f}
        /\ GoesOn(c, [cycle[c] EXCEPT !.pc = "next"])
        /\ UNCHANGED <<staged, readWhole, crossed, answered>>

\* ssh could not be run: an Err, and no event.
DeleteFails(c) ==
    /\ cycle[c].pc = "delete"
    /\ GoesOn(c, [cycle[c] EXCEPT !.pc = "next"])
    /\ UNCHANGED <<place, staged, histories>>

DspDone(c) ==
    /\ cycle[c].pc = "next" /\ cycle[c].todo = {}
    /\ GoesOn(c, NextDsp(c))
    /\ UNCHANGED <<place, staged, histories>>

\* gateway_dsr_cycle answers.
Answer(c) ==
    /\ cycle[c].pc = "list" /\ cycle[c].dsp \notin DOMAIN DspOrder
    /\ answered' = [f \in Files |-> IF f \in cycle[c].processed
                                    THEN answered[f] + 1 ELSE answered[f]]
    /\ GoesOn(c, Idle)
    /\ UNCHANGED <<place, staged, readWhole, crossed, deletions>>

-----------------------------------------------------------------------------
(* Around the cycles *)

\* A store drops a report.
Drop(f) == /\ place[f] = "expected"
           /\ place' = [place EXCEPT ![f] = "dropped"]
           /\ UNCHANGED <<staged, child, cycle, cycles, histories>>

\* A cycle other than n that has begun to write, or is about to read, the copy of f.
Uses(c, n, f) ==
    /\ cycle[c].id # n /\ cycle[c].file = f
    /\ \/ cycle[c].pc \in {"size", "parse"}
       \/ cycle[c].pc = "get" /\ child[cycle[c].id].opened

\* The transfer of cycle n, whether or not anybody waits for it, finds its
\* report and truncates the staging file.
Truncates(n) ==
    LET f == child[n].file
    IN  /\ child[n].does = "get" /\ ~child[n].opened
        /\ f \in remote
        /\ child' = [child EXCEPT ![n].opened = TRUE]
        /\ staged' = [staged EXCEPT ![f] = [by |-> n, done |-> FALSE]]
        /\ crossed' = IF \E c \in Handlers : Uses(c, n, f) THEN crossed \cup {f} ELSE crossed
        /\ UNCHANGED <<place, cycle, cycles, readWhole, deletions, answered>>

\* The client goes away or the server stops: the handler is dropped at the
\* await it is in, and its process goes on.
Abandon(c) ==
    /\ cycle[c] # Idle
    /\ cycle' = [cycle EXCEPT ![c] = Idle]
    /\ UNCHANGED <<place, staged, child, cycles, histories>>

\* A process nobody waits for any more ends, after its work or without.
OrphanEnds(n) ==
    /\ child[n] # NoChild
    /\ \A c \in Handlers : cycle[c].id # n
    /\ \/ Writes(n) /\ UNCHANGED place
       \/ child[n].does = "delete" /\ Removes(child[n].file) /\ UNCHANGED staged
       \/ UNCHANGED <<place, staged>>
    /\ child' = [child EXCEPT ![n] = NoChild]
    /\ UNCHANGED <<cycle, cycles, histories>>

\* What the handler does by itself.
OwnStep(c) == \/ CheckSize(c) \/ Parse(c) \/ ParseFails(c) \/ DspDone(c) \/ Answer(c)
              \/ \E f \in Files : Take(c, f)

\* A process the handler waits for ends.
ChildStep(c) == \/ List(c) \/ GetEnds(c) \/ GetFails(c) \/ Delete(c) \/ DeleteFails(c)

Next == \/ \E c \in Handlers : StartCycle(c) \/ OwnStep(c) \/ ChildStep(c) \/ Abandon(c)
        \/ \E n \in 1..MaxCycles : Truncates(n) \/ OrphanEnds(n)
        \/ \E f \in Files : Drop(f)

\* A handler that can go on does: its executor polls it.  Nothing makes a child
\* process end: no time-out is applied to any of them.
Fairness == \A c \in Handlers : WF_vars(OwnStep(c))

Spec == Init /\ [][Next]_vars /\ Fairness

-----------------------------------------------------------------------------
(* Properties *)

\* Every report that was listed ends up processed or rejected and never both,
\* whatever fails on the way (files_discovered, files_processed and
\* files_rejected of the result).
CountsAddUp ==
    \A c \in Handlers :
       /\ cycle[c].processed \cap cycle[c].rejected = {}
       /\ cycle[c].pc = "next" /\ cycle[c].todo = {} =>
             cycle[c].found = (cycle[c].processed \cap cycle[c].found) \cup cycle[c].rejected

\* However many cycles run, fail and are given up, with their processes going
\* on: the one way to lose a report is that another cycle's transfer truncated
\* the staging file under the cycle using it (ddex_gateway.rs line 426).  Every
\* other report that is removed from its store was parsed from a complete copy
\* before.
OnlyCrossedReportsAreLost == [][remote \ remote' \subseteq readWhole \cup crossed]_vars

\* The handler waits for a child process (sftp.rs lines 212, 233, 297 and 349).
WaitsForChild(c) ==
    \/ cycle[c].pc = "list" /\ cycle[c].dsp \in DOMAIN DspOrder
    \/ cycle[c].pc \in {"get", "delete"}

\* A cycle that is asked for ends, past every failing list, transfer, check and
\* deletion, or it waits for a child process for ever: nothing else can hold it.
EveryCycleEndsOrHangs ==
    \A c \in Handlers : []<>(cycle[c] = Idle) \/ <>[]WaitsForChild(c)

-----------------------------------------------------------------------------
(* What the code's comments say and the code does not do, see README.md *)

\* "Delete DSR files after successful ingestion" (line 103): no report is
\* removed from its store that has not been parsed from a complete copy.
DeletedMeansReadWhole == [][remote \ remote' \subseteq readWhole]_vars

\* "SFTP_TIMEOUT_SECS (default 60)" (sftp.rs line 51): no wait for a child
\* process is without end.
EveryWaitEnds == \A c \in Handlers : WaitsForChild(c) ~> ~WaitsForChild(c)

\* "download all new DSR files" (line 376): the revenue of a report is
\* counted in one answer only.
EachReportOnce == \A f \in Files : answered[f] <= 1

\* "Deleted remote file" (line 525) is said of reports that are gone.
DeletionEventsAreTrue == deletions \cap remote = {}

\* "revenue from DSP Y was ingested at time T" (line 8): a report that is gone
\* from its store is in some answer, or will be.
DeletedReportsAreAnswered ==
    \A f \in readWhole \ remote :
       answered[f] > 0 \/ \E c \in Handlers : f \in cycle[c].processed
=============================================================================
