---------------------------- MODULE GatewayProofs ----------------------------
(***************************************************************************)
(* Proofs about the two halves of the DDEX gateway, for any number of      *)
(* stores, reports, handlers and recordings and for every bound.           *)
(*                                                                         *)
(* DsrGateway: for any number of concurrent cycles and of processes left   *)
(* behind by cycles that were given up, the counters of an answer add up,  *)
(* and no report is deleted unread unless another transfer crossed it.     *)
(* The counters need the books of the loop (Booked): which reports of the  *)
(* store at hand are still to do, at work, or done, and that what earlier  *)
(* stores gave belongs to those stores.  The deletions need whose process  *)
(* is whose (OwnProcess), what a cycle has of its staging file (OwnCopy)   *)
(* and what a deletion that runs may remove (Removable).                   *)
(*                                                                         *)
(* ErnPush: ReceiptsAreTrue needs that the file a push works on is written *)
(* once per life of the server, since the counter its name is made of only *)
(* goes up while the server lives (Current).  The answers need how the     *)
(* stores of a push are divided while it runs (Divided).                   *)
(***************************************************************************)
EXTENDS DsrGateway, ErnPush, TLAPS

-----------------------------------------------------------------------------
(* Sales reports *)

Done(k) == k.processed \cup k.rejected

\* The loop over the reports of one store.
Booked(k) ==
    /\ k.processed \cap k.rejected = {}
    /\ k.todo \cap Done(k) = {}
    /\ \A f \in k.found : k.dsp \in DOMAIN DspOrder /\ At[f] = DspOrder[k.dsp]
    /\ \A f \in k.processed \ k.found : \E i \in DOMAIN DspOrder : i < k.dsp /\ At[f] = DspOrder[i]
    /\ k.todo \cup k.rejected \subseteq k.found
    /\ k.pc = "list" => k.found = {}
    /\ k.pc # "list" => k.dsp \in DOMAIN DspOrder
    /\ k.pc \in {"next", "delete"} => k.found \subseteq k.todo \cup Done(k)
    /\ k.pc = "delete" => k.file \in k.processed
    /\ k.pc \in {"get", "size", "parse"} =>
          /\ k.file \in k.found
          /\ k.file \notin k.todo \cup Done(k)
          /\ k.found \subseteq k.todo \cup Done(k) \cup {k.file}

BooksAreKept == \A c \in Handlers : cycle[c] # Idle => Booked(cycle[c])

IInv == TypeOK /\ BooksAreKept

\* Numbers of cycles are not given twice, and a process runs for a cycle that
\* was started.
Unique == \A c, d \in Handlers :
             cycle[c] # Idle /\ cycle[d] # Idle /\ cycle[c].id = cycle[d].id => c = d

Numbered == /\ \A c \in Handlers : cycle[c] # Idle => cycle[c].id <= cycles
            /\ \A n \in 1..MaxCycles : cycles < n => child[n] = NoChild

\* A cycle that runs has the process of the step it is in and no other.
OwnProcess(c) ==
    LET k == cycle[c]
    IN  k # Idle => /\ child[k.id].does = Spawned(k).does
                    /\ child[k.id].file = Spawned(k).file

\* What a cycle has of its staging file.
OwnCopy(c) ==
    LET k == cycle[c]
    IN  /\ k.pc = "get" /\ child[k.id].opened =>
             staged[k.file].by = k.id \/ k.file \in crossed
        /\ k.pc \in {"size", "parse"} => staged[k.file].done \/ k.file \in crossed

\* A deletion that runs, for whomever.
Removable(n) == child[n].does = "delete" => child[n].file \in readWhole \cup crossed

CInv == /\ IInv /\ Unique /\ Numbered
        /\ \A c \in Handlers : OwnProcess(c) /\ OwnCopy(c)
        /\ \A n \in 1..MaxCycles : Removable(n)

-----------------------------------------------------------------------------
(* Shapes *)

\* A handler that does something runs a cycle.
LEMMA Runs ==
    ASSUME TypeOK, NEW c \in Handlers, cycle[c] # Idle
    PROVE  /\ cycle[c] \in Cycle
           /\ cycle[c].pc \in {"list", "next", "get", "size", "parse", "delete"}
           /\ cycle[c].id \in 1..MaxCycles
           /\ cycle[c].dsp \in DOMAIN DspOrder \cup {Len(DspOrder) + 1}
           /\ cycle[c].todo \subseteq Files /\ cycle[c].found \subseteq Files
           /\ cycle[c].processed \subseteq Files /\ cycle[c].rejected \subseteq Files
           /\ cycle[c].file \in Files \cup {NoOne}
  BY DEF TypeOK, Cycle

\* Idle is at no step.
LEMMA IdlePc == Idle.pc = "idle"
  BY DEF Idle

\* No process works on nothing.
LEMMA NoChildDoes == NoChild.does = "nothing" /\ NoChild.file = NoOne /\ NoChild.opened = FALSE
  BY DEF NoChild

\* A process that does something is one.
LEMMA ChildRuns ==
    ASSUME TypeOK, NEW n \in 1..MaxCycles, child[n] # NoChild
    PROVE  /\ child[n] \in Child /\ child[n].file \in Files
           /\ child[n].does \in {"get", "delete"} /\ child[n].opened \in BOOLEAN
  BY DEF TypeOK, Child

\* The process of a step is one of a cycle that is booked, and has yet to open
\* its file.
LEMMA Spawns ==
    ASSUME NEW k \in Cycle \cup {Idle}, k # Idle => Booked(k)
    PROVE  /\ Spawned(k) \in Child \cup {NoChild}
           /\ Spawned(k).opened = FALSE
           /\ k.pc \notin {"get", "delete"} => Spawned(k) = NoChild
<1>1. CASE k.pc \in {"get", "delete"}
  <2>1. k \in Cycle /\ Booked(k) /\ k.found \subseteq Files /\ k.processed \subseteq Files
    BY <1>1, IdlePc DEF Cycle
  <2>2. k.file \in Files
    BY <1>1, <2>1 DEF Booked
  <2> QED
    BY <1>1, <2>2 DEF Spawned, Child
<1>2. CASE k.pc \notin {"get", "delete"}
  BY <1>2, NoChildDoes DEF Spawned
<1> QED
  BY <1>1, <1>2

\* A handler whose next record is typed and booked leaves the others alone.
LEMMA Keeps ==
    ASSUME IInv, NEW c \in Handlers, NEW k \in Cycle \cup {Idle}, k # Idle => Booked(k),
           cycle' = [cycle EXCEPT ![c] = k]
    PROVE  cycle' \in [Handlers -> Cycle \cup {Idle}] /\ BooksAreKept'
  BY DEF IInv, TypeOK, BooksAreKept

\* So it does when it goes on with the process of its next step.
LEMMA Steps ==
    ASSUME IInv, NEW c \in Handlers, NEW k \in Cycle \cup {Idle}, k # Idle => Booked(k),
           GoesOn(c, k)
    PROVE  /\ cycle' \in [Handlers -> Cycle \cup {Idle}] /\ BooksAreKept'
           /\ child' \in [1..MaxCycles -> Child \cup {NoChild}]
           /\ cycles' \in 0..MaxCycles
<1>1. cycle' = [cycle EXCEPT ![c] = k] /\ cycles' = cycles
  BY DEF GoesOn
<1>2. cycle' \in [Handlers -> Cycle \cup {Idle}] /\ BooksAreKept'
  BY <1>1, Keeps
<1>3. child' = [child EXCEPT ![cycle[c].id] = Spawned(k)]
  BY DEF GoesOn
<1>4. child' \in [1..MaxCycles -> Child \cup {NoChild}]
  BY <1>3, Spawns DEF IInv, TypeOK
<1> QED
  BY <1>1, <1>2, <1>4 DEF IInv, TypeOK

\* The end of a transfer: no copy gets worse, and one that nobody else has
\* truncated since is complete.
LEMMA Written ==
    ASSUME TypeOK, NEW n \in 1..MaxCycles, Writes(n)
    PROVE  /\ staged' \in [Files -> [by : 0..MaxCycles, done : BOOLEAN]]
           /\ \A f \in Files : staged'[f].by = staged[f].by /\ (staged[f].done => staged'[f].done)
           /\ staged[child[n].file].by = n => staged'[child[n].file].done
<1> DEFINE f == child[n].file
<1>1. f \in Files
  BY ChildRuns, NoChildDoes DEF Writes
<1>2. staged' = [staged EXCEPT ![f] =
                   [staged[f] EXCEPT !.done = staged[f].done \/ staged[f].by = n]]
  BY <1>1 DEF Writes, TypeOK
<1>3. staged[f] \in [by : 0..MaxCycles, done : BOOLEAN]
  BY <1>1 DEF TypeOK
<1> HIDE DEF f
<1>4. staged' \in [Files -> [by : 0..MaxCycles, done : BOOLEAN]]
  BY <1>1, <1>2, <1>3 DEF TypeOK
<1>5. \A g \in Files : staged'[g].by = staged[g].by /\ (staged[g].done => staged'[g].done)
  BY <1>1, <1>2, <1>3 DEF TypeOK
<1>6. staged[f].by = n => staged'[f].done
  BY <1>1, <1>2, <1>3 DEF TypeOK
<1> QED
  BY <1>4, <1>5, <1>6 DEF f

\* A cycle of the store after the one at hand.
LEMMA Nexts ==
    ASSUME IInv, NEW c \in Handlers, cycle[c] # Idle, cycle[c].dsp \in DOMAIN DspOrder,
           cycle[c].pc = "list" \/ (cycle[c].pc = "next" /\ cycle[c].todo = {})
    PROVE  NextDsp(c) \in Cycle /\ Booked(NextDsp(c))
<1> DEFINE k == cycle[c]
           n == NextDsp(c)
<1>1. k \in Cycle /\ Booked(k)
  BY Runs DEF IInv, BooksAreKept
<1>2. /\ n.pc = "list" /\ n.id = k.id /\ n.dsp = k.dsp + 1 /\ n.todo = {} /\ n.found = {} /\ n.file = NoOne
      /\ n.processed = k.processed /\ n.rejected = {}
  BY DEF NextDsp, Idle
<1>3. k.dsp \in 1..Len(DspOrder) /\ Len(DspOrder) \in Nat
  BY GatewayAssumption
<1>4. k.dsp + 1 \in DOMAIN DspOrder \cup {Len(DspOrder) + 1}
  BY <1>3, GatewayAssumption
<1>5. n \in Cycle
  BY <1>1, <1>4 DEF NextDsp, Idle, Cycle
<1>6. ASSUME NEW f \in k.processed
      PROVE  \E i \in DOMAIN DspOrder : i < k.dsp + 1 /\ At[f] = DspOrder[i]
  <2>1. CASE f \in k.found
    BY <1>1, <1>3, <2>1 DEF Booked
  <2>2. CASE f \notin k.found
    <3>1. PICK i \in DOMAIN DspOrder : i < k.dsp /\ At[f] = DspOrder[i]
      BY <1>1, <1>6, <2>2 DEF Booked
    <3>2. i < k.dsp + 1
      BY <1>3, <3>1, GatewayAssumption
    <3> QED
      BY <3>1, <3>2
  <2> QED
    BY <2>1, <2>2
<1> HIDE DEF n, k
<1>7. Booked(n)
  BY <1>2, <1>6 DEF Booked, Done
<1> QED
  BY <1>5, <1>7 DEF n

\* A report counted as rejected.
LEMMA Rejects ==
    ASSUME IInv, NEW c \in Handlers, cycle[c] # Idle, cycle[c].pc \in {"get", "size", "parse"}
    PROVE  Rejected(c) \in Cycle /\ Booked(Rejected(c))
<1> DEFINE k == cycle[c]
           n == Rejected(c)
<1>1. k \in Cycle /\ Booked(k) /\ k.file \in k.found /\ k.found \subseteq Files
  BY Runs DEF IInv, BooksAreKept, Booked
<1>2. /\ n.pc = "next" /\ n.dsp = k.dsp /\ n.todo = k.todo /\ n.found = k.found
      /\ n.file = k.file /\ n.processed = k.processed
      /\ n.rejected = k.rejected \cup {k.file}
  BY <1>1 DEF Rejected, Cycle
<1>3. n \in Cycle
  BY <1>1 DEF Rejected, Cycle
<1>a. k.pc \in {"get", "size", "parse"}
  OBVIOUS
<1> HIDE DEF n, k
<1>4. Booked(n)
  BY <1>a, <1>1, <1>2 DEF Booked, Done
<1> QED
  BY <1>3, <1>4 DEF n

\* A report counted as processed.
LEMMA Processes ==
    ASSUME IInv, NEW c \in Handlers, cycle[c] # Idle, cycle[c].pc = "parse"
    PROVE  Processed(c) \in Cycle /\ Booked(Processed(c))
<1> DEFINE k == cycle[c]
           n == Processed(c)
<1>1. k \in Cycle /\ Booked(k) /\ k.file \in k.found /\ k.found \subseteq Files
  BY Runs DEF IInv, BooksAreKept, Booked
<1>2. /\ n.pc \in {"next", "delete"} /\ n.dsp = k.dsp /\ n.todo = k.todo /\ n.found = k.found
      /\ n.file = k.file /\ n.processed = k.processed \cup {k.file}
      /\ n.rejected = k.rejected
  BY <1>1 DEF Processed, Cycle
<1>3. n \in Cycle
  BY <1>1 DEF Processed, Cycle
<1> HIDE DEF n
<1>a. k.pc = "parse"
  OBVIOUS
<1> HIDE DEF k
<1>4. Booked(n)
  BY <1>a, <1>1, <1>2 DEF Booked, Done
<1> QED
  BY <1>3, <1>4 DEF n

\* A cycle goes from one step to another and changes nothing else.
LEMMA Goes ==
    ASSUME NEW k \in Cycle, Booked(k), NEW pc \in {"next", "size", "parse"},
           \/ k.pc \in {"get", "size", "parse"} /\ pc \in {"size", "parse"}
           \/ k.pc = "delete" /\ pc = "next"
    PROVE  [k EXCEPT !.pc = pc] \in Cycle /\ Booked([k EXCEPT !.pc = pc])
<1> DEFINE n == [k EXCEPT !.pc = pc]
<1>1. n \in Cycle
  BY DEF Cycle
<1>2. /\ n.pc = pc /\ n.dsp = k.dsp /\ n.todo = k.todo /\ n.found = k.found
      /\ n.file = k.file /\ n.processed = k.processed /\ n.rejected = k.rejected
  BY DEF Cycle
<1> HIDE DEF n
<1>3. Booked(n)
  BY <1>2 DEF Booked, Done
<1> QED
  BY <1>1, <1>3 DEF n

-----------------------------------------------------------------------------
(* Every step keeps the books *)

\* No cycle runs at first.
LEMMA InitInv == Init => IInv
  BY GatewayAssumption DEF Init, IInv, TypeOK, BooksAreKept

\* The head of the loop.
LEMMA Takes ==
    ASSUME IInv, NEW c \in Handlers, cycle[c] # Idle, cycle[c].pc = "next",
           NEW f \in cycle[c].todo
    PROVE  /\ Taken(c, f) \in Cycle /\ Booked(Taken(c, f))
           /\ Taken(c, f).id = cycle[c].id /\ Taken(c, f).pc \in {"next", "get"}
<1> DEFINE o == cycle[c]
           taken == [o EXCEPT !.file = f, !.todo = @ \ {f}]
           gone == [taken EXCEPT !.rejected = @ \cup {f}]
           gets == [taken EXCEPT !.pc = "get"]
<1>1. o \in Cycle /\ Booked(o) /\ f \in Files
  BY Runs DEF IInv, BooksAreKept
<1>2. taken \in Cycle
  BY <1>1 DEF Cycle
<1>3. gone \in Cycle /\ gets \in Cycle
  BY <1>1, <1>2 DEF Cycle
<1>4. /\ gone.pc = "next" /\ gone.id = o.id /\ gone.dsp = o.dsp /\ gone.todo = o.todo \ {f}
      /\ gone.found = o.found /\ gone.file = f /\ gone.processed = o.processed
      /\ gone.rejected = o.rejected \cup {f}
  BY <1>1 DEF Cycle
<1>5. /\ gets.pc = "get" /\ gets.id = o.id /\ gets.dsp = o.dsp /\ gets.todo = o.todo \ {f}
      /\ gets.found = o.found /\ gets.file = f /\ gets.processed = o.processed
      /\ gets.rejected = o.rejected
  BY <1>1 DEF Cycle
<1>6. Taken(c, f) = gone \/ Taken(c, f) = gets
  BY DEF Taken
<1>7. f \in o.todo /\ o.pc = "next"
  OBVIOUS
<1> HIDE DEF gone, gets, taken, o
<1>8. Booked(gone)
  BY <1>1, <1>4, <1>7 DEF Booked, Done
<1>9. Booked(gets)
  BY <1>1, <1>5, <1>7 DEF Booked, Done
<1> QED
  BY <1>3, <1>4, <1>5, <1>6, <1>8, <1>9 DEF o

\* A list of the store at hand, of which nothing was counted before.
LEMMA Lists ==
    ASSUME IInv, NEW c \in Handlers, cycle[c] # Idle, cycle[c].pc = "list",
           cycle[c].dsp \in DOMAIN DspOrder,
           NEW n, n = [cycle[c] EXCEPT !.pc = "next", !.todo = Listed(Here(c)),
                                       !.found = Listed(Here(c))]
    PROVE  n \in Cycle /\ Booked(n) /\ n.pc = "next" /\ n.id = cycle[c].id
<1>1. cycle[c] \in Cycle /\ Booked(cycle[c])
  BY Runs DEF IInv, BooksAreKept
<1>2. Listed(Here(c)) \subseteq Files
  BY DEF Listed, remote
<1>3. n \in Cycle
  BY <1>1, <1>2 DEF Cycle
<1>4. /\ n.pc = "next" /\ n.id = cycle[c].id /\ n.dsp = cycle[c].dsp
      /\ n.todo = Listed(Here(c)) /\ n.found = Listed(Here(c))
      /\ n.processed = cycle[c].processed /\ n.rejected = cycle[c].rejected
  BY <1>1 DEF Cycle
<1>5. \A f \in Listed(Here(c)) : At[f] = DspOrder[cycle[c].dsp]
  BY DEF Listed, Here
<1>6. ASSUME NEW f \in cycle[c].processed
      PROVE  /\ f \notin Listed(Here(c))
             /\ \E i \in DOMAIN DspOrder : i < cycle[c].dsp /\ At[f] = DspOrder[i]
  <2>1. PICK i \in DOMAIN DspOrder : i < cycle[c].dsp /\ At[f] = DspOrder[i]
    BY <1>1, <1>6 DEF Booked
  <2>2. DspOrder[i] # DspOrder[cycle[c].dsp]
    BY <2>1, GatewayAssumption
  <2> QED
    BY <1>5, <2>1, <2>2
<1>7. cycle[c].rejected = {}
  BY <1>1 DEF Booked
<1>8. Booked(n)
  BY <1>4, <1>5, <1>6, <1>7 DEF Booked, Done
<1> QED
  BY <1>3, <1>4, <1>8

\* A process outside its handler's turn keeps the types.
LEMMA ProcessKeeps ==
    ASSUME IInv, NEW n \in 1..MaxCycles, Truncates(n) \/ OrphanEnds(n)
    PROVE  IInv'
<1>a. TypeOK
  BY DEF IInv
<1>b. child[n] # NoChild /\ cycle' = cycle /\ cycles' = cycles
  BY NoChildDoes DEF Truncates, OrphanEnds
<1>c. child[n] \in Child /\ child[n].file \in Files
  BY <1>a, <1>b, ChildRuns
<1>1. CASE Truncates(n)
  <2>1. child' = [child EXCEPT ![n] = [child[n] EXCEPT !.opened = TRUE]]
    BY <1>1, <1>a DEF Truncates, TypeOK
  <2>2. child' \in [1..MaxCycles -> Child \cup {NoChild}]
    BY <1>a, <1>c, <2>1 DEF TypeOK, Child
  <2>3. staged' \in [Files -> [by : 0..MaxCycles, done : BOOLEAN]]
    BY <1>1, <1>a, <1>c DEF Truncates, TypeOK
  <2>4. crossed' \subseteq Files
    BY <1>1, <1>a, <1>c DEF Truncates, TypeOK
  <2>5. UNCHANGED <<place, cycle, cycles, readWhole, deletions, answered>>
    BY <1>1 DEF Truncates
  <2> QED
    BY <1>a, <2>2, <2>3, <2>4, <2>5 DEF IInv, TypeOK, BooksAreKept
<1>2. CASE OrphanEnds(n)
  <2>1. child' \in [1..MaxCycles -> Child \cup {NoChild}]
    BY <1>2, <1>a DEF OrphanEnds, TypeOK
  <2>2. staged' \in [Files -> [by : 0..MaxCycles, done : BOOLEAN]]
    <3>1. staged' = staged \/ Writes(n)
      BY <1>2 DEF OrphanEnds
    <3> QED
      BY <1>a, <3>1, Written DEF TypeOK
  <2>3. place' = place \/ place' = [place EXCEPT ![child[n].file] = "removed"]
    BY <1>2 DEF OrphanEnds, Removes
  <2>4. place' \in [Files -> {"expected", "dropped", "removed"}]
    BY <1>a, <1>c, <2>3 DEF TypeOK
  <2>5. UNCHANGED <<cycle, cycles, histories>>
    BY <1>2 DEF OrphanEnds
  <2> QED
    BY <1>a, <2>1, <2>2, <2>4, <2>5 DEF IInv, TypeOK, BooksAreKept, histories
<1> QED
  BY <1>1, <1>2

\* Every step keeps the books.
LEMMA NextInv == IInv /\ [Next]_vars => IInv'
<1> SUFFICES ASSUME IInv, [Next]_vars PROVE IInv'
  OBVIOUS
<1> USE DEF histories
<1>a. TypeOK
  BY DEF IInv
<1>b. ASSUME NEW c \in Handlers, cycle[c] # Idle
      PROVE  cycle[c] \in Cycle /\ Booked(cycle[c])
  BY <1>a, <1>b, Runs DEF IInv, BooksAreKept
<1>1. CASE UNCHANGED vars
  BY <1>1 DEF vars, IInv, TypeOK, BooksAreKept
<1>2. ASSUME NEW c \in Handlers, StartCycle(c)
      PROVE  IInv'
  <2> DEFINE n == [Idle EXCEPT !.pc = "list", !.id = cycles + 1, !.dsp = FirstDsp]
  <2>a. FirstDsp \in DOMAIN DspOrder \cup {Len(DspOrder) + 1}
    <3>1. 1 \in 1..Len(DspOrder) \/ 1 = Len(DspOrder) + 1
      BY GatewayAssumption
    <3> QED
      BY <3>1, GatewayAssumption DEF FirstDsp
  <2>b. cycles + 1 \in 1..MaxCycles /\ cycles' \in 0..MaxCycles
    BY <1>2, <1>a, GatewayAssumption DEF StartCycle, TypeOK
  <2>1. n \in Cycle
    BY <2>a, <2>b DEF Idle, Cycle
  <2>2. Booked(n)
    BY DEF Idle, Booked, Done
  <2>3. /\ cycle' = [cycle EXCEPT ![c] = n]
        /\ UNCHANGED <<place, staged, child, readWhole, crossed, deletions, answered>>
    BY <1>2 DEF StartCycle
  <2> HIDE DEF n
  <2>4. cycle' \in [Handlers -> Cycle \cup {Idle}] /\ BooksAreKept'
    BY <2>1, <2>2, <2>3, Keeps
  <2> QED
    BY <1>a, <2>b, <2>3, <2>4 DEF IInv, TypeOK
<1>3. ASSUME NEW c \in Handlers, List(c)
      PROVE  IInv'
  <2> DEFINE n == [cycle[c] EXCEPT !.pc = "next", !.todo = Listed(Here(c)),
                                   !.found = Listed(Here(c))]
  <2>1. /\ cycle[c].pc = "list" /\ cycle[c].dsp \in DOMAIN DspOrder /\ cycle[c] # Idle
        /\ GoesOn(c, n) \/ GoesOn(c, NextDsp(c))
        /\ UNCHANGED <<place, staged, readWhole, crossed, deletions, answered>>
    BY <1>3, IdlePc DEF List
  <2>2. n \in Cycle /\ Booked(n)
    BY <2>1, Lists
  <2> HIDE DEF n
  <2>3. /\ cycle' \in [Handlers -> Cycle \cup {Idle}] /\ BooksAreKept'
        /\ child' \in [1..MaxCycles -> Child \cup {NoChild}] /\ cycles' \in 0..MaxCycles
    BY <2>1, <2>2, Nexts, Steps
  <2> QED
    BY <1>a, <2>1, <2>3 DEF IInv, TypeOK
<1>4. ASSUME NEW c \in Handlers, NEW f \in Files, Take(c, f)
      PROVE  IInv'
  <2> DEFINE k == Taken(c, f)
  <2>1. /\ cycle[c].pc = "next" /\ f \in cycle[c].todo /\ cycle[c] # Idle /\ GoesOn(c, k)
        /\ UNCHANGED <<place, staged, readWhole, crossed, deletions, answered>>
    BY <1>4, IdlePc DEF Take
  <2>2. k \in Cycle /\ Booked(k)
    BY <2>1, Takes
  <2> HIDE DEF k
  <2>3. /\ cycle' \in [Handlers -> Cycle \cup {Idle}] /\ BooksAreKept'
        /\ child' \in [1..MaxCycles -> Child \cup {NoChild}] /\ cycles' \in 0..MaxCycles
    BY <2>1, <2>2, Steps
  <2> QED
    BY <1>a, <2>1, <2>3 DEF IInv, TypeOK
<1>5. ASSUME NEW c \in Handlers, GetEnds(c)
      PROVE  IInv'
  <2>1. /\ cycle[c].pc = "get" /\ cycle[c] # Idle
        /\ GoesOn(c, [cycle[c] EXCEPT !.pc = "size"])
        /\ UNCHANGED <<place, readWhole, crossed, deletions, answered>>
    BY <1>5, IdlePc DEF GetEnds
  <2>2. staged' \in [Files -> [by : 0..MaxCycles, done : BOOLEAN]]
    <3>1. cycle[c].id \in 1..MaxCycles
      BY <1>a, <2>1, Runs
    <3> QED
      BY <1>5, <1>a, <3>1, Written DEF GetEnds
  <2>3. /\ cycle' \in [Handlers -> Cycle \cup {Idle}] /\ BooksAreKept'
        /\ child' \in [1..MaxCycles -> Child \cup {NoChild}] /\ cycles' \in 0..MaxCycles
    BY <1>b, <2>1, Goes, Steps
  <2> QED
    BY <1>a, <2>1, <2>2, <2>3 DEF IInv, TypeOK
<1>6. ASSUME NEW c \in Handlers, GetFails(c) \/ ParseFails(c)
      PROVE  IInv'
  <2>1. /\ cycle[c].pc \in {"get", "parse"} /\ cycle[c] # Idle
        /\ GoesOn(c, Rejected(c))
        /\ UNCHANGED <<place, staged, readWhole, crossed, deletions, answered>>
    BY <1>6, IdlePc DEF GetFails, ParseFails
  <2>2. /\ cycle' \in [Handlers -> Cycle \cup {Idle}] /\ BooksAreKept'
        /\ child' \in [1..MaxCycles -> Child \cup {NoChild}] /\ cycles' \in 0..MaxCycles
    BY <2>1, Rejects, Steps
  <2> QED
    BY <1>a, <2>1, <2>2 DEF IInv, TypeOK
<1>7. ASSUME NEW c \in Handlers, CheckSize(c)
      PROVE  IInv'
  <2>1. /\ cycle[c].pc = "size" /\ cycle[c] # Idle
        /\ GoesOn(c, [cycle[c] EXCEPT !.pc = "parse"]) \/ GoesOn(c, Rejected(c))
        /\ UNCHANGED <<place, staged, readWhole, crossed, deletions, answered>>
    BY <1>7, IdlePc DEF CheckSize, AfterSize
  <2>2. /\ cycle' \in [Handlers -> Cycle \cup {Idle}] /\ BooksAreKept'
        /\ child' \in [1..MaxCycles -> Child \cup {NoChild}] /\ cycles' \in 0..MaxCycles
    BY <1>b, <2>1, Rejects, Goes, Steps
  <2> QED
    BY <1>a, <2>1, <2>2 DEF IInv, TypeOK
<1>8. ASSUME NEW c \in Handlers, Parse(c)
      PROVE  IInv'
  <2>1. /\ cycle[c].pc = "parse" /\ cycle[c] # Idle
        /\ GoesOn(c, Processed(c))
        /\ readWhole' \in {readWhole, readWhole \cup {cycle[c].file}}
        /\ UNCHANGED <<place, staged, crossed, deletions, answered>>
    BY <1>8, IdlePc DEF Parse
  <2>2. cycle[c].file \in Files
    BY <1>a, <1>b, <2>1, Runs DEF Booked
  <2>3. /\ cycle' \in [Handlers -> Cycle \cup {Idle}] /\ BooksAreKept'
        /\ child' \in [1..MaxCycles -> Child \cup {NoChild}] /\ cycles' \in 0..MaxCycles
    BY <2>1, Processes, Steps
  <2> QED
    BY <1>a, <2>1, <2>2, <2>3 DEF IInv, TypeOK
<1>9. ASSUME NEW c \in Handlers, Delete(c) \/ DeleteFails(c)
      PROVE  IInv'
  <2>1. /\ cycle[c].pc = "delete" /\ cycle[c] # Idle
        /\ GoesOn(c, [cycle[c] EXCEPT !.pc = "next"])
        /\ place' \in {place, [place EXCEPT ![cycle[c].file] = "removed"]}
        /\ deletions' \in {deletions, deletions \cup {cycle[c].file}}
        /\ UNCHANGED <<staged, readWhole, crossed, answered>>
    BY <1>9, IdlePc DEF Delete, DeleteFails, Removes
  <2>2. cycle[c].file \in Files
    BY <1>a, <1>b, <2>1, Runs DEF Booked
  <2>3. /\ cycle' \in [Handlers -> Cycle \cup {Idle}] /\ BooksAreKept'
        /\ child' \in [1..MaxCycles -> Child \cup {NoChild}] /\ cycles' \in 0..MaxCycles
    BY <1>b, <2>1, Goes, Steps
  <2>4. place' \in [Files -> {"expected", "dropped", "removed"}] /\ deletions' \subseteq Files
    BY <1>a, <2>1, <2>2 DEF TypeOK
  <2> QED
    BY <1>a, <2>1, <2>3, <2>4 DEF IInv, TypeOK
<1>10. ASSUME NEW c \in Handlers, DspDone(c)
       PROVE  IInv'
  <2>1. /\ cycle[c].pc = "next" /\ cycle[c].todo = {} /\ cycle[c] # Idle
        /\ GoesOn(c, NextDsp(c))
        /\ UNCHANGED <<place, staged, readWhole, crossed, deletions, answered>>
    BY <1>10, IdlePc DEF DspDone
  <2>2. cycle[c].dsp \in DOMAIN DspOrder
    BY <1>b, <2>1 DEF Booked
  <2>3. /\ cycle' \in [Handlers -> Cycle \cup {Idle}] /\ BooksAreKept'
        /\ child' \in [1..MaxCycles -> Child \cup {NoChild}] /\ cycles' \in 0..MaxCycles
    BY <2>1, <2>2, Nexts, Steps
  <2> QED
    BY <1>a, <2>1, <2>3 DEF IInv, TypeOK
<1>11. ASSUME NEW c \in Handlers, Answer(c)
       PROVE  IInv'
  <2>1. /\ GoesOn(c, Idle)
        /\ UNCHANGED <<place, staged, readWhole, crossed, deletions>>
    BY <1>11 DEF Answer
  <2>2. /\ cycle' \in [Handlers -> Cycle \cup {Idle}] /\ BooksAreKept'
        /\ child' \in [1..MaxCycles -> Child \cup {NoChild}] /\ cycles' \in 0..MaxCycles
    BY <2>1, Steps
  <2>3. answered' \in [Files -> Nat]
    BY <1>11, <1>a DEF Answer, TypeOK
  <2> QED
    BY <1>a, <2>1, <2>2, <2>3 DEF IInv, TypeOK
<1>12. ASSUME NEW c \in Handlers, Abandon(c)
       PROVE  IInv'
  <2>1. /\ cycle' = [cycle EXCEPT ![c] = Idle]
        /\ UNCHANGED <<place, staged, child, cycles, readWhole, crossed, deletions, answered>>
    BY <1>12 DEF Abandon
  <2>2. cycle' \in [Handlers -> Cycle \cup {Idle}] /\ BooksAreKept'
    BY <2>1, Keeps
  <2> QED
    BY <1>a, <2>1, <2>2 DEF IInv, TypeOK
<1>13. ASSUME NEW f \in Files, Drop(f)
       PROVE  IInv'
  BY <1>13 DEF Drop, IInv, TypeOK, BooksAreKept
<1>14. ASSUME NEW n \in 1..MaxCycles, Truncates(n) \/ OrphanEnds(n)
       PROVE  IInv'
  BY <1>14, ProcessKeeps
<1> QED
  BY <1>1, <1>2, <1>3, <1>4, <1>5, <1>6, <1>7, <1>8, <1>9, <1>10, <1>11,
     <1>12, <1>13, <1>14
     DEF Next, OwnStep, ChildStep

-----------------------------------------------------------------------------
(* Copies and processes *)

\* Nothing runs at first.
LEMMA InitCopies ==
    Init => /\ Unique /\ Numbered
            /\ \A c \in Handlers : OwnProcess(c) /\ OwnCopy(c)
            /\ \A n \in 1..MaxCycles : Removable(n)
  BY IdlePc, NoChildDoes DEF Init, Unique, Numbered, OwnProcess, OwnCopy, Removable

\* A cycle whose record and process stay, while no copy gets worse.
LEMMA CopyStays ==
    ASSUME IInv, NEW c \in Handlers, OwnCopy(c), OwnProcess(c), cycle'[c] = cycle[c],
           cycle[c] # Idle => child'[cycle[c].id] = child[cycle[c].id],
           \A f \in Files : staged'[f].by = staged[f].by /\ (staged[f].done => staged'[f].done),
           crossed \subseteq crossed'
    PROVE  OwnCopy(c)' /\ OwnProcess(c)'
<1>1. CASE cycle[c] = Idle
  BY <1>1, IdlePc DEF OwnCopy, OwnProcess
<1>2. CASE cycle[c] # Idle
  <2>1. cycle[c].pc \in {"get", "size", "parse"} => cycle[c].file \in Files
    BY <1>2, Runs DEF IInv, BooksAreKept, Booked
  <2>2. OwnProcess(c)'
    BY <1>2 DEF OwnProcess, Spawned
  <2>3. OwnCopy(c)'
    BY <1>2, <2>1 DEF OwnCopy
  <2> QED
    BY <2>2, <2>3
<1> QED
  BY <1>1, <1>2

\* What a handler that goes on brings about, for all cycles: it remains to say
\* what its own cycle has of its file, and that it may delete what it deletes.
LEMMA Handed ==
    ASSUME CInv, NEW c \in Handlers, cycle[c] # Idle, NEW k \in Cycle \cup {Idle},
           k # Idle => Booked(k) /\ k.id = cycle[c].id,
           GoesOn(c, k),
           \A f \in Files : staged'[f].by = staged[f].by /\ (staged[f].done => staged'[f].done),
           crossed' = crossed, readWhole \subseteq readWhole',
           k.pc \in {"size", "parse"} => staged'[k.file].done \/ k.file \in crossed,
           k.pc = "delete" => k.file \in readWhole' \cup crossed
    PROVE  /\ Unique' /\ Numbered'
           /\ \A d \in Handlers : OwnProcess(d)' /\ OwnCopy(d)'
           /\ \A n \in 1..MaxCycles : Removable(n)'
<1>a. IInv /\ TypeOK
  BY DEF CInv, IInv
<1>b. cycle[c].id \in 1..MaxCycles
  BY <1>a, Runs
<1>c. /\ cycle' = [cycle EXCEPT ![c] = k] /\ cycles' = cycles
      /\ child' = [child EXCEPT ![cycle[c].id] = Spawned(k)]
  BY DEF GoesOn
<1>d. /\ Spawned(k).opened = FALSE
      /\ k.pc \notin {"get", "delete"} => Spawned(k) = NoChild
  BY Spawns
<1>e. cycle'[c] = k /\ \A d \in Handlers \ {c} : cycle'[d] = cycle[d]
  BY <1>a, <1>c DEF TypeOK
<1>f. /\ child'[cycle[c].id] = Spawned(k)
      /\ \A n \in 1..MaxCycles : n # cycle[c].id => child'[n] = child[n]
  BY <1>a, <1>b, <1>c DEF TypeOK
<1>1. Unique'
  BY <1>e DEF CInv, Unique
<1>2. Numbered'
  <2>1. ASSUME NEW d \in Handlers, cycle'[d] # Idle
        PROVE  cycle'[d].id <= cycles'
    BY <1>c, <1>e, <2>1 DEF CInv, Numbered
  <2>2. ASSUME NEW n \in 1..MaxCycles, cycles' < n
        PROVE  child'[n] = NoChild
    <3>1. cycle[c].id <= cycles
      BY DEF CInv, Numbered
    <3>2. n # cycle[c].id
      BY <1>a, <1>b, <1>c, <2>2, <3>1 DEF TypeOK
    <3> QED
      BY <1>c, <1>f, <2>2, <3>2 DEF CInv, Numbered
  <2> QED
    BY <2>1, <2>2 DEF Numbered
<1>3. ASSUME NEW d \in Handlers
      PROVE  OwnProcess(d)' /\ OwnCopy(d)'
  <2>1. CASE d = c
    <3>1. CASE k = Idle
      BY <1>e, <2>1, <3>1, IdlePc DEF OwnProcess, OwnCopy
    <3>2. CASE k # Idle
      <4>1. OwnProcess(d)'
        BY <1>e, <1>f, <2>1, <3>2 DEF OwnProcess, Spawned
      <4>2. OwnCopy(d)'
        BY <1>d, <1>e, <1>f, <2>1, <3>2 DEF OwnCopy
      <4> QED
        BY <4>1, <4>2
    <3> QED
      BY <3>1, <3>2
  <2>2. CASE d # c
    <3>1. cycle'[d] = cycle[d] /\ OwnCopy(d) /\ OwnProcess(d)
      BY <1>e, <2>2 DEF CInv
    <3>2. cycle[d] # Idle => child'[cycle[d].id] = child[cycle[d].id]
      <4>1. ASSUME cycle[d] # Idle
            PROVE  cycle[d].id \in 1..MaxCycles /\ cycle[d].id # cycle[c].id
        BY <1>a, <2>2, <4>1, Runs DEF CInv, Unique
      <4> QED
        BY <1>f, <4>1
    <3> QED
      BY <1>a, <3>1, <3>2, CopyStays
  <2> QED
    BY <2>1, <2>2
<1>4. ASSUME NEW n \in 1..MaxCycles
      PROVE  Removable(n)'
  <2>1. CASE n = cycle[c].id
    BY <1>d, <1>f, <2>1, NoChildDoes DEF Removable, Spawned
  <2>2. CASE n # cycle[c].id
    BY <1>f, <2>2 DEF CInv, Removable
  <2> QED
    BY <2>1, <2>2
<1> QED
  BY <1>1, <1>2, <1>3, <1>4

\* Every step keeps what cycles have of their files.
LEMMA NextCopies ==
    ASSUME CInv, [Next]_vars
    PROVE  /\ Unique' /\ Numbered'
           /\ \A c \in Handlers : OwnProcess(c)' /\ OwnCopy(c)'
           /\ \A n \in 1..MaxCycles : Removable(n)'
<1> DEFINE Goal == /\ Unique /\ Numbered
                   /\ \A c \in Handlers : OwnProcess(c) /\ OwnCopy(c)
                   /\ \A n \in 1..MaxCycles : Removable(n)
<1> SUFFICES Goal'
  OBVIOUS
<1> USE DEF histories
<1>a. IInv /\ TypeOK /\ Goal
  BY DEF CInv, IInv
<1>b. ASSUME NEW c \in Handlers, cycle[c] # Idle
      PROVE  /\ cycle[c] \in Cycle /\ Booked(cycle[c]) /\ cycle[c].id \in 1..MaxCycles
             /\ OwnCopy(c) /\ OwnProcess(c)
  BY <1>a, <1>b, Runs DEF IInv, BooksAreKept
<1>c. ASSUME staged' = staged
      PROVE  \A f \in Files : staged'[f].by = staged[f].by /\ (staged[f].done => staged'[f].done)
  BY <1>c
<1>d. ASSUME NEW c \in Handlers, NEW k \in Cycle \cup {Idle}, cycle[c] # Idle,
             k # Idle => Booked(k) /\ k.id = cycle[c].id, GoesOn(c, k),
             k.pc \in {"idle", "list", "next", "get"},
             staged' = staged, crossed' = crossed, readWhole' = readWhole
      PROVE  Goal'
  BY <1>c, <1>d, Handed
<1>1. CASE UNCHANGED vars
  BY <1>1, <1>a DEF vars, Unique, Numbered, OwnProcess, OwnCopy, Removable
<1>2. ASSUME NEW c \in Handlers, StartCycle(c)
      PROVE  Goal'
  <2> DEFINE n == [Idle EXCEPT !.pc = "list", !.id = cycles + 1, !.dsp = FirstDsp]
  <2>1. n.pc = "list" /\ n.id = cycles + 1
    BY DEF Idle
  <2>2. /\ cycle[c] = Idle /\ cycles \in Nat /\ cycles + 1 \in 1..MaxCycles
        /\ cycles' = cycles + 1 /\ cycle' = [cycle EXCEPT ![c] = n]
        /\ UNCHANGED <<place, staged, child, readWhole, crossed, deletions, answered>>
    BY <1>2, <1>a, GatewayAssumption DEF StartCycle, TypeOK
  <2> HIDE DEF n
  <2>3. cycle'[c] = n /\ \A d \in Handlers \ {c} : cycle'[d] = cycle[d]
    BY <1>a, <2>2 DEF TypeOK
  <2>4. ASSUME NEW d \in Handlers, d # c, cycle'[d] # Idle
        PROVE  cycle'[d].id \in Nat /\ cycle'[d].id <= cycles
    BY <1>a, <1>b, <2>3, <2>4 DEF Numbered
  <2>5. Unique'
    BY <2>1, <2>2, <2>3, <2>4, <1>a DEF Unique
  <2>6. child[cycles + 1] = NoChild
    BY <1>a, <2>2 DEF Numbered
  <2>7. Numbered'
    BY <1>a, <2>1, <2>2, <2>3, <2>4 DEF Numbered
  <2>8. ASSUME NEW d \in Handlers
        PROVE  OwnProcess(d)' /\ OwnCopy(d)'
    <3>1. CASE d = c
      BY <2>1, <2>2, <2>3, <2>6, <3>1, NoChildDoes DEF OwnProcess, OwnCopy, Spawned
    <3>2. CASE d # c
      BY <1>a, <2>2, <2>3, <3>2, CopyStays
    <3> QED
      BY <3>1, <3>2
  <2>9. \A m \in 1..MaxCycles : Removable(m)'
    BY <1>a, <2>2 DEF Removable
  <2> QED
    BY <2>5, <2>7, <2>8, <2>9
<1>3. ASSUME NEW c \in Handlers, List(c)
      PROVE  Goal'
  <2> DEFINE n == [cycle[c] EXCEPT !.pc = "next", !.todo = Listed(Here(c)),
                                   !.found = Listed(Here(c))]
  <2>1. /\ cycle[c].pc = "list" /\ cycle[c].dsp \in DOMAIN DspOrder /\ cycle[c] # Idle
        /\ GoesOn(c, n) \/ GoesOn(c, NextDsp(c))
        /\ UNCHANGED <<place, staged, readWhole, crossed, deletions, answered>>
    BY <1>3, IdlePc DEF List
  <2>2. n.pc = "next" /\ n.id = cycle[c].id /\ n \in Cycle /\ Booked(n)
    BY <1>a, <2>1, Lists
  <2>3. n # Idle
    BY <2>2, IdlePc
  <2>4. NextDsp(c) \in Cycle /\ Booked(NextDsp(c))
    BY <1>a, <2>1, Nexts
  <2>5. NextDsp(c).pc = "list" /\ NextDsp(c).id = cycle[c].id
    BY DEF NextDsp, Idle
  <2> HIDE DEF n
  <2>6. CASE GoesOn(c, n)
    BY <1>d, <2>1, <2>2, <2>3, <2>6
  <2>7. CASE GoesOn(c, NextDsp(c))
    BY <1>d, <2>1, <2>4, <2>5, <2>7
  <2> QED
    BY <2>1, <2>6, <2>7
<1>4. ASSUME NEW c \in Handlers, NEW f \in Files, Take(c, f)
      PROVE  Goal'
  <2> DEFINE k == Taken(c, f)
  <2>1. /\ cycle[c].pc = "next" /\ f \in cycle[c].todo /\ cycle[c] # Idle /\ GoesOn(c, k)
        /\ UNCHANGED <<place, staged, readWhole, crossed, deletions, answered>>
    BY <1>4, IdlePc DEF Take
  <2>2. k \in Cycle /\ Booked(k) /\ k.id = cycle[c].id /\ k.pc \in {"next", "get"}
    BY <1>a, <2>1, Takes
  <2> HIDE DEF k
  <2> QED
    BY <1>d, <2>1, <2>2
<1>5. ASSUME NEW c \in Handlers, GetEnds(c)
      PROVE  Goal'
  <2> DEFINE k == [cycle[c] EXCEPT !.pc = "size"]
  <2>1. /\ cycle[c].pc = "get" /\ cycle[c] # Idle /\ GoesOn(c, k) /\ Writes(cycle[c].id)
        /\ UNCHANGED <<place, readWhole, crossed, deletions, answered>>
    BY <1>5, IdlePc DEF GetEnds
  <2>2. k \in Cycle /\ Booked(k)
    BY <1>b, <2>1, Goes
  <2>3. k.pc = "size" /\ k.id = cycle[c].id /\ k.file = cycle[c].file
    BY <1>b, <2>1 DEF Cycle
  <2>4. /\ \A f \in Files : staged'[f].by = staged[f].by /\ (staged[f].done => staged'[f].done)
        /\ staged[child[cycle[c].id].file].by = cycle[c].id
             => staged'[child[cycle[c].id].file].done
    BY <1>a, <1>b, <2>1, Written
  <2>5. child[cycle[c].id].file = cycle[c].file /\ child[cycle[c].id].opened
    BY <1>b, <2>1 DEF OwnProcess, Spawned, Writes
  <2>6. staged[cycle[c].file].by = cycle[c].id \/ cycle[c].file \in crossed
    BY <1>b, <2>1, <2>5 DEF OwnCopy
  <2> HIDE DEF k
  <2>7. staged'[k.file].done \/ k.file \in crossed
    BY <2>3, <2>4, <2>5, <2>6
  <2> QED
    BY <2>1, <2>2, <2>3, <2>4, <2>7, Handed
<1>6. ASSUME NEW c \in Handlers, cycle[c].pc \in {"get", "size", "parse"}, GoesOn(c, Rejected(c)),
             UNCHANGED <<staged, readWhole, crossed>>
      PROVE  Goal'
  <2>1. cycle[c] # Idle
    BY <1>6, IdlePc
  <2>2. Rejected(c) \in Cycle /\ Booked(Rejected(c))
    BY <1>a, <1>6, <2>1, Rejects
  <2>3. Rejected(c).pc = "next" /\ Rejected(c).id = cycle[c].id
    BY <1>b, <2>1 DEF Rejected, Cycle
  <2> QED
    BY <1>d, <1>6, <2>1, <2>2, <2>3
<1>7. ASSUME NEW c \in Handlers, CheckSize(c)
      PROVE  Goal'
  <2> DEFINE k == [cycle[c] EXCEPT !.pc = "parse"]
  <2>1. /\ cycle[c].pc = "size" /\ cycle[c] # Idle
        /\ GoesOn(c, k) \/ GoesOn(c, Rejected(c))
        /\ UNCHANGED <<place, staged, readWhole, crossed, deletions, answered>>
    BY <1>7, IdlePc DEF CheckSize, AfterSize
  <2>2. CASE GoesOn(c, Rejected(c))
    BY <1>6, <2>1, <2>2
  <2>3. CASE GoesOn(c, k)
    <3>1. k \in Cycle /\ Booked(k)
      BY <1>b, <2>1, Goes
    <3>2. k.pc = "parse" /\ k.id = cycle[c].id /\ k.file = cycle[c].file
      BY <1>b, <2>1 DEF Cycle
    <3>3. staged[cycle[c].file].done \/ cycle[c].file \in crossed
      BY <1>b, <2>1 DEF OwnCopy
    <3> HIDE DEF k
    <3> QED
      BY <1>c, <2>1, <2>3, <3>1, <3>2, <3>3, Handed
  <2> QED
    BY <2>1, <2>2, <2>3
<1>8. ASSUME NEW c \in Handlers, Parse(c)
      PROVE  Goal'
  <2> DEFINE k == Processed(c)
  <2>1. /\ cycle[c].pc = "parse" /\ cycle[c] # Idle /\ GoesOn(c, k)
        /\ readWhole' = IF Whole(cycle[c].file) THEN readWhole \cup {cycle[c].file} ELSE readWhole
        /\ UNCHANGED <<place, staged, crossed, deletions, answered>>
    BY <1>8, IdlePc DEF Parse
  <2>2. k \in Cycle /\ Booked(k)
    BY <1>a, <2>1, Processes
  <2>3. k.pc \in {"next", "delete"} /\ k.id = cycle[c].id /\ k.file = cycle[c].file
    BY <1>b, <2>1 DEF Processed, Cycle
  <2>4. cycle[c].file \in readWhole' \cup crossed
    BY <1>b, <2>1 DEF OwnCopy, Whole
  <2> HIDE DEF k
  <2> QED
    BY <1>c, <2>1, <2>2, <2>3, <2>4, Handed
<1>9. ASSUME NEW c \in Handlers, Delete(c) \/ DeleteFails(c)
      PROVE  Goal'
  <2> DEFINE k == [cycle[c] EXCEPT !.pc = "next"]
  <2>1. /\ cycle[c].pc = "delete" /\ cycle[c] # Idle /\ GoesOn(c, k)
        /\ UNCHANGED <<staged, readWhole, crossed, answered>>
    BY <1>9, IdlePc DEF Delete, DeleteFails
  <2>2. k \in Cycle /\ Booked(k)
    BY <1>b, <2>1, Goes
  <2>3. k.pc = "next" /\ k.id = cycle[c].id
    BY <1>b, <2>1 DEF Cycle
  <2> HIDE DEF k
  <2> QED
    BY <1>d, <2>1, <2>2, <2>3
<1>10. ASSUME NEW c \in Handlers, DspDone(c)
       PROVE  Goal'
  <2>1. /\ cycle[c].pc = "next" /\ cycle[c].todo = {} /\ cycle[c] # Idle
        /\ GoesOn(c, NextDsp(c))
        /\ UNCHANGED <<place, staged, readWhole, crossed, deletions, answered>>
    BY <1>10, IdlePc DEF DspDone
  <2>2. NextDsp(c) \in Cycle /\ Booked(NextDsp(c))
    BY <1>a, <1>b, <2>1, Nexts DEF Booked
  <2>3. NextDsp(c).pc = "list" /\ NextDsp(c).id = cycle[c].id
    BY DEF NextDsp, Idle
  <2> QED
    BY <1>d, <2>1, <2>2, <2>3
<1>11. ASSUME NEW c \in Handlers, Answer(c)
       PROVE  Goal'
  <2>1. /\ GoesOn(c, Idle) /\ cycle[c] # Idle
        /\ UNCHANGED <<place, staged, readWhole, crossed, deletions>>
    BY <1>11, IdlePc DEF Answer
  <2> QED
    BY <1>d, <2>1, IdlePc
<1>12. ASSUME NEW c \in Handlers, Abandon(c)
       PROVE  Goal'
  <2>1. /\ cycle' = [cycle EXCEPT ![c] = Idle]
        /\ UNCHANGED <<place, staged, child, cycles, readWhole, crossed, deletions, answered>>
    BY <1>12 DEF Abandon
  <2>2. cycle'[c] = Idle /\ \A d \in Handlers \ {c} : cycle'[d] = cycle[d]
    BY <1>a, <2>1 DEF TypeOK
  <2>3. Unique' /\ Numbered'
    BY <1>a, <2>1, <2>2 DEF Unique, Numbered
  <2>4. ASSUME NEW d \in Handlers
        PROVE  OwnProcess(d)' /\ OwnCopy(d)'
    <3>1. CASE d = c
      BY <2>2, <3>1, IdlePc DEF OwnProcess, OwnCopy
    <3>2. CASE d # c
      BY <1>a, <2>1, <2>2, <3>2, CopyStays
    <3> QED
      BY <3>1, <3>2
  <2>5. \A n \in 1..MaxCycles : Removable(n)'
    BY <1>a, <2>1 DEF Removable
  <2> QED
    BY <2>3, <2>4, <2>5
<1>13. ASSUME NEW f \in Files, Drop(f)
       PROVE  Goal'
  BY <1>13, <1>a DEF Drop, Unique, Numbered, OwnProcess, OwnCopy, Removable
<1>14. ASSUME NEW n \in 1..MaxCycles, Truncates(n)
       PROVE  Goal'
  <2> DEFINE f == child[n].file
  <2>a. child[n].does = "get" /\ child[n] \in Child /\ f \in Files
    BY <1>14, <1>a, ChildRuns, NoChildDoes DEF Truncates
  <2>1. /\ child' = [child EXCEPT ![n] = [child[n] EXCEPT !.opened = TRUE]]
        /\ staged' = [staged EXCEPT ![f] = [by |-> n, done |-> FALSE]]
        /\ crossed' = IF \E c \in Handlers : Uses(c, n, f) THEN crossed \cup {f} ELSE crossed
        /\ UNCHANGED <<place, cycle, cycles, readWhole, deletions, answered>>
    BY <1>14, <1>a DEF Truncates, TypeOK
  <2>2. /\ child'[n] = [child[n] EXCEPT !.opened = TRUE]
        /\ \A m \in 1..MaxCycles \ {n} : child'[m] = child[m]
    BY <1>a, <2>1 DEF TypeOK
  <2>3. child'[n].does = child[n].does /\ child'[n].file = f /\ child'[n].opened
    BY <2>2, <2>a DEF Child
  <2>4. staged'[f].by = n /\ \A g \in Files \ {f} : staged'[g] = staged[g]
    BY <1>a, <2>1, <2>a DEF TypeOK
  <2> HIDE DEF f
  <2>5. Unique'
    BY <1>a, <2>1 DEF Unique
  <2>6. Numbered'
    <3>1. ~(cycles < n)
      BY <1>a, <2>a, NoChildDoes DEF Numbered
    <3> QED
      BY <1>a, <2>1, <2>2, <3>1 DEF Numbered
  <2>7. \A m \in 1..MaxCycles : Removable(m)'
    BY <1>a, <2>1, <2>2, <2>3, <2>a DEF Removable
  <2>8. ASSUME NEW d \in Handlers
        PROVE  OwnProcess(d)' /\ OwnCopy(d)'
    <3>1. CASE cycle[d] = Idle
      BY <2>1, <3>1, IdlePc DEF OwnProcess, OwnCopy
    <3>2. CASE cycle[d] # Idle /\ cycle[d].id = n
      <4>1. cycle[d].pc = "get" /\ cycle[d].file = f
        BY <1>b, <2>a, <3>2, NoChildDoes DEF OwnProcess, Spawned, f
      <4>2. OwnProcess(d)'
        BY <1>b, <2>1, <2>3, <3>2, <4>1 DEF OwnProcess, Spawned
      <4>3. OwnCopy(d)'
        BY <2>1, <2>4, <3>2, <4>1 DEF OwnCopy
      <4> QED
        BY <4>2, <4>3
    <3>3. CASE cycle[d] # Idle /\ cycle[d].id # n
      <4>1. child'[cycle[d].id] = child[cycle[d].id]
        BY <1>b, <2>2, <3>3
      <4>2. OwnProcess(d)'
        BY <1>b, <2>1, <3>3, <4>1 DEF OwnProcess, Spawned
      <4>3. CASE cycle[d].file = f
        <5>1. Uses(d, n, f) => f \in crossed'
          BY <2>1
        <5> QED
          BY <2>1, <3>3, <4>1, <4>2, <4>3, <5>1 DEF OwnCopy, Uses
      <4>4. CASE cycle[d].file # f
        <5>1. cycle[d].pc \in {"get", "size", "parse"} => cycle[d].file \in Files \ {f}
          BY <1>a, <1>b, <3>3, <4>4, Runs DEF Booked
        <5>2. OwnCopy(d)'
          BY <1>b, <2>1, <2>4, <3>3, <4>1, <5>1 DEF OwnCopy
        <5> QED
          BY <4>2, <5>2
      <4> QED
        BY <4>3, <4>4
    <3> QED
      BY <3>1, <3>2, <3>3
  <2> QED
    BY <2>5, <2>6, <2>7, <2>8
<1>15. ASSUME NEW n \in 1..MaxCycles, OrphanEnds(n)
       PROVE  Goal'
  <2>1. /\ \A c \in Handlers : cycle[c].id # n
        /\ child' = [child EXCEPT ![n] = NoChild]
        /\ staged' = staged \/ Writes(n)
        /\ UNCHANGED <<cycle, cycles, readWhole, crossed, deletions, answered>>
    BY <1>15 DEF OrphanEnds
  <2>2. \A f \in Files : staged'[f].by = staged[f].by /\ (staged[f].done => staged'[f].done)
    BY <1>a, <2>1, Written
  <2>3. /\ child'[n] = NoChild
        /\ \A m \in 1..MaxCycles \ {n} : child'[m] = child[m]
    BY <1>a, <2>1 DEF TypeOK
  <2>4. Unique'
    BY <1>a, <2>1 DEF Unique
  <2>5. Numbered'
    BY <1>a, <2>1, <2>3 DEF Numbered
  <2>6. ASSUME NEW d \in Handlers
        PROVE  OwnProcess(d)' /\ OwnCopy(d)'
    <3>1. cycle[d] # Idle => child'[cycle[d].id] = child[cycle[d].id]
      BY <1>b, <2>1, <2>3
    <3> QED
      BY <1>a, <2>1, <2>2, <3>1, CopyStays
  <2>7. \A m \in 1..MaxCycles : Removable(m)'
    BY <1>a, <2>1, <2>3, NoChildDoes DEF Removable
  <2> QED
    BY <2>4, <2>5, <2>6, <2>7
<1>16. ASSUME NEW c \in Handlers, GetFails(c) \/ ParseFails(c)
       PROVE  Goal'
  BY <1>6, <1>16 DEF GetFails, ParseFails
<1> QED
  BY <1>1, <1>2, <1>3, <1>4, <1>5, <1>7, <1>8, <1>9, <1>10, <1>11, <1>12, <1>13,
     <1>14, <1>15, <1>16 DEF Next, OwnStep, ChildStep

\* Only a deletion takes a report out of a store, a handler's own or one left
\* behind.
LEMMA Removals ==
    ASSUME CInv, [Next]_vars
    PROVE  [remote \ remote' \subseteq readWhole \cup crossed]_vars
<1> USE DEF histories
<1>a. ASSUME place' = place
      PROVE  remote \ remote' \subseteq readWhole \cup crossed
  BY <1>a DEF remote
<1>b. ASSUME NEW n \in 1..MaxCycles, child[n].does = "delete", Removes(child[n].file)
      PROVE  remote \ remote' \subseteq readWhole \cup crossed
  <2>1. child[n].file \in readWhole \cup crossed
    BY <1>b DEF CInv, Removable
  <2>2. \A f \in Files : f # child[n].file => place'[f] = place[f]
    BY <1>b DEF Removes, CInv, IInv, TypeOK
  <2> QED
    BY <2>1, <2>2 DEF remote
<1>1. ASSUME NEW c \in Handlers, Delete(c)
      PROVE  remote \ remote' \subseteq readWhole \cup crossed
  <2>1. cycle[c].pc = "delete" /\ cycle[c] # Idle /\ Removes(cycle[c].file)
    BY <1>1, IdlePc DEF Delete
  <2>2. cycle[c].id \in 1..MaxCycles
    BY <2>1, Runs DEF CInv, IInv
  <2>3. child[cycle[c].id].does = "delete" /\ child[cycle[c].id].file = cycle[c].file
    BY <2>1 DEF CInv, OwnProcess, Spawned
  <2> QED
    BY <1>b, <2>1, <2>2, <2>3
<1>2. ASSUME NEW n \in 1..MaxCycles, OrphanEnds(n)
      PROVE  remote \ remote' \subseteq readWhole \cup crossed
  <2>1. place' = place \/ (child[n].does = "delete" /\ Removes(child[n].file))
    BY <1>2 DEF OrphanEnds
  <2> QED
    BY <1>a, <1>b, <2>1
<1>3. ASSUME NEW f \in Files, Drop(f)
      PROVE  remote \ remote' \subseteq readWhole \cup crossed
  BY <1>3 DEF Drop, remote, CInv, IInv, TypeOK
<1>4. CASE \/ place' = place
           \/ \E c \in Handlers : Delete(c)
           \/ \E n \in 1..MaxCycles : OrphanEnds(n)
           \/ \E f \in Files : Drop(f)
  BY <1>a, <1>1, <1>2, <1>3, <1>4
<1>5. \/ UNCHANGED vars \/ place' = place
      \/ \E c \in Handlers : Delete(c)
      \/ \E n \in 1..MaxCycles : OrphanEnds(n)
      \/ \E f \in Files : Drop(f)
  BY DEF Next, StartCycle, OwnStep, List, CheckSize, Parse, ParseFails, DeleteFails, DspDone,
         Answer, Take, ChildStep, GetEnds, GetFails, Abandon, Truncates
<1> QED
  BY <1>4, <1>5

-----------------------------------------------------------------------------
(* Results *)

\* The types of cycles, staging files and histories are kept.
THEOREM TypeCorrect == Spec => []TypeOK
<1>1. IInv => TypeOK
  BY DEF IInv
<1> QED
  BY <1>1, InitInv, NextInv, PTL DEF Spec

\* For any number of cycles at a time, stores and reports: when a store is done
\* every report listed there was counted once, as processed or as rejected
\* (ddex_gateway.rs lines 376-545).
THEOREM CountersAddUp == Spec => []CountsAddUp
<1>1. IInv => CountsAddUp
  <2> SUFFICES ASSUME IInv, NEW c \in Handlers
               PROVE  /\ cycle[c].processed \cap cycle[c].rejected = {}
                      /\ cycle[c].pc = "next" /\ cycle[c].todo = {} =>
                           cycle[c].found = (cycle[c].processed \cap cycle[c].found)
                                              \cup cycle[c].rejected
    BY DEF CountsAddUp
  <2>1. CASE cycle[c] = Idle
    BY <2>1 DEF Idle
  <2>2. CASE cycle[c] # Idle
    BY <2>2 DEF IInv, BooksAreKept, Booked, Done
  <2> QED
    BY <2>1, <2>2
<1> QED
  BY <1>1, InitInv, NextInv, PTL DEF Spec

\* For any number of cycles at a time, whichever of them fail or are given up
\* and leave their processes behind: a report that is removed from its store was
\* parsed from a complete copy, or its staging file was truncated by another
\* cycle's transfer while a cycle was using it (ddex_gateway.rs lines 426-533,
\* sftp.rs lines 289-302 and 336-352).
THEOREM OnlyCrossedReports == Spec => OnlyCrossedReportsAreLost
<1>1. Init => CInv
  BY InitInv, InitCopies DEF CInv
<1>2. CInv /\ [Next]_vars => CInv'
  BY NextInv, NextCopies DEF CInv
<1>3. CInv /\ [Next]_vars => [remote \ remote' \subseteq readWhole \cup crossed]_vars
  BY Removals
<1> QED
  BY <1>1, <1>2, <1>3, PTL DEF Spec, OnlyCrossedReportsAreLost

-----------------------------------------------------------------------------

(* Messages *)

\* Every push that runs has a name drawn since the server started, and what it
\* read is what the file holds.
Drawn(h) == push[h] # NoPush =>
               /\ push[h].name[2] < auditSeq.next
               /\ push[h].pc = "put" => push[h].read = staging[push[h].name]

\* So has every receipt since then, and file and store hold its message.
Current(r) == /\ r.restarts <= auditSeq.restarts
              /\ r.restarts = auditSeq.restarts =>
                    /\ r.name[2] < auditSeq.next
                    /\ staging[r.name] = r.message
                    /\ inbox[r.store][r.name] = r.message

\* The stores a push is meant for are those it still has to do, the one it
\* works on, and those it has done, each of them once.
Meant(targets) == {s \in ErnStores : targets = {} \/ s \in targets}

Divided(p) ==
    LET done == p.delivered \cup p.failed
    IN  /\ p.delivered \cap p.failed = {}
        /\ p.todo \cap done = {}
        /\ p.pc # "put" => p.todo \cup done = Meant(p.targets)
        /\ p.pc = "put" => /\ p.store \in Stores
                           /\ p.store \notin p.todo \cup done
                           /\ p.todo \cup done \cup {p.store} = Meant(p.targets)

RunsAreDivided == \A h \in Pushers : push[h] # NoPush => Divided(push[h])

ErnInv == /\ ErnTypeOK
          /\ \A h \in Pushers : Drawn(h)
          /\ \A r \in receipts : Current(r)

-----------------------------------------------------------------------------
(* Types *)

\* A handler that is at a step of a push has the record of one.
LEMMA PushRuns ==
    ASSUME ErnTypeOK, NEW h \in Pushers, push[h] # NoPush
    PROVE  /\ push[h] \in Push
           /\ push[h].name \in Names /\ push[h].message \in Nat /\ push[h].read \in Nat
           /\ push[h].targets \subseteq Stores /\ push[h].todo \subseteq Stores
           /\ push[h].delivered \subseteq Stores /\ push[h].failed \subseteq Stores
           /\ push[h].store \in Stores \cup {"none"}
           /\ push[h].pc \in {"staged", "next", "put"}
  BY DEF ErnTypeOK, Push

\* A push that has its next record is typed again.
LEMMA PushSteps ==
    ASSUME ErnTypeOK, NEW h \in Pushers, NEW p \in Push, push' = [push EXCEPT ![h] = p]
    PROVE  push' \in [Pushers -> Push \cup {NoPush}]
  BY DEF ErnTypeOK

\* NoPush is at no step of a push.
LEMMA IdleIsNoStep == NoPush.pc = "idle"
  BY DEF NoPush

\* A number is drawn.
LEMMA Draws == ASSUME ErnTypeOK
               PROVE  /\ Fetched \in [restarts : Nat, next : Nat \ {0}]
                      /\ Fetched.restarts = auditSeq.restarts
                      /\ Fetched.next = auditSeq.next + 1
  BY DEF ErnTypeOK, Fetched

\* What a transfer does to the stores keeps their type.
LEMMA Transfers ==
    ASSUME ErnTypeOK, NEW s \in Stores, NEW n \in Names
    PROVE  [inbox EXCEPT ![s][n] = staging[n]] \in [Stores -> [Names -> Nat]]
  BY DEF ErnTypeOK

\* The initial state is typed.
LEMMA InitType == ASSUME MaxSeq \in Nat, ErnInit PROVE ErnTypeOK
  BY DEF ErnInit, ErnTypeOK, NoMessage

\* Every step keeps the types; a push at work on a store must know which.
LEMMA NextType == ASSUME MaxSeq \in Nat, ErnTypeOK, [ErnNext]_ernVars, RunsAreDivided PROVE ErnTypeOK'
<1>1. CASE UNCHANGED ernVars
  BY <1>1 DEF ernVars, ErnTypeOK
<1>2. ASSUME NEW h \in Pushers, NEW isrc \in Isrcs, NEW targets \in SUBSET Stores,
             Stage(h, isrc, targets)
      PROVE  ErnTypeOK'
  <2> DEFINE name == <<isrc, auditSeq.next>>
             new  == [pc |-> "staged", message |-> pushes + 1, name |-> name,
                      targets |-> targets, todo |-> {s \in Stores : Wants(s, targets)},
                      store |-> "none", read |-> NoMessage, delivered |-> {}, failed |-> {}]
             said == [message |-> pushes + 1, targets |-> targets, staged |-> FALSE,
                      delivered |-> {}, failed |-> {}]
  <2>1. name \in Names
    BY <1>2 DEF Stage, Names, ErnTypeOK
  <2>2. new \in Push /\ said \in Said
    BY <2>1 DEF Push, Said, NoMessage, ErnTypeOK
  <2>3. auditSeq' \in [restarts : Nat, next : Nat \ {0}] /\ pushes' \in Nat
    BY <1>2, Draws DEF Stage, ErnTypeOK
  <2>4. inbox' = inbox /\ receipts' = receipts
    BY <1>2 DEF Stage
  <2>5. CASE staging' = [staging EXCEPT ![name] = pushes + 1] /\ push' = [push EXCEPT ![h] = new]
             /\ UNCHANGED answers
    <3>1. push' \in [Pushers -> Push \cup {NoPush}]
      BY <2>2, <2>5, PushSteps
    <3> HIDE DEF new, said
    <3> QED
      BY <2>1, <2>3, <2>4, <2>5, <3>1 DEF ErnTypeOK
  <2>6. CASE answers' = answers \cup {said} /\ UNCHANGED <<staging, push>>
    <3> HIDE DEF new, said
    <3> QED
      BY <2>2, <2>3, <2>4, <2>6 DEF ErnTypeOK
  <2> QED
    BY <1>2, <2>5, <2>6 DEF Stage
<1>3. ASSUME NEW h \in Pushers, Generated(h)
      PROVE  ErnTypeOK'
  <2>1. push[h] \in Push
    BY <1>3, PushRuns, IdleIsNoStep DEF Generated
  <2>2. [push[h] EXCEPT !.pc = "next"] \in Push
    BY <2>1 DEF Push
  <2>3. push' = [push EXCEPT ![h] = [push[h] EXCEPT !.pc = "next"]]
    BY <1>3 DEF Generated, ErnTypeOK
  <2>4. push' \in [Pushers -> Push \cup {NoPush}]
    BY <2>2, <2>3, PushSteps
  <2> QED
    BY <1>3, <2>4, Draws DEF Generated, ErnTypeOK
<1>4. ASSUME NEW h \in Pushers, NEW s \in Stores, PutBegins(h, s)
      PROVE  ErnTypeOK'
  <2> DEFINE new == [push[h] EXCEPT !.pc = "put", !.store = s, !.todo = @ \ {s},
                                    !.read = staging[push[h].name]]
  <2>1. push[h] \in Push
    BY <1>4, PushRuns, IdleIsNoStep DEF PutBegins
  <2>2. staging[push[h].name] \in Nat
    BY <2>1 DEF Push, ErnTypeOK
  <2>3. new \in Push
    BY <2>1, <2>2 DEF Push
  <2>4. push' = [push EXCEPT ![h] = new]
    BY <1>4 DEF PutBegins, ErnTypeOK
  <2>5. push' \in [Pushers -> Push \cup {NoPush}]
    BY <2>3, <2>4, PushSteps
  <2> QED
    BY <1>4, <2>5 DEF PutBegins, ErnTypeOK
<1>5. ASSUME NEW h \in Pushers, push[h].pc = "put"
      PROVE  /\ push[h] \in Push /\ push[h].name \in Names /\ push[h].store \in Stores
             /\ push[h].read \in Nat
             /\ [inbox EXCEPT ![push[h].store][push[h].name] = staging[push[h].name]]
                   \in [Stores -> [Names -> Nat]]
  <2>1. push[h] \in Push /\ push[h].name \in Names /\ push[h].read \in Nat
    BY <1>5, PushRuns, IdleIsNoStep
  <2>2. push[h].store \in Stores
    BY <1>5, IdleIsNoStep DEF RunsAreDivided, Divided
  <2> QED
    BY <2>1, <2>2, Transfers
<1>6. ASSUME NEW h \in Pushers, PutSucceeds(h)
      PROVE  ErnTypeOK'
  <2> DEFINE new == [push[h] EXCEPT !.pc = "next", !.delivered = @ \cup {push[h].store}]
             receipt == [store |-> push[h].store, name |-> push[h].name,
                         message |-> push[h].read, restarts |-> auditSeq.restarts]
  <2>1. push[h].pc = "put"
    BY <1>6 DEF PutSucceeds
  <2>2. /\ push[h] \in Push /\ push[h].name \in Names /\ push[h].store \in Stores
        /\ push[h].read \in Nat
        /\ inbox' \in [Stores -> [Names -> Nat]]
    BY <1>5, <1>6, <2>1 DEF PutSucceeds
  <2>3. new \in Push
    BY <2>2 DEF Push
  <2>4. push' = [push EXCEPT ![h] = new]
    BY <1>6 DEF PutSucceeds, ErnTypeOK
  <2>5. push' \in [Pushers -> Push \cup {NoPush}]
    BY <2>3, <2>4, PushSteps
  <2>6. receipt \in [store : Stores, name : Names, message : Nat, restarts : Nat]
    BY <2>2 DEF ErnTypeOK
  <2>7. receipts' = receipts \cup {receipt}
    BY <1>6 DEF PutSucceeds
  <2>8. UNCHANGED <<pushes, staging, answers>> /\ auditSeq' = Fetched
    BY <1>6 DEF PutSucceeds
  <2> HIDE DEF new, receipt
  <2> QED
    BY <2>2, <2>5, <2>6, <2>7, <2>8, Draws DEF ErnTypeOK
<1>7. ASSUME NEW h \in Pushers, PutFails(h)
      PROVE  ErnTypeOK'
  <2> DEFINE new == [push[h] EXCEPT !.pc = "next", !.failed = @ \cup {push[h].store}]
  <2>1. push[h].pc = "put"
    BY <1>7 DEF PutFails
  <2>2. /\ push[h] \in Push /\ push[h].store \in Stores
        /\ inbox' \in [Stores -> [Names -> Nat]]
    BY <1>5, <1>7, <2>1 DEF PutFails, ErnTypeOK
  <2>3. new \in Push
    BY <2>2 DEF Push
  <2>4. push' = [push EXCEPT ![h] = new]
    BY <1>7 DEF PutFails, ErnTypeOK
  <2>5. push' \in [Pushers -> Push \cup {NoPush}]
    BY <2>3, <2>4, PushSteps
  <2>6. UNCHANGED <<pushes, staging, receipts, answers>> /\ auditSeq' = Fetched
    BY <1>7 DEF PutFails
  <2> HIDE DEF new
  <2> QED
    BY <2>2, <2>5, <2>6, Draws DEF ErnTypeOK
<1>8. ASSUME NEW h \in Pushers, AnswerPush(h)
      PROVE  ErnTypeOK'
  <2> DEFINE said == [message |-> push[h].message, targets |-> push[h].targets, staged |-> TRUE,
                      delivered |-> push[h].delivered, failed |-> push[h].failed]
  <2>1. said \in Said
    BY <1>8, PushRuns, IdleIsNoStep DEF AnswerPush, Said
  <2>2. /\ answers' = answers \cup {said}
        /\ push' = [push EXCEPT ![h] = NoPush]
        /\ UNCHANGED <<auditSeq, pushes, staging, inbox, receipts>>
    BY <1>8 DEF AnswerPush
  <2> HIDE DEF said
  <2> QED
    BY <2>1, <2>2 DEF ErnTypeOK
<1>9. ASSUME NEW h \in Pushers, AbandonPush(h)
      PROVE  ErnTypeOK'
  <2>1. inbox' \in [Stores -> [Names -> Nat]]
    BY <1>5, <1>9 DEF AbandonPush, ErnTypeOK
  <2> QED
    BY <1>9, <2>1 DEF AbandonPush, ErnTypeOK
<1>10. ASSUME Restart
       PROVE  ErnTypeOK'
  BY <1>10 DEF Restart, ErnTypeOK
<1> QED
  BY <1>1, <1>2, <1>3, <1>4, <1>6, <1>7, <1>8, <1>9, <1>10 DEF ErnNext

-----------------------------------------------------------------------------
(* Receipts *)

\* A step that begins no push and starts nothing anew keeps what is in the
\* staging files, and draws at most.
LEMMA PushKeeps ==
    ASSUME ErnInv, staging' = staging,
           auditSeq'.restarts = auditSeq.restarts, auditSeq'.next >= auditSeq.next,
           auditSeq' \in [restarts : Nat, next : Nat \ {0}],
           NEW r \in receipts, inbox'[r.store][r.name] \in {inbox[r.store][r.name], staging[r.name]}
    PROVE  Current(r)'
  BY DEF ErnInv, Current, ErnTypeOK, Names

\* No push and no receipt at first.
LEMMA InitReceipts == ASSUME MaxSeq \in Nat, ErnInit PROVE ErnInv
  BY InitType DEF ErnInit, ErnInv, Drawn

\* The step that matters is Stage: the file it writes is no other push's and no
\* current receipt's, because its number is new.
LEMMA NextReceipts ==
    ASSUME MaxSeq \in Nat, ErnInv, ErnTypeOK', [ErnNext]_ernVars
    PROVE  ErnInv'
<1>a. ErnTypeOK
  BY DEF ErnInv
<1>b. ASSUME NEW g \in Pushers, push[g] # NoPush
      PROVE  /\ push[g] \in Push /\ push[g].name \in Names /\ push[g].name[2] \in Nat
             /\ push[g].name[2] < auditSeq.next
             /\ push[g].pc = "put" => push[g].read = staging[push[g].name]
  BY <1>a, <1>b, PushRuns DEF ErnInv, Drawn, Names
<1>c. auditSeq.next \in Nat /\ auditSeq.restarts \in Nat
  BY <1>a DEF ErnTypeOK
<1>1. CASE UNCHANGED ernVars
  BY <1>1 DEF ernVars, ErnInv, ErnTypeOK, Drawn, Current
<1>2. ASSUME NEW h \in Pushers, NEW isrc \in Isrcs, NEW targets \in SUBSET Stores,
             Stage(h, isrc, targets)
      PROVE  ErnInv'
  <2> DEFINE name == <<isrc, auditSeq.next>>
  <2>1. /\ auditSeq'.next = auditSeq.next + 1 /\ auditSeq'.restarts = auditSeq.restarts
        /\ inbox' = inbox /\ receipts' = receipts
    BY <1>2, <1>a, Draws DEF Stage
  <2>2. staging' = staging \/ staging' = [staging EXCEPT ![name] = pushes + 1]
    BY <1>2 DEF Stage
  <2>3. ASSUME NEW n \in Names, n[2] < auditSeq.next
        PROVE  staging'[n] = staging[n]
    BY <2>2, <2>3, <1>a, <1>c DEF Names, ErnTypeOK
  <2>4. ASSUME NEW g \in Pushers
        PROVE  Drawn(g)'
    <3>1. CASE push'[g] = push[g]
      BY <3>1, <1>b, <1>c, <2>1, <2>3 DEF Drawn
    <3>2. CASE push'[g] # push[g]
      <4>1. g = h /\ push'[g].pc = "staged" /\ push'[g].name = name
        BY <1>2, <1>a, <3>2 DEF Stage, ErnTypeOK
      <4> QED
        BY <4>1, <1>c, <2>1 DEF Drawn
    <3> QED
      BY <3>1, <3>2
  <2>5. ASSUME NEW r \in receipts
        PROVE  Current(r)'
    BY <2>1, <2>3, <1>a, <1>c DEF ErnInv, Current, ErnTypeOK, Names
  <2> QED
    BY <2>1, <2>4, <2>5 DEF ErnInv
<1>3. ASSUME NEW h \in Pushers, Generated(h)
      PROVE  ErnInv'
  <2>1. /\ auditSeq'.next = auditSeq.next + 1 /\ auditSeq'.restarts = auditSeq.restarts
        /\ staging' = staging /\ inbox' = inbox /\ receipts' = receipts
    BY <1>3, <1>a, Draws DEF Generated
  <2>2. ASSUME NEW g \in Pushers
        PROVE  Drawn(g)'
    <3>1. CASE g = h
      <4>1. push[h] # NoPush
        BY <1>3, IdleIsNoStep DEF Generated
      <4>2. push'[h].name = push[h].name /\ push'[h].pc = "next"
        BY <1>3, <1>a, <1>b, <4>1 DEF Generated, ErnTypeOK, Push
      <4> QED
        BY <1>b, <1>c, <2>1, <3>1, <4>1, <4>2 DEF Drawn
    <3>2. CASE g # h
      BY <1>3, <1>a, <1>b, <1>c, <2>1, <3>2 DEF Generated, Drawn, ErnTypeOK
    <3> QED
      BY <3>1, <3>2
  <2>3. \A r \in receipts' : Current(r)'
    BY <1>c, <2>1, PushKeeps DEF ErnTypeOK
  <2> QED
    BY <2>2, <2>3 DEF ErnInv
<1>4. ASSUME NEW h \in Pushers, NEW s \in Stores, PutBegins(h, s)
      PROVE  ErnInv'
  <2>1. auditSeq' = auditSeq /\ staging' = staging /\ inbox' = inbox /\ receipts' = receipts
    BY <1>4 DEF PutBegins
  <2>2. ASSUME NEW g \in Pushers
        PROVE  Drawn(g)'
    <3>1. CASE g = h
      <4>1. push[h] # NoPush
        BY <1>4, IdleIsNoStep DEF PutBegins
      <4>2. push'[h].name = push[h].name /\ push'[h].read = staging[push[h].name]
        BY <1>4, <1>a, <1>b, <4>1 DEF PutBegins, ErnTypeOK, Push
      <4> QED
        BY <1>b, <2>1, <3>1, <4>1, <4>2 DEF Drawn
    <3>2. CASE g # h
      BY <1>4, <1>a, <1>b, <2>1, <3>2 DEF PutBegins, Drawn, ErnTypeOK
    <3> QED
      BY <3>1, <3>2
  <2>3. \A r \in receipts' : Current(r)'
    BY <2>1 DEF ErnInv, Current
  <2> QED
    BY <2>2, <2>3 DEF ErnInv
<1>5. ASSUME NEW h \in Pushers, push[h].pc = "put", NEW r \in receipts,
             inbox' = [inbox EXCEPT ![push[h].store][push[h].name] = staging[push[h].name]]
      PROVE  inbox'[r.store][r.name] \in {inbox[r.store][r.name], staging[r.name]}
  <2>1. r.store \in Stores /\ r.name \in Names
    BY <1>a DEF ErnTypeOK
  <2> QED
    BY <1>5, <2>1, <1>a DEF ErnTypeOK
<1>6. ASSUME NEW h \in Pushers, push[h].pc = "put", auditSeq' = Fetched,
             push'[h].name = push[h].name, push'[h].pc = "next",
             \A g \in Pushers \ {h} : push'[g] = push[g], staging' = staging,
             NEW g \in Pushers
      PROVE  Drawn(g)'
  <2>1. auditSeq'.next = auditSeq.next + 1
    BY <1>6, <1>a, Draws
  <2>2. CASE g = h
    BY <1>6, <1>b, <1>c, <2>1, <2>2, IdleIsNoStep DEF Drawn
  <2>3. CASE g # h
    BY <1>6, <1>b, <1>c, <2>1, <2>3 DEF Drawn
  <2> QED
    BY <2>2, <2>3
<1>7. ASSUME NEW h \in Pushers, PutSucceeds(h)
      PROVE  ErnInv'
  <2> DEFINE receipt == [store |-> push[h].store, name |-> push[h].name,
                         message |-> push[h].read, restarts |-> auditSeq.restarts]
  <2>1. /\ push[h].pc = "put" /\ auditSeq' = Fetched /\ staging' = staging
        /\ inbox' = [inbox EXCEPT ![push[h].store][push[h].name] = staging[push[h].name]]
        /\ receipts' = receipts \cup {receipt}
    BY <1>7 DEF PutSucceeds
  <2>2. push[h] # NoPush /\ push[h] \in Push
    BY <1>b, <2>1, IdleIsNoStep
  <2>3. /\ push'[h].name = push[h].name /\ push'[h].pc = "next"
        /\ \A g \in Pushers \ {h} : push'[g] = push[g]
    BY <1>7, <1>a, <2>2 DEF PutSucceeds, ErnTypeOK, Push
  <2>4. \A g \in Pushers : Drawn(g)'
    BY <1>6, <2>1, <2>3
  <2>5. auditSeq'.next = auditSeq.next + 1 /\ auditSeq'.restarts = auditSeq.restarts
    BY <1>a, <2>1, Draws
  <2>6. ASSUME NEW r \in receipts
        PROVE  Current(r)'
    BY <1>5, <1>c, <2>1, <2>5, PushKeeps DEF ErnTypeOK
  <2>7. ASSUME NEW r, r = receipt
        PROVE  Current(r)'
    <3>1. /\ r.store = push[h].store /\ r.name = push[h].name
          /\ r.message = push[h].read /\ r.restarts = auditSeq.restarts
      BY <2>7
    <3>2. receipt \in receipts'
      BY <2>1
    <3>3. push[h].store \in Stores /\ push[h].name \in Names
      BY <3>2 DEF ErnTypeOK
    <3>4. inbox'[push[h].store][push[h].name] = staging[push[h].name]
      BY <1>a, <2>1, <3>3 DEF ErnTypeOK
    <3> HIDE <2>7 DEF receipt
    <3> QED
      BY <1>b, <1>c, <2>1, <2>2, <2>5, <3>1, <3>4 DEF Current
  <2>8. \A r \in receipts' : Current(r)'
    BY <2>1, <2>6, <2>7
  <2> QED
    BY <2>4, <2>8 DEF ErnInv
<1>8. ASSUME NEW h \in Pushers, PutFails(h)
      PROVE  ErnInv'
  <2>1. /\ push[h].pc = "put" /\ auditSeq' = Fetched /\ staging' = staging
        /\ \/ inbox' = [inbox EXCEPT ![push[h].store][push[h].name] = staging[push[h].name]]
           \/ inbox' = inbox
        /\ receipts' = receipts
    BY <1>8 DEF PutFails
  <2>2. push[h] # NoPush /\ push[h] \in Push
    BY <1>b, <2>1, IdleIsNoStep
  <2>3. /\ push'[h].name = push[h].name /\ push'[h].pc = "next"
        /\ \A g \in Pushers \ {h} : push'[g] = push[g]
    BY <1>8, <1>a, <2>2 DEF PutFails, ErnTypeOK, Push
  <2>4. \A g \in Pushers : Drawn(g)'
    BY <1>6, <2>1, <2>3
  <2>5. auditSeq'.next = auditSeq.next + 1 /\ auditSeq'.restarts = auditSeq.restarts
    BY <1>a, <2>1, Draws
  <2>6. ASSUME NEW r \in receipts
        PROVE  Current(r)'
    BY <1>5, <1>c, <2>1, <2>5, PushKeeps DEF ErnTypeOK
  <2> QED
    BY <2>1, <2>4, <2>6 DEF ErnInv
<1>9. ASSUME NEW h \in Pushers, AnswerPush(h) \/ AbandonPush(h)
      PROVE  ErnInv'
  <2>1. /\ push' = [push EXCEPT ![h] = NoPush]
        /\ UNCHANGED <<auditSeq, staging, receipts>>
        /\ \/ inbox' = inbox
           \/ /\ push[h].pc = "put"
              /\ inbox' = [inbox EXCEPT ![push[h].store][push[h].name] = staging[push[h].name]]
    BY <1>9 DEF AnswerPush, AbandonPush
  <2>2. ASSUME NEW g \in Pushers
        PROVE  Drawn(g)'
    BY <1>a, <1>b, <2>1 DEF Drawn, ErnTypeOK
  <2>3. ASSUME NEW r \in receipts
        PROVE  Current(r)'
    BY <1>5, <1>c, <2>1, PushKeeps DEF ErnTypeOK
  <2> QED
    BY <2>1, <2>2, <2>3 DEF ErnInv
<1>10. ASSUME Restart
       PROVE  ErnInv'
  <2>1. /\ auditSeq'.restarts = auditSeq.restarts + 1
        /\ push' = [h \in Pushers |-> NoPush] /\ receipts' = receipts
    BY <1>10 DEF Restart
  <2>2. \A g \in Pushers : Drawn(g)'
    BY <2>1 DEF Drawn
  <2>3. ASSUME NEW r \in receipts
        PROVE  Current(r)'
    <3>1. r.restarts \in Nat /\ r.restarts <= auditSeq.restarts
      BY <1>a DEF ErnInv, Current, ErnTypeOK
    <3> QED
      BY <1>c, <2>1, <3>1 DEF Current
  <2> QED
    BY <2>1, <2>2, <2>3 DEF ErnInv
<1> QED
  BY <1>1, <1>2, <1>3, <1>4, <1>7, <1>8, <1>9, <1>10 DEF ErnNext

-----------------------------------------------------------------------------
(* Answers *)

\* Every step keeps the stores of each push divided.
LEMMA NextDivided ==
    ASSUME ErnTypeOK, RunsAreDivided, [ErnNext]_ernVars
    PROVE  RunsAreDivided'
<1>a. ASSUME NEW g \in Pushers, push[g] # NoPush
      PROVE  push[g] \in Push /\ Divided(push[g])
  BY <1>a, PushRuns DEF RunsAreDivided
<1>b. ASSUME NEW h \in Pushers, NEW p, push' = [push EXCEPT ![h] = p], p # NoPush => Divided(p)
      PROVE  RunsAreDivided'
  BY <1>a, <1>b DEF RunsAreDivided, ErnTypeOK
<1>1. CASE UNCHANGED ernVars
  BY <1>1 DEF ernVars, RunsAreDivided
<1>2. ASSUME NEW h \in Pushers, NEW isrc \in Isrcs, NEW targets \in SUBSET Stores,
             Stage(h, isrc, targets)
      PROVE  RunsAreDivided'
  <2> DEFINE new == [pc |-> "staged", message |-> pushes + 1, name |-> <<isrc, auditSeq.next>>,
                     targets |-> targets, todo |-> {s \in Stores : Wants(s, targets)},
                     store |-> "none", read |-> NoMessage, delivered |-> {}, failed |-> {}]
  <2>1. push' = push \/ push' = [push EXCEPT ![h] = new]
    BY <1>2 DEF Stage
  <2>2. {s \in Stores : Wants(s, targets)} = Meant(targets)
    BY DEF Stores, Wants, Meant
  <2>3. Divided(new)
    BY <2>2 DEF Divided
  <2> HIDE DEF new
  <2> QED
    BY <1>b, <2>1, <2>3 DEF RunsAreDivided
<1>3. ASSUME NEW h \in Pushers, Generated(h)
      PROVE  RunsAreDivided'
  <2>1. push[h] \in Push /\ Divided(push[h]) /\ push[h].pc = "staged"
    BY <1>3, <1>a, IdleIsNoStep DEF Generated
  <2>2. push' = [push EXCEPT ![h] = [push[h] EXCEPT !.pc = "next"]]
    BY <1>3 DEF Generated, ErnTypeOK
  <2>3. Divided([push[h] EXCEPT !.pc = "next"])
    BY <2>1 DEF Divided, Push
  <2> QED
    BY <1>b, <2>2, <2>3
<1>4. ASSUME NEW h \in Pushers, NEW s \in Stores, PutBegins(h, s)
      PROVE  RunsAreDivided'
  <2> DEFINE new == [push[h] EXCEPT !.pc = "put", !.store = s, !.todo = @ \ {s},
                                    !.read = staging[push[h].name]]
  <2>1. push[h] \in Push /\ Divided(push[h]) /\ push[h].pc = "next" /\ s \in push[h].todo
    BY <1>4, <1>a, IdleIsNoStep DEF PutBegins
  <2>2. /\ new.pc = "put" /\ new.store = s /\ new.todo = push[h].todo \ {s}
        /\ new.delivered = push[h].delivered /\ new.failed = push[h].failed
        /\ new.targets = push[h].targets
    BY <2>1 DEF Push
  <2>3. push' = [push EXCEPT ![h] = new]
    BY <1>4 DEF PutBegins
  <2> HIDE DEF new
  <2>4. Divided(new)
    BY <2>1, <2>2 DEF Divided
  <2> QED
    BY <1>b, <2>3, <2>4
<1>5. ASSUME NEW h \in Pushers, PutSucceeds(h)
      PROVE  RunsAreDivided'
  <2> DEFINE new == [push[h] EXCEPT !.pc = "next", !.delivered = @ \cup {push[h].store}]
  <2>1. push[h] \in Push /\ Divided(push[h]) /\ push[h].pc = "put"
    BY <1>5, <1>a, IdleIsNoStep DEF PutSucceeds
  <2>2. /\ new.pc = "next" /\ new.todo = push[h].todo /\ new.failed = push[h].failed
        /\ new.delivered = push[h].delivered \cup {push[h].store}
        /\ new.targets = push[h].targets
    BY <2>1 DEF Push
  <2>3. push' = [push EXCEPT ![h] = new]
    BY <1>5 DEF PutSucceeds
  <2> HIDE DEF new
  <2>4. Divided(new)
    BY <2>1, <2>2 DEF Divided
  <2> QED
    BY <1>b, <2>3, <2>4
<1>6. ASSUME NEW h \in Pushers, PutFails(h)
      PROVE  RunsAreDivided'
  <2> DEFINE new == [push[h] EXCEPT !.pc = "next", !.failed = @ \cup {push[h].store}]
  <2>1. push[h] \in Push /\ Divided(push[h]) /\ push[h].pc = "put"
    BY <1>6, <1>a, IdleIsNoStep DEF PutFails
  <2>2. /\ new.pc = "next" /\ new.todo = push[h].todo /\ new.delivered = push[h].delivered
        /\ new.failed = push[h].failed \cup {push[h].store}
        /\ new.targets = push[h].targets
    BY <2>1 DEF Push
  <2>3. push' = [push EXCEPT ![h] = new]
    BY <1>6 DEF PutFails
  <2> HIDE DEF new
  <2>4. Divided(new)
    BY <2>1, <2>2 DEF Divided
  <2> QED
    BY <1>b, <2>3, <2>4
<1>7. ASSUME NEW h \in Pushers, AnswerPush(h) \/ AbandonPush(h)
      PROVE  RunsAreDivided'
  <2>1. push' = [push EXCEPT ![h] = NoPush]
    BY <1>7 DEF AnswerPush, AbandonPush
  <2> QED
    BY <1>b, <2>1
<1>8. ASSUME Restart
      PROVE  RunsAreDivided'
  BY <1>8 DEF Restart, RunsAreDivided
<1> QED
  BY <1>1, <1>2, <1>3, <1>4, <1>5, <1>6, <1>7, <1>8 DEF ErnNext

\* Every step keeps the answers complete.
LEMMA NextAnswers ==
    ASSUME ErnStores \cap OtherStores = {}, ErnTypeOK, RunsAreDivided, AnswersCoverTheTargets,
           [ErnNext]_ernVars
    PROVE  AnswersCoverTheTargets'
<1> USE DEF AnswersCoverTheTargets
<1>a. ASSUME NEW h \in Pushers, push[h].pc = "put"
      PROVE  push[h].store \in Stores \ OtherStores
  BY <1>a, IdleIsNoStep DEF RunsAreDivided, Divided, Meant
<1>b. ASSUME answers' = answers,
             \/ inbox' = inbox
             \/ \E h \in Pushers :
                  /\ push[h].pc = "put"
                  /\ inbox' = [inbox EXCEPT ![push[h].store][push[h].name]
                                               = staging[push[h].name]]
      PROVE  AnswersCoverTheTargets'
  <2>1. ASSUME NEW s \in OtherStores, NEW n \in Names
        PROVE  inbox'[s][n] = NoMessage
    <3>1. s \in Stores /\ inbox[s][n] = NoMessage
      BY DEF Stores
    <3> QED
      BY <1>a, <1>b, <3>1 DEF ErnTypeOK
  <2> QED
    BY <1>b, <2>1
<1>1. CASE UNCHANGED ernVars
  BY <1>1 DEF ernVars
<1>2. ASSUME NEW h \in Pushers, NEW isrc \in Isrcs, NEW targets \in SUBSET Stores,
             Stage(h, isrc, targets)
      PROVE  AnswersCoverTheTargets'
  <2>1. /\ inbox' = inbox
        /\ answers' \in {answers, answers \cup {[message |-> pushes + 1, targets |-> targets,
                                   staged |-> FALSE, delivered |-> {}, failed |-> {}]}}
    BY <1>2 DEF Stage
  <2> QED
    BY <2>1
<1>3. ASSUME NEW h \in Pushers,
             \/ Generated(h) \/ PutSucceeds(h) \/ PutFails(h) \/ AbandonPush(h)
             \/ \E s \in Stores : PutBegins(h, s)
      PROVE  AnswersCoverTheTargets'
  BY <1>3, <1>b DEF Generated, PutBegins, PutSucceeds, PutFails, AbandonPush
<1>4. ASSUME NEW h \in Pushers, AnswerPush(h)
      PROVE  AnswersCoverTheTargets'
  <2> DEFINE said == [message |-> push[h].message, targets |-> push[h].targets, staged |-> TRUE,
                      delivered |-> push[h].delivered, failed |-> push[h].failed]
  <2>1. Divided(push[h]) /\ push[h].pc = "next" /\ push[h].todo = {}
    BY <1>4, IdleIsNoStep DEF AnswerPush, RunsAreDivided
  <2>2. /\ said.delivered \cup said.failed = Meant(said.targets)
        /\ said.delivered \cap said.failed = {}
    BY <2>1 DEF Divided
  <2>3. answers' = answers \cup {said} /\ inbox' = inbox
    BY <1>4 DEF AnswerPush
  <2> HIDE DEF said
  <2> QED
    BY <2>2, <2>3 DEF Meant
<1>5. ASSUME Restart
      PROVE  AnswersCoverTheTargets'
  BY <1>5 DEF Restart
<1> QED
  BY <1>1, <1>2, <1>3, <1>4, <1>5 DEF ErnNext

-----------------------------------------------------------------------------
(* Results *)

\* The types of the push's state, of its files and of the stores' are kept.
THEOREM ErnTypeCorrect == ErnSpec => []ErnTypeOK
<1>1. ErnInit => ErnTypeOK /\ RunsAreDivided
  BY ErnAssumption, InitType DEF ErnInit, RunsAreDivided
<1>2. ErnTypeOK /\ RunsAreDivided /\ [ErnNext]_ernVars => ErnTypeOK' /\ RunsAreDivided'
  BY ErnAssumption, NextType, NextDivided
<1> QED
  BY <1>1, <1>2, PTL DEF ErnSpec

\* However many pushes of one recording run together, and whichever of them
\* fail or are given up, a receipt made since the server started tells what
\* the store holds under that name (sftp.rs lines 83 and 128-184).
THEOREM Receipts == ErnSpec => []ReceiptsAreTrue
<1>1. ErnInit => ErnInv /\ RunsAreDivided
  BY ErnAssumption, InitReceipts DEF ErnInit, RunsAreDivided
<1>2. ErnInv /\ RunsAreDivided /\ [ErnNext]_ernVars => ErnInv' /\ RunsAreDivided'
  BY ErnAssumption, NextType, NextDivided, NextReceipts DEF ErnInv
<1>3. ErnInv => ReceiptsAreTrue
  BY DEF ErnInv, Current, ReceiptsAreTrue
<1> QED
  BY <1>1, <1>2, <1>3, PTL DEF ErnSpec

\* With any number of stores, an answer names each store the message was meant
\* for exactly once, and no other store is ever written to (ddex_gateway.rs
\* lines 301-356).
THEOREM Answers == ErnSpec => []AnswersCoverTheTargets
<1> DEFINE Inv == ErnTypeOK /\ RunsAreDivided /\ AnswersCoverTheTargets
<1>1. ErnInit => Inv
  BY ErnAssumption, InitType DEF ErnInit, RunsAreDivided, AnswersCoverTheTargets, Stores
<1>2. Inv /\ [ErnNext]_ernVars => Inv'
  BY ErnAssumption, NextType, NextDivided, NextAnswers
<1>3. Inv => AnswersCoverTheTargets
  OBVIOUS
<1> QED
  BY <1>1, <1>2, <1>3, PTL DEF ErnSpec
=============================================================================
