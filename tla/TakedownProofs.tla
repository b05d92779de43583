--------------------------- MODULE TakedownProofs ---------------------------
(***************************************************************************)
(* Proofs about Takedown, for any number of handlers, notices and          *)
(* uploaders, whether or not writes fail and whenever the server restarts. *)
(*                                                                         *)
(* The invariant says who can be at work on a notice: its submission is    *)
(* alone until it has answered, since nobody else knows the id; after that *)
(* there are only counter-notices, which agree on all they do not set.     *)
(***************************************************************************)
EXTENDS Takedown, TLAPS

At(w) == job[w].id

DrawnFirst == /\ \A w \in Workers : job[w] # Idle => At(w) \in drawn
              /\ \A id \in Keys : db[id] # Absent => id \in drawn

ToldMeansStored == \A id \in Keys : told[id] # Absent => db[id] # Absent

Alone(w) == job[w].what = "submit" =>
    /\ told[At(w)] = Absent
    /\ job[w].pc = "add" <=> db[At(w)] = Absent
    /\ job[w].pc = "write" => copy[w] = db[At(w)]
    /\ \A v \in Workers : v # w /\ job[v] # Idle => At(v) # At(w)

SubmissionsAreAlone == \A w \in Workers : Alone(w)

Later(w) == job[w].what = "counter" =>
    /\ told[At(w)] # Absent
    /\ job[w].by \in Uploaders
    /\ job[w].pc # "add"
    /\ job[w].pc = "write" => /\ copy[w] # Absent
                              /\ copy[w].resolved = db[At(w)].resolved

CountersComeLater == \A w \in Workers : Later(w)

UncounteredUntilTold ==
    \A id \in Keys : db[id] # Absent /\ told[id] = Absent => db[id].counter = Nobody

IInv == /\ TypeOK
        /\ DrawnFirst
        /\ ToldMeansStored
        /\ SubmissionsAreAlone
        /\ CountersComeLater
        /\ UncounteredUntilTold

-----------------------------------------------------------------------------
(* A handler is idle, or serves one of the two requests on some notice. *)

JobShape(w) ==
    \/ job[w] = Idle /\ job[w].what = "nothing" /\ job[w].pc = "idle"
    \/ /\ job[w] \in Job /\ job[w] # Idle
       /\ job[w].what \in {"submit", "counter"}
       /\ job[w].pc \in {"add", "read", "write", "answer"}
       /\ At(w) \in Keys /\ job[w].by \in Uploaders \cup {Nobody}

LEMMA Shape == ASSUME TypeOK PROVE \A w \in Workers : JobShape(w)
  BY DEF TypeOK, JobShape, Job, Idle, At

\* A handler goes on to its next step, and the others stay where they are.
Moves(w, pc) == /\ \A v \in Workers \ {w} : job'[v] = job[v]
                /\ job'[w] = [job[w] EXCEPT !.pc = pc]
                /\ job'[w] # Idle
                /\ job'[w].what = job[w].what /\ job'[w].pc = pc
                /\ job'[w].id = job[w].id /\ job'[w].by = job[w].by

LEMMA Moving ==
    ASSUME TypeOK, NEW w \in Workers, NEW pc \in {"add", "read", "write", "answer"},
           job[w] # Idle, job' = [job EXCEPT ![w].pc = pc]
    PROVE  Moves(w, pc) /\ job' \in [Workers -> Job \cup {Idle}]
  BY DEF TypeOK, Moves, Job, Idle

LEMMA SubmitKeeps ==
    ASSUME IInv, NEW w \in Workers, NEW id \in Keys, Submit(w, id)
    PROVE  IInv'
<1> USE DEF IInv
<1>1. TypeOK'
  BY TakedownAssumption DEF TypeOK, Job, Idle, Submit
<1>2. /\ \A v \in Workers \ {w} : job'[v] = job[v]
      /\ job'[w].what = "submit" /\ job'[w].id = id /\ job'[w].pc = "add"
  BY DEF TypeOK, Submit
<1>3. /\ db[id] = Absent /\ told[id] = Absent
      /\ \A v \in Workers : job[v] # Idle => At(v) # id
  BY DEF TypeOK, Submit, DrawnFirst, ToldMeansStored
<1>4. DrawnFirst'
  BY Shape DEF TypeOK, DrawnFirst, At, Submit, Idle
<1>5. ToldMeansStored'
  BY DEF ToldMeansStored, Submit
<1>6. SubmissionsAreAlone'
  BY <1>2, <1>3, Shape DEF SubmissionsAreAlone, Alone, JobShape, At, Submit
<1>7. CountersComeLater'
  BY <1>2 DEF CountersComeLater, Later, At, Submit
<1>8. UncounteredUntilTold'
  BY DEF UncounteredUntilTold, Submit
<1> QED
  BY <1>1, <1>4, <1>5, <1>6, <1>7, <1>8

LEMMA CounterKeeps ==
    ASSUME IInv, NEW w \in Workers, NEW id \in Keys, NEW by \in Uploaders,
           Counter(w, id, by)
    PROVE  IInv'
<1> USE DEF IInv
<1>1. TypeOK'
  BY TakedownAssumption DEF TypeOK, Job, Idle, Counter
<1>2. /\ \A v \in Workers \ {w} : job'[v] = job[v]
      /\ job'[w].what = "counter" /\ job'[w].id = id /\ job'[w].pc = "read"
      /\ job'[w].by = by
  BY DEF TypeOK, Counter
<1>3. /\ told[id] # Absent /\ db[id] # Absent /\ id \in drawn
  BY DEF Counter, KnownIds, DrawnFirst
<1>4. DrawnFirst'
  BY <1>2, <1>3 DEF DrawnFirst, At, Counter
<1>5. ToldMeansStored'
  BY DEF ToldMeansStored, Counter
<1>6. SubmissionsAreAlone'
  BY <1>2, <1>3 DEF SubmissionsAreAlone, Alone, At, Counter
<1>7. CountersComeLater'
  BY <1>2, <1>3 DEF CountersComeLater, Later, At, Counter
<1>8. UncounteredUntilTold'
  BY DEF UncounteredUntilTold, Counter
<1> QED
  BY <1>1, <1>4, <1>5, <1>6, <1>7, <1>8

LEMMA AddKeeps ==
    ASSUME IInv, NEW w \in Workers, Add(w)
    PROVE  IInv'
<1> USE DEF IInv
<1>1. /\ job[w].what = "submit" /\ job[w] # Idle /\ job[w].pc = "add"
      /\ At(w) \in Keys /\ At(w) \in drawn
      /\ told[At(w)] = Absent
      /\ \A v \in Workers : v # w /\ job[v] # Idle => At(v) # At(w)
  BY Shape DEF Add, JobShape, DrawnFirst, SubmissionsAreAlone, CountersComeLater, Alone, Later
<1>2. Moves(w, "read") /\ job' \in [Workers -> Job \cup {Idle}]
  BY <1>1, Moving DEF Add
<1>a. Received \in Notice /\ Received # Absent /\ Received.counter = Nobody
  <2>1. Received \in Notice /\ Received.counter = Nobody
    BY DEF Received, Notice, NoticeStatus
  <2> QED
    BY <2>1, TakedownAssumption
<1>b. /\ db' = [db EXCEPT ![At(w)] = Received]
      /\ UNCHANGED <<copy, drawn, told>>
  BY DEF Add, Put, At
<1>3. /\ Received \in Notice /\ Received # Absent /\ Received.counter = Nobody
      /\ db' = [db EXCEPT ![At(w)] = Received]
      /\ UNCHANGED <<copy, drawn, told>>
  BY <1>a, <1>b
<1>4. TypeOK'
  BY <1>2, <1>3 DEF TypeOK
<1>5. DrawnFirst'
  BY <1>1, <1>2, <1>3 DEF TypeOK, DrawnFirst, Moves, At
<1>6. ToldMeansStored'
  BY <1>1, <1>3 DEF TypeOK, ToldMeansStored
<1>7. SubmissionsAreAlone'
  <2> SUFFICES ASSUME NEW u \in Workers PROVE Alone(u)'
    BY DEF SubmissionsAreAlone
  <2>1. CASE u = w
    BY <2>1, <1>1, <1>2, <1>3, Shape DEF TypeOK, SubmissionsAreAlone, CountersComeLater, Alone, Later, JobShape, Moves, At
  <2>2. CASE u # w
    <3>1. /\ job'[u] = job[u] /\ Alone(u)
          /\ told' = told /\ copy'[u] = copy[u]
          /\ job[u] # Idle => db'[At(u)] = db[At(u)]
      BY <2>2, <1>1, <1>2, <1>3, Shape DEF TypeOK, SubmissionsAreAlone, JobShape, Moves, At
    <3>2. ASSUME job[u].what = "submit", NEW v \in Workers, v # u, job'[v] # Idle
          PROVE  job'[v].id # job[u].id
      <4>1. job[v] # Idle /\ job'[v].id = job[v].id
        BY <3>2, <1>1, <1>2 DEF Moves
      <4> QED
        BY <3>1, <3>2, <4>1 DEF Alone, At
    <3> QED
      BY <3>1, <3>2, Shape DEF Alone, JobShape, At
  <2> QED
    BY <2>1, <2>2
<1>8. CountersComeLater'
  <2> SUFFICES ASSUME NEW u \in Workers PROVE Later(u)'
    BY DEF CountersComeLater
  <2>1. CASE u = w
    BY <2>1, <1>1, <1>2, <1>3, Shape DEF TypeOK, SubmissionsAreAlone, CountersComeLater, Alone, Later, JobShape, Moves, At
  <2>2. CASE u # w
    BY <2>2, <1>1, <1>2, <1>3, Shape DEF TypeOK, SubmissionsAreAlone, CountersComeLater, Alone, Later, JobShape, Moves, At
  <2> QED
    BY <2>1, <2>2
<1>9. UncounteredUntilTold'
  BY <1>1, <1>3 DEF TypeOK, UncounteredUntilTold
<1> QED
  BY <1>4, <1>5, <1>6, <1>7, <1>8, <1>9

LEMMA ReadKeeps ==
    ASSUME IInv, NEW w \in Workers, Read(w)
    PROVE  IInv'
<1> USE DEF IInv
<1>1. /\ job[w] # Idle /\ job[w].pc = "read" /\ At(w) \in Keys
      /\ db[At(w)] # Absent
  BY Shape DEF Read, JobShape, SubmissionsAreAlone, CountersComeLater, Alone, Later,
               ToldMeansStored
<1>2. Moves(w, "write") /\ job' \in [Workers -> Job \cup {Idle}]
  BY <1>1, Moving DEF Read, At
<1>3. /\ copy' = [copy EXCEPT ![w] = db[At(w)]]
      /\ UNCHANGED <<db, drawn, told>>
  BY DEF Read, UpdateRead, At
<1>4. TypeOK'
  BY <1>1, <1>2, <1>3 DEF TypeOK
<1>5. DrawnFirst'
  BY <1>1, <1>2, <1>3 DEF DrawnFirst, Moves, At
<1>6. ToldMeansStored'
  BY <1>3 DEF ToldMeansStored
<1>7. SubmissionsAreAlone'
  <2> SUFFICES ASSUME NEW u \in Workers PROVE Alone(u)'
    BY DEF SubmissionsAreAlone
  <2>1. CASE u = w
    BY <2>1, <1>1, <1>2, <1>3, Shape DEF TypeOK, SubmissionsAreAlone, CountersComeLater, Alone, Later, JobShape, Moves, At
  <2>2. CASE u # w
    <3>1. /\ job'[u] = job[u] /\ Alone(u)
          /\ told' = told /\ copy'[u] = copy[u]
          /\ job[u] # Idle => db'[At(u)] = db[At(u)]
      BY <2>2, <1>1, <1>2, <1>3, Shape DEF TypeOK, SubmissionsAreAlone, JobShape, Moves, At
    <3>2. ASSUME job[u].what = "submit", NEW v \in Workers, v # u, job'[v] # Idle
          PROVE  job'[v].id # job[u].id
      <4>1. job[v] # Idle /\ job'[v].id = job[v].id
        BY <3>2, <1>1, <1>2 DEF Moves
      <4> QED
        BY <3>1, <3>2, <4>1 DEF Alone, At
    <3> QED
      BY <3>1, <3>2, Shape DEF Alone, JobShape, At
  <2> QED
    BY <2>1, <2>2
<1>8. CountersComeLater'
  <2> SUFFICES ASSUME NEW u \in Workers PROVE Later(u)'
    BY DEF CountersComeLater
  <2>1. CASE u = w
    BY <2>1, <1>1, <1>2, <1>3, Shape DEF TypeOK, SubmissionsAreAlone, CountersComeLater, Alone, Later, JobShape, Moves, At
  <2>2. CASE u # w
    BY <2>2, <1>1, <1>2, <1>3, Shape DEF TypeOK, SubmissionsAreAlone, CountersComeLater, Alone, Later, JobShape, Moves, At
  <2> QED
    BY <2>1, <2>2
<1>9. UncounteredUntilTold'
  BY <1>3 DEF UncounteredUntilTold
<1> QED
  BY <1>4, <1>5, <1>6, <1>7, <1>8, <1>9

LEMMA FailedUpdateKeeps ==
    ASSUME IInv, NEW w \in Workers, FailedUpdate(w)
    PROVE  IInv'
<1> USE DEF IInv
<1>1. job[w] # Idle /\ job[w].pc \in {"read", "write"}
  BY DEF FailedUpdate, Idle
<1>2. Moves(w, "answer") /\ job' \in [Workers -> Job \cup {Idle}]
  BY <1>1, Moving DEF FailedUpdate
<1>3. /\ copy' = [copy EXCEPT ![w] = Absent]
      /\ UNCHANGED <<db, drawn, told>>
  BY DEF FailedUpdate, ForgetCopy, WriteFails
<1>4. TypeOK'
  BY <1>2, <1>3 DEF TypeOK
<1>5. DrawnFirst'
  BY <1>1, <1>2, <1>3 DEF DrawnFirst, Moves, At
<1>6. ToldMeansStored'
  BY <1>3 DEF ToldMeansStored
<1>7. SubmissionsAreAlone'
  <2> SUFFICES ASSUME NEW u \in Workers PROVE Alone(u)'
    BY DEF SubmissionsAreAlone
  <2>1. CASE u = w
    BY <2>1, <1>1, <1>2, <1>3, Shape DEF TypeOK, SubmissionsAreAlone, CountersComeLater, Alone, Later, JobShape, Moves, At
  <2>2. CASE u # w
    <3>1. /\ job'[u] = job[u] /\ Alone(u)
          /\ told' = told /\ copy'[u] = copy[u]
          /\ job[u] # Idle => db'[At(u)] = db[At(u)]
      BY <2>2, <1>1, <1>2, <1>3, Shape DEF TypeOK, SubmissionsAreAlone, JobShape, Moves, At
    <3>2. ASSUME job[u].what = "submit", NEW v \in Workers, v # u, job'[v] # Idle
          PROVE  job'[v].id # job[u].id
      <4>1. job[v] # Idle /\ job'[v].id = job[v].id
        BY <3>2, <1>1, <1>2 DEF Moves
      <4> QED
        BY <3>1, <3>2, <4>1 DEF Alone, At
    <3> QED
      BY <3>1, <3>2, Shape DEF Alone, JobShape, At
  <2> QED
    BY <2>1, <2>2
<1>8. CountersComeLater'
  <2> SUFFICES ASSUME NEW u \in Workers PROVE Later(u)'
    BY DEF CountersComeLater
  <2>1. CASE u = w
    BY <2>1, <1>1, <1>2, <1>3, Shape DEF TypeOK, SubmissionsAreAlone, CountersComeLater, Alone, Later, JobShape, Moves, At
  <2>2. CASE u # w
    BY <2>2, <1>1, <1>2, <1>3, Shape DEF TypeOK, SubmissionsAreAlone, CountersComeLater, Alone, Later, JobShape, Moves, At
  <2> QED
    BY <2>1, <2>2
<1>9. UncounteredUntilTold'
  BY <1>3 DEF UncounteredUntilTold
<1> QED
  BY <1>4, <1>5, <1>6, <1>7, <1>8, <1>9

\* A handler's request is over.
Ends(w) == job'[w] = Idle /\ \A v \in Workers \ {w} : job'[v] = job[v]

LEMMA Ending ==
    ASSUME TypeOK, NEW w \in Workers, job' = [job EXCEPT ![w] = Idle]
    PROVE  Ends(w) /\ job' \in [Workers -> Job \cup {Idle}]
  BY DEF TypeOK, Ends

LEMMA IdleIsNothing == Idle.what = "nothing" /\ Idle.pc = "idle"
  BY DEF Idle

LEMMA FailedAddKeeps ==
    ASSUME IInv, NEW w \in Workers, FailedAdd(w)
    PROVE  IInv'
<1> USE DEF IInv
<1>1. Ends(w) /\ job' \in [Workers -> Job \cup {Idle}]
  BY Ending DEF FailedAdd, AddFailed
<1>2. UNCHANGED <<db, copy, drawn, told>>
  BY DEF FailedAdd, WriteFails
<1>3. TypeOK'
  BY <1>1, <1>2 DEF TypeOK
<1>4. DrawnFirst'
  BY <1>1, <1>2 DEF DrawnFirst, Ends, At
<1>5. ToldMeansStored' /\ UncounteredUntilTold'
  BY <1>2 DEF ToldMeansStored, UncounteredUntilTold
<1>6. SubmissionsAreAlone'
  BY <1>1, <1>2, IdleIsNothing DEF SubmissionsAreAlone, Alone, Ends, At
<1>7. CountersComeLater'
  BY <1>1, <1>2, IdleIsNothing DEF CountersComeLater, Later, Ends, At
<1> QED
  BY <1>3, <1>4, <1>5, <1>6, <1>7

LEMMA AnswerKeeps ==
    ASSUME IInv, NEW w \in Workers, Answer(w)
    PROVE  IInv'
<1> USE DEF IInv
<1>1. /\ job[w] # Idle /\ At(w) \in Keys /\ job[w].pc = "answer"
      /\ db[At(w)] # Absent
  BY Shape, IdleIsNothing
     DEF Answer, JobShape, SubmissionsAreAlone, CountersComeLater, Alone, Later,
         ToldMeansStored
<1>2. Ends(w) /\ job' \in [Workers -> Job \cup {Idle}]
  BY Ending DEF Answer
<1>3. UNCHANGED <<db, copy, drawn>>
  BY DEF Answer
<1>4. PICK status \in NoticeStatus : told' = [told EXCEPT ![At(w)] = status]
  BY DEF Answer, NoticeStatus, At
<1>5. status # Absent
  BY TakedownAssumption
<1>6. TypeOK'
  BY <1>2, <1>3, <1>4 DEF TypeOK
<1>7. DrawnFirst'
  BY <1>2, <1>3 DEF DrawnFirst, Ends, At
<1>8. ToldMeansStored' /\ UncounteredUntilTold'
  BY <1>1, <1>3, <1>4, <1>5 DEF TypeOK, ToldMeansStored, UncounteredUntilTold
<1>9. SubmissionsAreAlone'
  <2> SUFFICES ASSUME NEW u \in Workers, job'[u].what = "submit" PROVE Alone(u)'
    BY DEF SubmissionsAreAlone, Alone
  <2>1. u # w /\ job'[u] = job[u] /\ Alone(u)
    BY <1>2, IdleIsNothing DEF Ends, SubmissionsAreAlone
  <2>2. At(w) # At(u)
    BY <1>1, <2>1 DEF Alone
  <2> QED
    BY <1>2, <1>3, <1>4, <2>1, <2>2 DEF TypeOK, Alone, Ends, At
<1>10. CountersComeLater'
  <2> SUFFICES ASSUME NEW u \in Workers, job'[u].what = "counter" PROVE Later(u)'
    BY DEF CountersComeLater, Later
  <2>1. u # w /\ job'[u] = job[u] /\ Later(u) /\ At(u) \in Keys
    BY <1>2, IdleIsNothing, Shape DEF Ends, CountersComeLater, JobShape
  <2> QED
    BY <1>1, <1>3, <1>4, <1>5, <2>1 DEF TypeOK, Later, At
<1> QED
  BY <1>6, <1>7, <1>8, <1>9, <1>10

LEMMA RestartKeeps ==
    ASSUME IInv, Restart
    PROVE  IInv'
<1> USE DEF IInv
<1>1. /\ \A w \in Workers : job'[w] = Idle
      /\ job' \in [Workers -> Job \cup {Idle}]
      /\ copy' \in [Workers -> Notice \cup {Absent}]
      /\ UNCHANGED <<db, drawn, told>>
  BY DEF Restart, NoCopies
<1>2. TypeOK'
  BY <1>1 DEF TypeOK
<1>3. DrawnFirst'
  BY <1>1 DEF DrawnFirst
<1>4. ToldMeansStored' /\ UncounteredUntilTold'
  BY <1>1 DEF ToldMeansStored, UncounteredUntilTold
<1>5. SubmissionsAreAlone' /\ CountersComeLater'
  BY <1>1, IdleIsNothing DEF SubmissionsAreAlone, CountersComeLater, Alone, Later
<1> QED
  BY <1>2, <1>3, <1>4, <1>5

-----------------------------------------------------------------------------
(* The write of an update *)

\* Whoever writes has a copy that agrees with the store on what it keeps.
LEMMA CopyIsGood ==
    ASSUME IInv, NEW w \in Workers, job[w].pc = "write"
    PROVE  /\ At(w) \in Keys /\ db[At(w)] \in Notice /\ copy[w] \in Notice
           /\ Changed(w, copy[w]) = Changed(w, db[At(w)])
           /\ Changed(w, copy[w]) \in Notice
           /\ Changed(w, copy[w]).resolved = db[At(w)].resolved \/ job[w].what = "submit"
           /\ IF job[w].what = "submit"
              THEN Changed(w, copy[w]).counter = db[At(w)].counter
              ELSE /\ Changed(w, copy[w]).counter \in Uploaders
                   /\ Changed(w, copy[w]).status = "CounterReceived"
<1> USE DEF IInv
<1>1. /\ job[w].what \in {"submit", "counter"} /\ At(w) \in Keys
      /\ db[At(w)] # Absent
  BY Shape, IdleIsNothing
     DEF JobShape, SubmissionsAreAlone, CountersComeLater, Alone, Later, ToldMeansStored
<1>2. db[At(w)] \in Notice
  BY <1>1 DEF TypeOK
<1>3. CASE job[w].what = "submit"
  <2>1. copy[w] = db[At(w)]
    BY <1>3 DEF SubmissionsAreAlone, Alone
  <2> QED
    BY <1>1, <1>2, <1>3, <2>1 DEF Changed, Removed, Notice, NoticeStatus
<1>4. CASE job[w].what = "counter"
  <2>1. /\ copy[w] \in Notice /\ copy[w].resolved = db[At(w)].resolved
        /\ job[w].by \in Uploaders
    BY <1>4 DEF TypeOK, CountersComeLater, Later
  <2> QED
    BY <1>1, <1>2, <1>4, <2>1 DEF Changed, Countered, Notice, NoticeStatus
<1> QED
  BY <1>1, <1>3, <1>4

LEMMA WriteKeeps ==
    ASSUME IInv, NEW w \in Workers, Write(w)
    PROVE  IInv'
<1> DEFINE new == Changed(w, copy[w])
<1> USE DEF IInv
<1>1. /\ job[w] # Idle /\ job[w].pc = "write" /\ At(w) \in Keys
      /\ db[At(w)] # Absent /\ new \in Notice /\ new # Absent
      /\ new.resolved = db[At(w)].resolved \/ job[w].what = "submit"
      /\ job[w].what = "submit" => new.counter = db[At(w)].counter
      /\ job[w].what # "submit" => told[At(w)] # Absent
  BY CopyIsGood, Shape, IdleIsNothing, TakedownAssumption
     DEF Write, JobShape, CountersComeLater, Later, ToldMeansStored
<1>2. Moves(w, "answer") /\ job' \in [Workers -> Job \cup {Idle}]
  BY <1>1, Moving DEF Write
<1>3. /\ db' = [db EXCEPT ![At(w)] = new]
      /\ copy' = [copy EXCEPT ![w] = Absent]
      /\ UNCHANGED <<drawn, told>>
  BY DEF Write, UpdateWrite, Put, At
<1> HIDE DEF new
<1>4. TypeOK'
  BY <1>1, <1>2, <1>3 DEF TypeOK
<1>5. DrawnFirst'
  BY <1>1, <1>2, <1>3 DEF TypeOK, DrawnFirst, Moves, At
<1>6. ToldMeansStored' /\ UncounteredUntilTold'
  BY <1>1, <1>3 DEF TypeOK, ToldMeansStored, UncounteredUntilTold
<1>7. SubmissionsAreAlone'
  <2> SUFFICES ASSUME NEW u \in Workers PROVE Alone(u)'
    BY DEF SubmissionsAreAlone
  <2>1. CASE u = w
    BY <2>1, <1>1, <1>2, <1>3 DEF TypeOK, SubmissionsAreAlone, Alone, Moves, At
  <2>2. CASE u # w
    <3>1. /\ job'[u] = job[u] /\ Alone(u)
          /\ told'[At(u)] = told[At(u)] /\ copy'[u] = copy[u]
          /\ job[u].what = "submit" => db'[At(u)] = db[At(u)]
      <4>1. job'[u] = job[u] /\ Alone(u) /\ told' = told /\ copy'[u] = copy[u]
        BY <2>2, <1>2, <1>3 DEF TypeOK, SubmissionsAreAlone, Moves
      <4>2. job[u].what = "submit" => At(w) # At(u) /\ At(u) \in Keys
        BY <2>2, <1>1, <4>1, Shape, IdleIsNothing DEF Alone, JobShape
      <4> QED
        BY <1>3, <4>1, <4>2 DEF TypeOK
    <3>2. ASSUME job[u].what = "submit", NEW v \in Workers, v # u, job'[v] # Idle
          PROVE  job'[v].id # job[u].id
      <4>1. job[v] # Idle /\ job'[v].id = job[v].id
        BY <3>2, <1>1, <1>2, <1>3 DEF Moves
      <4> QED
        BY <3>1, <3>2, <4>1 DEF Alone, At
    <3> QED
      BY <3>1, <3>2, Shape DEF Alone, JobShape, At
  <2> QED
    BY <2>1, <2>2
<1>8. CountersComeLater'
  <2> SUFFICES ASSUME NEW u \in Workers, job'[u].what = "counter" PROVE Later(u)'
    BY DEF CountersComeLater, Later
  <2>1. CASE u = w
    BY <1>1, <1>2, <1>3, <2>1 DEF CountersComeLater, Later, Moves, At
  <2>2. CASE u # w
    <3>1. job'[u] = job[u] /\ Later(u) /\ At(u) \in Keys
      BY <1>2, <2>2, IdleIsNothing, Shape DEF Moves, CountersComeLater, JobShape
    <3>2. db'[At(u)].resolved = db[At(u)].resolved
      <4>1. CASE At(u) = At(w)
        <5>1. job[w].what # "submit"
          BY <1>1, <2>2, <3>1, <4>1 DEF Later, SubmissionsAreAlone, Alone
        <5> QED
          BY <1>1, <1>3, <4>1, <5>1 DEF TypeOK
      <4>2. CASE At(u) # At(w)
        BY <1>3, <3>1, <4>2 DEF TypeOK
      <4> QED
        BY <4>1, <4>2
    <3> QED
      BY <1>3, <2>2, <3>1, <3>2 DEF TypeOK, Later, At
  <2> QED
    BY <2>1, <2>2
<1> QED
  BY <1>4, <1>5, <1>6, <1>7, <1>8

-----------------------------------------------------------------------------
(* The theorems *)

LEMMA InitHolds == Init => IInv
<1> SUFFICES ASSUME Init PROVE IInv
  OBVIOUS
<1>1. /\ \A w \in Workers : job[w] = Idle
      /\ \A id \in Keys : db[id] = Absent /\ told[id] = Absent
  BY DEF Init, EmptyStore
<1>2. TypeOK
  BY DEF Init, TypeOK, EmptyStore, NoCopies
<1> QED
  BY <1>1, <1>2, IdleIsNothing
     DEF IInv, DrawnFirst, ToldMeansStored, SubmissionsAreAlone, CountersComeLater,
         Alone, Later, UncounteredUntilTold

LEMMA StepKeeps == IInv /\ [Next]_vars => IInv'
<1> SUFFICES ASSUME IInv, [Next]_vars PROVE IInv'
  OBVIOUS
<1>1. CASE UNCHANGED vars
  BY <1>1 DEF vars, IInv, TypeOK, DrawnFirst, ToldMeansStored, SubmissionsAreAlone,
              CountersComeLater, Alone, Later, UncounteredUntilTold, At
<1>2. CASE Restart
  BY <1>2, RestartKeeps
<1>3. ASSUME NEW w \in Workers, NEW id \in Keys, Submit(w, id) PROVE IInv'
  BY <1>3, SubmitKeeps
<1>4. ASSUME NEW w \in Workers, NEW id \in Keys, NEW by \in Uploaders, Counter(w, id, by)
      PROVE  IInv'
  BY <1>4, CounterKeeps
<1>5. ASSUME NEW w \in Workers,
             Add(w) \/ FailedAdd(w) \/ Read(w) \/ Write(w) \/ FailedUpdate(w) \/ Answer(w)
      PROVE  IInv'
  BY <1>5, AddKeeps, FailedAddKeeps, ReadKeeps, WriteKeeps, FailedUpdateKeeps, AnswerKeeps
<1> QED
  BY <1>1, <1>2, <1>3, <1>4, <1>5 DEF Next

LEMMA Invariance == Spec => []IInv
<1>1. Init => IInv
  BY InitHolds
<1>2. IInv /\ [Next]_vars => IInv'
  BY StepKeeps
<1> QED
  BY <1>1, <1>2, PTL DEF Spec

\* The store, the copies that updates have read, and what the handlers do next
\* stay in their types.
THEOREM TypeCorrect == Spec => []TypeOK
<1>1. IInv => TypeOK
  BY DEF IInv
<1> QED
  BY <1>1, Invariance, PTL

\* Whatever fails and whenever the server restarts (lines 128-131), a notice
\* whose id a client was told is in the store.
THEOREM NoticesSurvive == Spec => []AnsweredNoticesAreStored
<1>1. IInv => AnsweredNoticesAreStored
  BY DEF IInv, ToldMeansStored, AnsweredNoticesAreStored, KnownIds
<1> QED
  BY <1>1, Invariance, PTL

\* The two transactions of update() (persist.rs 116-131) have the effect of one
\* in every use that takedown.rs makes of it: no update is lost.
THEOREM NoLostUpdate == Spec => UpdatesAreAtomic
<1>1. IInv /\ [Next]_vars =>
        [\A w \in Workers :
           Write(w) => Put(job[w].id, Changed(w, db[job[w].id]))]_vars
  <2> SUFFICES ASSUME IInv, NEW w \in Workers, Write(w)
               PROVE  Put(job[w].id, Changed(w, db[job[w].id]))
    OBVIOUS
  <2>1. Changed(w, copy[w]) = Changed(w, db[job[w].id])
    BY CopyIsGood DEF Write, At
  <2> QED
    BY <2>1 DEF Write, UpdateWrite
<1> QED
  BY <1>1, Invariance, PTL DEF Spec, UpdatesAreAtomic

\* What a step does to a stored notice: nothing, or it leaves it without a
\* counter-notice, which it had not, or it stores one with its status.
LEMMA StoreSteps ==
    ASSUME IInv, [Next]_vars, NEW id \in Keys
    PROVE  \/ db'[id] = db[id]
           \/ db'[id].counter = Nobody /\ (db[id] = Absent \/ db[id].counter = Nobody)
           \/ db'[id].counter \in Uploaders /\ db'[id].status = "CounterReceived"
<1> USE DEF IInv
<1>1. ASSUME NEW w \in Workers, Add(w)
      PROVE  /\ db' = [db EXCEPT ![At(w)] = Received] /\ At(w) \in Keys
             /\ Received.counter = Nobody /\ db[At(w)] = Absent
  BY <1>1, Shape, IdleIsNothing
     DEF Add, Put, At, Received, JobShape, SubmissionsAreAlone, CountersComeLater,
         Alone, Later
<1>2. ASSUME NEW w \in Workers, Write(w)
      PROVE  \/ db'[id] = db[id]
             \/ db'[id].counter = Nobody /\ db[id].counter = Nobody
             \/ db'[id].counter \in Uploaders /\ db'[id].status = "CounterReceived"
  <2>1. db' = [db EXCEPT ![At(w)] = Changed(w, copy[w])] /\ job[w].pc = "write"
    BY <1>2 DEF Write, UpdateWrite, Put, At
  <2>2. CASE id # At(w)
    BY <2>1, <2>2 DEF TypeOK
  <2>3. CASE id = At(w)
    <3>1. db'[id] = Changed(w, copy[w])
      BY <2>1, <2>3 DEF TypeOK
    <3>2. job[w].what = "submit" => db[id].counter = Nobody
      BY <2>1, <2>3, CopyIsGood, TakedownAssumption
         DEF SubmissionsAreAlone, Alone, UncounteredUntilTold
    <3> QED
      BY <2>1, <2>3, <3>1, <3>2, CopyIsGood
  <2> QED
    BY <2>2, <2>3
<1>3. \/ db' = db
      \/ \E w \in Workers : Add(w) \/ Write(w)
  BY DEF Next, vars, Submit, FailedAdd, WriteFails, Counter, Read, FailedUpdate,
         Answer, Restart
<1> QED
  BY <1>1, <1>2, <1>3 DEF TypeOK

\* A notice that names who countered it has the status that says so.
CounteredStatus ==
    \A id \in Keys : db[id] # Absent /\ db[id].counter # Nobody =>
                        db[id].status = "CounterReceived"

\* A stored counter-notice (set_counter, lines 93-98) is never overwritten by the
\* status update of the submission or by anything else.
THEOREM CountersStay == Spec => CounterNoticesStay
<1>1. Init => CounteredStatus
  BY DEF Init, EmptyStore, CounteredStatus
<1>2. IInv /\ CounteredStatus /\ [Next]_vars => CounteredStatus'
  BY StoreSteps, TakedownAssumption DEF CounteredStatus
<1>3. IInv /\ CounteredStatus /\ [Next]_vars =>
        [\A id \in Keys :
           db[id] # Absent /\ db[id].counter # Nobody =>
              /\ db'[id].status = "CounterReceived"
              /\ db'[id].counter # Nobody]_vars
  BY StoreSteps, TakedownAssumption DEF CounteredStatus
<1> QED
  BY <1>1, <1>2, <1>3, Invariance, PTL DEF Spec, CounterNoticesStay
=============================================================================
