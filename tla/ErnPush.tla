------------------------------- MODULE ErnPush -------------------------------
(***************************************************************************)
(* The ERN push: gateway_ern_push over ddex_gateway.rs and sftp.rs.        *)
(*                                                                         *)
(* A push builds one message, writes it to the staging directory under a   *)
(* name made of the ISRC and the next audit number, and transfers that     *)
(* file to one store after the other.  The receipt of a transfer is made   *)
(* of what the file held before it began.  Pushes run concurrently; a      *)
(* client that goes away or a server that stops ends a push where it is,   *)
(* and the server starts to count from 1 again.                            *)
(***************************************************************************)
EXTENDS Naturals, FiniteSets

CONSTANTS Pushers,      \* pushes that run at a time
          Isrcs,
          ErnStores,    \* stores with accepts_ern
          OtherStores,  \* stores without
          MaxSeq,       \* bound: audit numbers in file names
          MaxPushes, MaxRestarts   \* bounds

\* A store either takes messages or does not.
ASSUME ErnAssumption == MaxSeq \in Nat /\ ErnStores \cap OtherStores = {}

VARIABLES auditSeq,   \* AUDIT_SEQ, with the number of restarts before it
          push,       \* per handler: the push it works on
          pushes,     \* pushes begun; the message of each is new
          staging,    \* per file name: the message in the staging file
          inbox,      \* per store and file name: the message it holds
          receipts,   \* history: the receipts made
          answers     \* history: what the answers said

ernVars == <<auditSeq, push, pushes, staging, inbox, receipts, answers>>

Stores == ErnStores \cup OtherStores
Names  == Isrcs \X (1..MaxSeq)

NoMessage == 0
NoPush == [pc |-> "idle"]

Push == [pc : {"staged", "next", "put"}, message : Nat, name : Names,
         targets : SUBSET Stores, todo : SUBSET Stores, store : Stores \cup {"none"},
         read : Nat, delivered : SUBSET Stores, failed : SUBSET Stores]

Said == [message : Nat, targets : SUBSET Stores, staged : BOOLEAN,
         delivered : SUBSET Stores, failed : SUBSET Stores]

ErnTypeOK ==
    /\ auditSeq \in [restarts : Nat, next : Nat \ {0}]
    /\ push \in [Pushers -> Push \cup {NoPush}]
    /\ pushes \in Nat
    /\ staging \in [Names -> Nat]
    /\ inbox \in [Stores -> [Names -> Nat]]
    /\ receipts \subseteq [store : Stores, name : Names, message : Nat, restarts : Nat]
    /\ answers \subseteq Said

ErnInit ==
    /\ auditSeq = [restarts |-> 0, next |-> 1]
    /\ push = [h \in Pushers |-> NoPush]
    /\ pushes = 0
    /\ staging = [n \in Names |-> NoMessage]
    /\ inbox = [s \in Stores |-> [n \in Names |-> NoMessage]]
    /\ receipts = {}
    /\ answers = {}

-----------------------------------------------------------------------------
(* Faults: single slips in the code below, for mutation runs *)

Fetched_Forgets == auditSeq

Wants_WithoutCapability(s, targets) == targets = {} \/ s \in targets

-----------------------------------------------------------------------------

\* next_seq: fetch_add, so no two callers get one number.
Fetched == [auditSeq EXCEPT !.next = @ + 1]

\* The stores a push goes to: all that take messages, or those asked for.
Wants(s, targets) == s \in ErnStores /\ (targets = {} \/ s \in targets)

\* gateway_ern_push and push_ern up to the staged file.  Bad ISRCs and titles
\* are refused and change nothing.  When the file cannot be written the push is
\* over: the answer is 200 with no store in it.
Stage(h, isrc, targets) ==
    LET name == <<isrc, auditSeq.next>>
    IN  /\ push[h] = NoPush
        /\ pushes < MaxPushes /\ auditSeq.next <= MaxSeq
        /\ pushes' = pushes + 1
        /\ auditSeq' = Fetched
        /\ \/ /\ staging' = [staging EXCEPT ![name] = pushes + 1]
              /\ push' = [push EXCEPT ![h] =
                    [pc |-> "staged", message |-> pushes + 1, name |-> name, targets |-> targets,
                     todo |-> {s \in Stores : Wants(s, targets)}, store |-> "none",
                     read |-> NoMessage, delivered |-> {}, failed |-> {}]]
              /\ UNCHANGED answers
           \/ /\ answers' = answers \cup {[message |-> pushes + 1, targets |-> targets, staged |-> FALSE,
                                           delivered |-> {}, failed |-> {}]}
              /\ UNCHANGED <<staging, push>>
        /\ UNCHANGED <<inbox, receipts>>

\* The event ErnGenerated takes a number.
Generated(h) ==
    /\ push[h].pc = "staged"
    /\ auditSeq' = Fetched
    /\ push' = [push EXCEPT ![h].pc = "next"]
    /\ UNCHANGED <<pushes, staging, inbox, receipts, answers>>

\* sftp_put reads the file for the receipt and starts the transfer.
PutBegins(h, s) ==
    /\ push[h].pc = "next"
    /\ s \in push[h].todo
    /\ push' = [push EXCEPT ![h] = [push[h] EXCEPT !.pc = "put", !.store = s, !.todo = @ \ {s},
                                                    !.read = staging[push[h].name]]]
    /\ UNCHANGED <<auditSeq, pushes, staging, inbox, receipts, answers>>

\* The child process copies what the file holds by then.
PutSucceeds(h) ==
    LET p == push[h]
    IN  /\ p.pc = "put"
        /\ inbox' = [inbox EXCEPT ![p.store][p.name] = staging[p.name]]
        /\ receipts' = receipts \cup {[store |-> p.store, name |-> p.name, message |-> p.read,
                                       restarts |-> auditSeq.restarts]}
        /\ auditSeq' = Fetched
        /\ push' = [push EXCEPT ![h] = [p EXCEPT !.pc = "next", !.delivered = @ \cup {p.store}]]
        /\ UNCHANGED <<pushes, staging, answers>>

\* It fails, before or after the store has the file; the other stores get their
\* turn.
PutFails(h) ==
    LET p == push[h]
    IN  /\ p.pc = "put"
        /\ \/ inbox' = [inbox EXCEPT ![p.store][p.name] = staging[p.name]]
           \/ UNCHANGED inbox
        /\ auditSeq' = Fetched
        /\ push' = [push EXCEPT ![h] = [p EXCEPT !.pc = "next", !.failed = @ \cup {p.store}]]
        /\ UNCHANGED <<pushes, staging, receipts, answers>>

\* The staging file stays where it is, whatever step 6 of the module's comment
\* says.
AnswerPush(h) ==
    LET p == push[h]
    IN  /\ p.pc = "next" /\ p.todo = {}
        /\ answers' = answers \cup {[message |-> p.message, targets |-> p.targets, staged |-> TRUE,
                                     delivered |-> p.delivered, failed |-> p.failed]}
        /\ push' = [push EXCEPT ![h] = NoPush]
        /\ UNCHANGED <<auditSeq, pushes, staging, inbox, receipts>>

\* The client goes away.  A transfer it was waiting for may still be made.
AbandonPush(h) ==
    /\ push[h] # NoPush
    /\ push' = [push EXCEPT ![h] = NoPush]
    /\ \/ UNCHANGED inbox
       \/ LET p == push[h]
          IN  /\ p.pc = "put"
              /\ inbox' = [inbox EXCEPT ![p.store][p.name] = staging[p.name]]
    /\ UNCHANGED <<auditSeq, pushes, staging, receipts, answers>>

Restart ==
    /\ auditSeq.restarts < MaxRestarts
    /\ auditSeq' = [restarts |-> auditSeq.restarts + 1, next |-> 1]
    /\ push' = [h \in Pushers |-> NoPush]
    /\ UNCHANGED <<pushes, staging, inbox, receipts, answers>>

ErnNext ==
    \/ \E h \in Pushers :
          \/ \E isrc \in Isrcs, targets \in SUBSET Stores : Stage(h, isrc, targets)
          \/ Generated(h)
          \/ \E s \in Stores : PutBegins(h, s)
          \/ PutSucceeds(h) \/ PutFails(h) \/ AnswerPush(h) \/ AbandonPush(h)
    \/ Restart

ErnSpec == ErnInit /\ [][ErnNext]_ernVars

-----------------------------------------------------------------------------
(* Properties *)

\* A receipt "proves" the delivery (sftp.rs line 83): as long as the server that
\* made it runs, the store holds under that name exactly the message that was
\* pushed, whatever other pushes did in the same directories meanwhile.
ReceiptsAreTrue ==
    \A r \in receipts :
       r.restarts = auditSeq.restarts => inbox[r.store][r.name] = r.message

\* An answer to a push that was staged names every store it was meant for, once,
\* and no store ever gets a message it does not take or was not asked to.
AnswersCoverTheTargets ==
    /\ \A a \in answers : a.staged =>
          /\ a.delivered \cup a.failed =
                {s \in ErnStores : a.targets = {} \/ s \in a.targets}
          /\ a.delivered \cap a.failed = {}
    /\ \A s \in OtherStores, n \in Names : inbox[s][n] = NoMessage
=============================================================================
