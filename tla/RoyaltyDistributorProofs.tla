---------------------- MODULE RoyaltyDistributorProofs ----------------------
(***************************************************************************)
(* Theorems about RoyaltyDistributor for every set of CIDs, accounts and   *)
(* requests and every cap and delay.                                       *)
(*                                                                         *)
(* The lock makes the stack of calls at most one deep, so a state is       *)
(* either quiet, and the payments agree with the records, or inside one    *)
(* call, and then the state before the call agreed, the current one        *)
(* differs from it by that call's record and transfers only, and the       *)
(* call's running total is what was sent for its CID.                      *)
(*                                                                         *)
(* Seen from outside, an open call has not happened yet: every step inside *)
(* it, its start and its reversal are stutters of Settlement, and its      *)
(* return is the one step that settles.  That step may be taken because of *)
(* what the call's start has checked, so the invariant carries the grounds *)
(* of the call (Grounds) to its return.                                    *)
(*                                                                         *)
(* What accounts hold is a sum over the CIDs of sums over a request's      *)
(* list.  A quiet state is backed by one request per distributed CID       *)
(* (Backs); inside a call the state before it is, and each account has     *)
(* since got the shares of the entries behind the call (PartlyPaid).       *)
(***************************************************************************)
EXTENDS RoyaltyDistributor, SequenceTheorems, SumTheorems, TLAPS

PaidOK(tr, pd) ==
    \A c \in CIDs : pd[c] = IF tr[c].distributed THEN tr[c].total ELSE 0

QueueOK(tr, q) ==
    \A c \in CIDs :
        /\ q[c].executed => /\ tr[c].distributed /\ ~q[c].cancelled
                            /\ tr[c].total = q[c].req.total
                            /\ tr[c].timestamp >= q[c].executeAfter
        /\ tr[c].distributed /\ tr[c].total > Cap => q[c].executed

\* A request that passed distribute()'s checks, which the transfers rely on.
Accepted(r) == r \in Requests /\ ValidRequest(r)

EntriesOK(q) == \A c \in CIDs : q[c].executeAfter > 0 => Accepted(q[c].req)

\* What holds inside the call f with the records tr and payments pd.
CallOK(f, tr, pd) ==
    /\ Accepted(f.req)
    /\ EntriesOK(f.before.pending)
    /\ ~f.before.locked
    /\ PaidOK(f.before.trackRecords, f.before.paid)
    /\ QueueOK(f.before.trackRecords, f.before.pending)
    /\ ~f.before.trackRecords[f.cid].distributed
    /\ \A c \in CIDs \ {f.cid} : /\ tr[c] = f.before.trackRecords[c]
                                 /\ pd[c] = f.before.paid[c]
    /\ tr[f.cid].distributed
    /\ tr[f.cid].total = f.req.total
    /\ pd[f.cid] = f.sent

IInv == /\ TypeOK
        /\ OneCallAtATime
        /\ QueueOK(trackRecords, pending)
        /\ EntriesOK(pending)
        /\ calls = << >> => PaidOK(trackRecords, paid)
        /\ calls # << >> => CallOK(Head(calls), trackRecords, paid)

-----------------------------------------------------------------------------
LEMMA ShareIsNat ==
    ASSUME NEW r, Accepted(r), NEW i \in DOMAIN r.artists
    PROVE  /\ Share(r, i) \in Nat
           /\ r.artists[i] \in Accounts
           /\ r.total \in Nat
<1>1. r \in RequestType
  BY DistributorAssumption DEF Accepted
<1>2. i \in DOMAIN r.bps
  BY <1>1 DEF Accepted, ValidRequest, RequestType
<1>3. r.total \in Nat /\ r.bps[i] \in Nat
  BY <1>1, <1>2 DEF RequestType
<1>4. r.total * r.bps[i] \in Nat
  BY <1>3
<1>5. Share(r, i) \in Nat
  BY <1>4 DEF Share, BASIS_POINTS
<1>6. r.artists[i] \in Accounts
  BY <1>1 DEF Accepted, ValidRequest, RequestType
<1> QED
  BY <1>3, <1>5, <1>6

LEMMA InitInv == Init => IInv
<1> SUFFICES ASSUME Init PROVE IInv
  OBVIOUS
<1>1. NoRecord \in Record /\ NotQueued \in PendingDistribution
  BY DEF NoRecord, NotQueued, Record, PendingDistribution
<1>2. calls = << >> /\ calls \in Seq(Frame)
  BY DEF Init
<1>3. TypeOK
  BY <1>1, <1>2 DEF Init, TypeOK
<1>4. OneCallAtATime
  BY <1>2 DEF Init, OneCallAtATime
<1>5. QueueOK(trackRecords, pending) /\ EntriesOK(pending) /\ PaidOK(trackRecords, paid)
  BY DEF Init, QueueOK, EntriesOK, PaidOK, NoRecord, NotQueued
<1> QED
  BY <1>2, <1>3, <1>4, <1>5 DEF IInv

\* A transfer of a natural amount to an account keeps the token's state well
\* formed and adds the amount to what was paid for the call's CID.
LEMMA TransferOK ==
    ASSUME TypeOK, NEW f \in Frame, NEW to \in Accounts, NEW amount \in Nat,
           Transfer(f, to, amount)
    PROVE  /\ balance' \in [Accounts -> Nat]
           /\ paid' = [paid EXCEPT ![f.cid] = @ + amount]
           /\ paid' \in [CIDs -> Nat]
<1>1. f.cid \in CIDs /\ balance \in [Accounts -> Nat] /\ paid \in [CIDs -> Nat]
  BY DEF TypeOK, Frame
<1>2. Self \in Accounts /\ balance[Self] - amount \in Nat
  BY <1>1, DistributorAssumption DEF Transfer
<1>3. [balance EXCEPT ![Self] = @ - amount] \in [Accounts -> Nat]
  BY <1>1, <1>2
<1>4. balance' \in [Accounts -> Nat]
  BY <1>3 DEF Transfer
<1> QED
  BY <1>1, <1>4 DEF Transfer

\* While a call is open the stack holds that call only.
LEMMA OpenCall ==
    ASSUME IInv, calls # << >>
    PROVE  /\ Head(calls) \in Frame
           /\ CallOK(Head(calls), trackRecords, paid)
           /\ Tail(calls) = << >>
           /\ locked
BY DEF IInv, TypeOK, OneCallAtATime

\* distribute and executeQueued open a call from a quiet state in which the
\* CID has no record.
LEMMA EnterInv ==
    ASSUME IInv, NEW c \in CIDs, NEW r, Accepted(r), NonReentrant,
           ~trackRecords[c].distributed, Enter(c, r),
           pending' \in [CIDs -> PendingDistribution], EntriesOK(pending'),
           QueueOK(trackRecords', pending')
    PROVE  IInv'
<1> DEFINE f == [cid |-> c, req |-> r, next |-> 1, sent |-> 0,
                 before |-> Snapshot]
<1>1. calls = << >> /\ ~locked /\ TypeOK
  BY DEF NonReentrant, IInv, OneCallAtATime
<1>2. r \in Requests /\ r.total \in Nat
  BY DistributorAssumption DEF Accepted, RequestType
<1>3. Snapshot \in Storage
  BY <1>1 DEF TypeOK, Snapshot, Storage
<1>4. f \in Frame
  BY <1>2, <1>3 DEF Frame
<1>5. calls' = <<f>>
  BY <1>1 DEF Enter
<1>6. trackRecords' \in [CIDs -> Record]
  BY <1>1, <1>2 DEF Enter, TypeOK, Record
<1>7. TypeOK'
  BY <1>1, <1>4, <1>5, <1>6 DEF Enter, TypeOK
<1>8. OneCallAtATime'
  <2>1. locked' = TRUE
    BY DEF Enter
  <2> HIDE DEF f
  <2> QED
    BY <1>5, <2>1 DEF OneCallAtATime
<1>9. CallOK(f, trackRecords', paid')
  <2>1. PaidOK(trackRecords, paid) /\ QueueOK(trackRecords, pending) /\ EntriesOK(pending)
    BY <1>1 DEF IInv
  <2>2. trackRecords'[c].distributed /\ trackRecords'[c].total = r.total
    BY <1>1 DEF Enter, TypeOK
  <2>3. paid[c] = 0
    BY <2>1 DEF PaidOK
  <2>4. \A d \in CIDs \ {c} : trackRecords'[d] = trackRecords[d] /\ paid'[d] = paid[d]
    BY <1>1 DEF Enter, TypeOK
  <2> QED
    BY <1>1, <2>1, <2>2, <2>3, <2>4 DEF CallOK, Snapshot, Enter, TypeOK
<1> HIDE DEF f
<1> QED
  BY <1>5, <1>7, <1>8, <1>9 DEF IInv

LEMMA DistributeInv ==
    ASSUME IInv, NEW c \in CIDs, NEW r \in Requests, Distribute(c, r)
    PROVE  IInv'
<1>1. Accepted(r) /\ ~trackRecords[c].distributed /\ pending' = pending
  BY DEF Distribute, MayDistribute, Accepted
<1>2. TypeOK /\ EntriesOK(pending) /\ QueueOK(trackRecords, pending)
  BY DEF IInv
<1>3. /\ trackRecords' = [trackRecords EXCEPT
            ![c] = [distributed |-> TRUE, total |-> r.total, timestamp |-> now]]
      /\ r.total <= Cap /\ r.total \in Nat /\ Cap \in Nat
  BY DistributorAssumption DEF Distribute, Enter, RequestType
<1>4. QueueOK(trackRecords', pending')
  BY <1>1, <1>2, <1>3 DEF QueueOK, TypeOK
<1> QED
  BY <1>1, <1>2, <1>4, EnterInv DEF Distribute, TypeOK

LEMMA ExecuteQueuedInv ==
    ASSUME IInv, NEW c \in CIDs, ExecuteQueued(c)
    PROVE  IInv'
<1>1. TypeOK /\ EntriesOK(pending) /\ QueueOK(trackRecords, pending)
  BY DEF IInv
<1>2. /\ Accepted(pending[c].req) /\ ~trackRecords[c].distributed
      /\ ~pending[c].cancelled /\ now >= pending[c].executeAfter
  BY <1>1 DEF ExecuteQueued, MayExecute, EntriesOK
<1>3. pending' = [pending EXCEPT ![c].executed = TRUE]
  BY DEF ExecuteQueued
<1>4. pending' \in [CIDs -> PendingDistribution]
  BY <1>1, <1>3 DEF TypeOK, PendingDistribution
<1>5. EntriesOK(pending')
  BY <1>1, <1>3 DEF TypeOK, PendingDistribution, EntriesOK
<1>6. trackRecords' = [trackRecords EXCEPT
            ![c] = [distributed |-> TRUE, total |-> pending[c].req.total,
                    timestamp |-> now]]
  BY DEF ExecuteQueued, Enter
<1>7. QueueOK(trackRecords', pending')
  BY <1>1, <1>2, <1>3, <1>6 DEF QueueOK, TypeOK, PendingDistribution
<1> QED
  BY <1>2, <1>4, <1>5, <1>7, EnterInv DEF ExecuteQueued

LEMMA QueueDistributionInv ==
    ASSUME IInv, NEW c \in CIDs, NEW r \in Requests, QueueDistribution(c, r)
    PROVE  IInv'
<1>1. TypeOK /\ EntriesOK(pending) /\ QueueOK(trackRecords, pending)
  BY DEF IInv
<1>2. Accepted(r) /\ ~trackRecords[c].distributed
  BY DEF QueueDistribution, MayDistribute, Accepted
<1>3. QueueEntry(r) \in PendingDistribution
  BY <1>1, DistributorAssumption DEF QueueEntry, PendingDistribution, TypeOK
<1>4. pending' = [pending EXCEPT ![c] = QueueEntry(r)]
  BY DEF QueueDistribution
<1>5. pending' \in [CIDs -> PendingDistribution]
  BY <1>1, <1>3, <1>4 DEF TypeOK
<1>6. EntriesOK(pending') /\ QueueOK(trackRecords, pending')
  BY <1>1, <1>2, <1>4 DEF TypeOK, EntriesOK, QueueOK, QueueEntry
<1>7. calls = << >>
  BY DEF IInv, OneCallAtATime, QueueDistribution, NonReentrant
<1> QED
  BY <1>1, <1>5, <1>6, <1>7
     DEF QueueDistribution, IInv, TypeOK, OneCallAtATime, PaidOK

LEMMA CancelQueuedInv ==
    ASSUME IInv, NEW c \in CIDs, CancelQueued(c)
    PROVE  IInv'
<1>1. TypeOK /\ EntriesOK(pending) /\ QueueOK(trackRecords, pending)
  BY DEF IInv
<1>2. ~pending[c].executed
  BY DEF CancelQueued, MayCancel
<1>3. pending' = [pending EXCEPT ![c].cancelled = TRUE]
  BY DEF CancelQueued
<1>4. pending' \in [CIDs -> PendingDistribution]
  BY <1>1, <1>3 DEF TypeOK, PendingDistribution
<1>5. EntriesOK(pending') /\ QueueOK(trackRecords, pending')
  BY <1>1, <1>2, <1>3 DEF TypeOK, PendingDistribution, EntriesOK, QueueOK
<1> QED
  BY <1>1, <1>4, <1>5 DEF CancelQueued, IInv, TypeOK, OneCallAtATime, PaidOK

LEMMA SingletonCall == ASSUME NEW g PROVE <<g>> \o << >> = <<g>>
OBVIOUS

LEMMA PayArtistInv ==
    ASSUME IInv, PayArtist
    PROVE  IInv'
<1> DEFINE f == Head(calls)
           amount == Share(f.req, f.next)
           g == [f EXCEPT !.next = @ + 1, !.sent = @ + amount]
<1>1. calls # << >>
  BY DEF PayArtist
<1>2. f \in Frame /\ CallOK(f, trackRecords, paid) /\ Tail(calls) = << >> /\ locked /\ TypeOK
  BY <1>1, OpenCall DEF IInv
<1>3. amount \in Nat /\ f.req.artists[f.next] \in Accounts
  BY <1>2, ShareIsNat DEF CallOK, PayArtist
<1>4. /\ balance' \in [Accounts -> Nat]
      /\ paid' = [paid EXCEPT ![f.cid] = @ + amount]
      /\ paid' \in [CIDs -> Nat]
  <2>1. Transfer(f, f.req.artists[f.next], amount)
    BY DEF PayArtist
  <2> HIDE DEF f, amount
  <2> QED
    BY <1>2, <1>3, <2>1, TransferOK
<1>5. calls' = <<g>>
  <2>1. calls' = <<g>> \o Tail(calls)
    BY DEF PayArtist
  <2> HIDE DEF g
  <2> QED
    BY <1>2, <2>1, SingletonCall
<1>6. g \in Frame
  <2>1. f.next + 1 \in Nat /\ f.sent + amount \in Nat
    BY <1>2, <1>3 DEF Frame
  <2> HIDE DEF f, amount
  <2> QED
    BY <1>2, <2>1 DEF Frame
<1>7. /\ g.cid = f.cid /\ g.req = f.req /\ g.before = f.before
      /\ g.sent = f.sent + amount
  BY <1>2 DEF Frame
<1>8. UNCHANGED <<trackRecords, pending, paused, locked, now>>
  BY DEF PayArtist
<1> HIDE DEF f, amount, g
<1>9. TypeOK'
  BY <1>2, <1>4, <1>5, <1>6, <1>8 DEF TypeOK
<1>10. CallOK(g, trackRecords', paid')
  <2>1. f.cid \in CIDs /\ paid \in [CIDs -> Nat]
    BY <1>2 DEF Frame, TypeOK
  <2>2. paid'[f.cid] = f.sent + amount
    BY <1>2, <1>4, <2>1 DEF CallOK
  <2>3. \A c \in CIDs \ {f.cid} : paid'[c] = paid[c]
    BY <1>4, <2>1
  <2> QED
    BY <1>2, <1>7, <1>8, <2>2, <2>3 DEF CallOK
<1>11. OneCallAtATime'
  BY <1>2, <1>5, <1>8 DEF OneCallAtATime
<1> QED
  BY <1>5, <1>8, <1>9, <1>10, <1>11 DEF IInv

LEMMA ReturnInv ==
    ASSUME IInv, PayDustAndReturn
    PROVE  IInv'
<1> DEFINE f == Head(calls)
<1>1. calls # << >>
  BY DEF PayDustAndReturn
<1>2. f \in Frame /\ CallOK(f, trackRecords, paid) /\ Tail(calls) = << >> /\ TypeOK
  BY <1>1, OpenCall DEF IInv
<1>3. f.req.total \in Nat /\ f.sent \in Nat /\ f.cid \in CIDs
  BY <1>2, DistributorAssumption DEF CallOK, Accepted, RequestType, Frame
<1>4. Dust(f) \in Nat
  BY <1>3 DEF PayDustAndReturn, Dust
<1>5. /\ balance' \in [Accounts -> Nat]
      /\ paid' = [paid EXCEPT ![f.cid] = @ + Dust(f)]
      /\ paid' \in [CIDs -> Nat]
  <2>1. Transfer(f, Admin, Dust(f))
    BY DEF PayDustAndReturn
  <2> HIDE DEF f
  <2> QED
    BY <1>2, <1>4, <2>1, TransferOK, DistributorAssumption
<1>6. /\ calls' = << >> /\ locked' = FALSE
      /\ UNCHANGED <<trackRecords, pending, paused, now>>
  BY <1>2 DEF PayDustAndReturn, Released
<1> HIDE DEF f
<1>7. TypeOK' /\ OneCallAtATime'
  <2>1. TypeOK'
    <3>1. locked' \in BOOLEAN
      BY <1>6
    <3>3. << >> \in Seq(Frame)
      OBVIOUS
    <3>2. balance' \in [Accounts -> Nat] /\ paid' \in [CIDs -> Nat]
      BY <1>5
    <3> QED
      BY <1>2, <1>6, <3>1, <3>2, <3>3 DEF TypeOK
  <2>2. OneCallAtATime'
    BY <1>6 DEF OneCallAtATime
  <2> QED
    BY <2>1, <2>2
<1>8. PaidOK(trackRecords', paid')
  <2>1. paid'[f.cid] = f.req.total
    BY <1>2, <1>3, <1>5 DEF CallOK, Dust, TypeOK
  <2>2. \A c \in CIDs \ {f.cid} : paid'[c] = f.before.paid[c]
    BY <1>2, <1>5 DEF CallOK, TypeOK
  <2> QED
    BY <1>2, <1>6, <2>1, <2>2 DEF CallOK, PaidOK
<1> QED
  BY <1>6, <1>7, <1>8 DEF IInv

LEMMA RevertInv ==
    ASSUME IInv, Revert
    PROVE  IInv'
<1> DEFINE f == Head(calls)
<1>1. calls # << >>
  BY DEF Revert
<1>2. f \in Frame /\ CallOK(f, trackRecords, paid) /\ Tail(calls) = << >> /\ TypeOK
  BY <1>1, OpenCall DEF IInv
<1>3. /\ trackRecords' = f.before.trackRecords /\ pending' = f.before.pending
      /\ locked' = f.before.locked /\ balance' = f.before.balance
      /\ paid' = f.before.paid /\ UNCHANGED <<paused, now>>
      /\ calls' = << >>
  BY <1>2 DEF Revert
<1> HIDE DEF f
<1>4. TypeOK' /\ OneCallAtATime'
  BY <1>2, <1>3 DEF TypeOK, Frame, Storage, CallOK, OneCallAtATime
<1> QED
  BY <1>2, <1>3, <1>4 DEF IInv, CallOK

\* The pauses, deposits and blocks touch none of the related state.
LEMMA SurroundingsInv ==
    ASSUME IInv, EmergencyPause \/ Unpause \/ Deposit \/ Tick
    PROVE  IInv'
<1>1. /\ calls = << >> /\ TypeOK
      /\ UNCHANGED <<trackRecords, pending, locked, calls, paid>>
  BY DEF EmergencyPause, Unpause, Deposit, Tick, IInv
<1>2. TypeOK'
  <2>1. CASE EmergencyPause \/ Unpause
    BY <1>1, <2>1 DEF EmergencyPause, Unpause, TypeOK
  <2>2. CASE Deposit
    BY <1>1, <2>2, DistributorAssumption DEF Deposit, TypeOK
  <2>3. CASE Tick
    BY <1>1, <2>3 DEF Tick, TypeOK
  <2> QED
    BY <2>1, <2>2, <2>3
<1> QED
  BY <1>1, <1>2 DEF IInv, OneCallAtATime, QueueOK, EntriesOK, PaidOK

LEMMA NextInv == IInv /\ [Next]_vars => IInv'
<1> SUFFICES ASSUME IInv, [Next]_vars PROVE IInv'
  OBVIOUS
<1>1. CASE CallStep
  BY <1>1, PayArtistInv, ReturnInv, RevertInv DEF CallStep
<1>2. CASE \E c \in CIDs, r \in Requests : Distribute(c, r) \/ QueueDistribution(c, r)
  BY <1>2, DistributeInv, QueueDistributionInv
<1>3. CASE \E c \in CIDs : ExecuteQueued(c) \/ CancelQueued(c)
  BY <1>3, ExecuteQueuedInv, CancelQueuedInv
<1>4. CASE EmergencyPause \/ Unpause \/ Deposit \/ Tick
  BY <1>4, SurroundingsInv
<1>5. CASE UNCHANGED vars
  BY <1>5 DEF vars, IInv, TypeOK, OneCallAtATime, QueueOK, EntriesOK, PaidOK,
              CallOK
<1> QED
  BY <1>1, <1>2, <1>3, <1>4, <1>5 DEF Next

LEMMA Inductive == Spec => []IInv
<1>1. Init /\ [][Next]_vars => []IInv
  BY InitInv, NextInv, PTL
<1> QED
  BY <1>1, PTL DEF Spec

-----------------------------------------------------------------------------
\* The contract's state stays well formed: balances and totals never go
\* negative, every call on the stack is one of a submitted request.
THEOREM TypeCorrect == Spec => []TypeOK
<1>1. IInv => TypeOK
  BY DEF IInv
<1> QED
  BY <1>1, Inductive, PTL

\* The reentrancy guard: one call at a time, for the lock is held exactly
\* while a call is open.
THEOREM GuardIsExclusive == Spec => []OneCallAtATime
<1>1. IInv => OneCallAtATime
  BY DEF IInv
<1> QED
  BY <1>1, Inductive, PTL

\* Every CID is paid exactly its recorded total, once, or nothing: whatever
\* calls, queueings, cancellations, reverts and pauses came before.
THEOREM PaidExactlyOnce == Spec => []PaidMatchesRecord
<1>1. IInv => PaidMatchesRecord
  BY DEF IInv, PaidMatchesRecord, PaidOK
<1> QED
  BY <1>1, Inductive, PTL

\* No amount above the cap is paid but by an executed queue entry whose
\* timelock had passed.
THEOREM LargePaymentsWait == Spec => []LargePaymentsWereQueued
<1>1. IInv => LargePaymentsWereQueued
  BY DEF IInv, LargePaymentsWereQueued, QueueOK
<1> QED
  BY <1>1, Inductive, PTL

\* While the contract is paused and no call is open, no step pays, records or
\* opens a call, and a queue entry can only be cancelled.
THEOREM PauseStopsPayments == Spec => PauseHaltsDistributions
<1> DEFINE Halted == paused /\ calls = << >> =>
                        /\ UNCHANGED <<trackRecords, paid, calls>>
                        /\ \A c \in CIDs : pending'[c] # pending[c] =>
                             pending'[c] = [pending[c] EXCEPT !.cancelled = TRUE]
<1>1. TypeOK /\ [Next]_vars => [Halted]_vars
  <2> SUFFICES ASSUME TypeOK, Next, paused, calls = << >>
               PROVE  /\ UNCHANGED <<trackRecords, paid, calls>>
                      /\ \A c \in CIDs : pending'[c] # pending[c] =>
                           pending'[c] = [pending[c] EXCEPT !.cancelled = TRUE]
    OBVIOUS
  <2>1. ~CallStep
    BY DEF CallStep, PayArtist, PayDustAndReturn, Revert
  <2>2. ASSUME NEW c \in CIDs, NEW r \in Requests
        PROVE  ~(Distribute(c, r) \/ QueueDistribution(c, r))
    BY DEF Distribute, QueueDistribution, ExecuteQueued, NotPaused
  <2>3. CASE \E c \in CIDs : CancelQueued(c)
    BY <2>3 DEF CancelQueued, TypeOK
  <2>4. CASE EmergencyPause \/ Unpause \/ Deposit \/ Tick
    BY <2>4 DEF EmergencyPause, Unpause, Deposit, Tick
  <2>5. ASSUME NEW c \in CIDs
        PROVE  ~ExecuteQueued(c)
    BY DEF ExecuteQueued, NotPaused
  <2> QED
    BY <2>1, <2>2, <2>3, <2>4, <2>5 DEF Next
<1> QED
  BY <1>1, TypeCorrect, PTL DEF Spec, PauseHaltsDistributions

-----------------------------------------------------------------------------
(* RoyaltyDistributor implements Settlement *)

\* What the abstract state is made of, as Abstract's substitution has it.
SettledIn(tr, pd) == [c \in CIDs |-> IF tr[c].distributed THEN pd[c] ELSE 0]

NoticeOf(p) == IF p.executeAfter = 0 \/ p.executed \/ p.cancelled
               THEN Unnoticed
               ELSE [amount |-> p.req.total, since |-> p.executeAfter - Delay]

NoticesIn(q) == [c \in CIDs |-> NoticeOf(q[c])]

Settled == SettledIn(Committed.trackRecords, Committed.paid)
Noticed == NoticesIn(Committed.pending)

\* Why the call f was let in: its amount is small, or its entry was in force
\* and due, and is the only one the call has changed.
Grounds(f, q) ==
    LET p == f.before.pending[f.cid]
    IN  \/ f.req.total <= Cap /\ q = f.before.pending
        \/ /\ p.executeAfter > 0 /\ ~p.executed /\ ~p.cancelled
           /\ now >= p.executeAfter
           /\ f.req = p.req
           /\ q = [f.before.pending EXCEPT ![f.cid].executed = TRUE]

GroundedCalls == calls # << >> => Grounds(Head(calls), pending)

RInv == IInv /\ GroundedCalls

-----------------------------------------------------------------------------
(* The invariant *)

LEMMA SingleCall == ASSUME IInv, calls # << >> PROVE Len(calls) = 1
<1>1. calls \in Seq(Frame) /\ Len(calls) <= 1
  BY DEF IInv, TypeOK, OneCallAtATime
<1>2. Len(calls) \in Nat /\ Len(calls) # 0
  BY <1>1, EmptySeq
<1>3. \A n \in Nat : n # 0 /\ n <= 1 => n = 1
  OBVIOUS
<1> QED
  BY <1>1, <1>2, <1>3

LEMMA EnteredCall ==
    ASSUME IInv, NEW c \in CIDs, NEW r, NonReentrant, Enter(c, r)
    PROVE  /\ calls = << >>
           /\ calls' # << >>
           /\ Head(calls') = [cid |-> c, req |-> r, next |-> 1, sent |-> 0,
                              before |-> Snapshot]
           /\ Len(calls') = 1
<1>1. calls = << >>
  BY DEF IInv, OneCallAtATime, NonReentrant
<1>2. calls' = <<[cid |-> c, req |-> r, next |-> 1, sent |-> 0,
                  before |-> Snapshot]>>
  BY <1>1, SingletonCall DEF Enter
<1> QED
  BY <1>1, <1>2

LEMMA PaidCall ==
    ASSUME IInv, PayArtist
    PROVE  /\ calls # << >> /\ calls' # << >>
           /\ Len(calls) = 1 /\ Len(calls') = 1
           /\ Head(calls').before = Head(calls).before
           /\ Head(calls').cid = Head(calls).cid
           /\ Head(calls').req = Head(calls).req
<1> DEFINE f == Head(calls)
           g == [f EXCEPT !.next = @ + 1, !.sent = @ + Share(f.req, f.next)]
<1>1. calls # << >>
  BY DEF PayArtist
<1>2. f \in Frame /\ Tail(calls) = << >> /\ calls \in Seq(Frame)
  BY <1>1, OpenCall DEF IInv, TypeOK
<1>3. calls' = <<g>>
  BY <1>2, SingletonCall DEF PayArtist
<1>4. g.before = f.before /\ g.cid = f.cid /\ g.req = f.req
  BY <1>2 DEF Frame
<1>5. Len(calls) = 1
  BY <1>1, SingleCall
<1> HIDE DEF g
<1> QED
  BY <1>1, <1>3, <1>4, <1>5

LEMMA GroundsHold == ASSUME RInv, [Next]_vars PROVE GroundedCalls'
<1>1. IInv /\ TypeOK /\ GroundedCalls
  BY DEF RInv, IInv
<1>2. CASE PayArtist
  <2>1. /\ Head(calls').before = Head(calls).before
        /\ Head(calls').cid = Head(calls).cid
        /\ Head(calls').req = Head(calls).req
        /\ calls # << >>
    BY <1>1, <1>2, PaidCall
  <2>2. pending' = pending /\ now' = now
    BY <1>2 DEF PayArtist
  <2> QED
    BY <1>1, <2>1, <2>2 DEF GroundedCalls, Grounds
<1>3. CASE PayDustAndReturn \/ Revert
  <2>1. calls' = << >>
    BY <1>1, <1>3, OpenCall DEF PayDustAndReturn, Revert
  <2> QED
    BY <2>1 DEF GroundedCalls
<1>4. ASSUME NEW c \in CIDs, NEW r \in Requests, Distribute(c, r)
      PROVE  GroundedCalls'
  <2>1. Head(calls') = [cid |-> c, req |-> r, next |-> 1, sent |-> 0,
                        before |-> Snapshot]
    BY <1>1, <1>4, EnteredCall DEF Distribute
  <2>2. r.total <= Cap /\ pending' = pending
    BY <1>4 DEF Distribute
  <2> QED
    BY <2>1, <2>2 DEF GroundedCalls, Grounds, Snapshot
<1>5. ASSUME NEW c \in CIDs, ExecuteQueued(c)
      PROVE  GroundedCalls'
  <2>1. Head(calls') = [cid |-> c, req |-> pending[c].req, next |-> 1,
                        sent |-> 0, before |-> Snapshot]
    BY <1>1, <1>5, EnteredCall DEF ExecuteQueued
  <2>2. /\ pending[c].executeAfter > 0 /\ now >= pending[c].executeAfter
        /\ ~pending[c].executed /\ ~pending[c].cancelled
        /\ pending' = [pending EXCEPT ![c].executed = TRUE]
        /\ now' = now
    BY <1>5 DEF ExecuteQueued, MayExecute, Enter
  <2>3. /\ Head(calls').cid = c /\ Head(calls').req = pending[c].req
        /\ Head(calls').before.pending = pending
    BY <2>1 DEF Snapshot
  <2>4. Grounds(Head(calls), pending)'
    BY <2>2, <2>3 DEF Grounds
  <2> QED
    BY <2>4 DEF GroundedCalls
<1>6. ASSUME NEW c \in CIDs, NEW r \in Requests, QueueDistribution(c, r)
      PROVE  GroundedCalls'
  BY <1>1, <1>6 DEF QueueDistribution, NonReentrant, IInv, OneCallAtATime,
                    GroundedCalls
<1>7. CASE EmergencyPause \/ Unpause \/ Deposit \/ Tick
  BY <1>7 DEF EmergencyPause, Unpause, Deposit, Tick, GroundedCalls
<1>8. CASE UNCHANGED vars
  BY <1>1, <1>8 DEF vars, GroundedCalls, Grounds
<1>9. ASSUME NEW c \in CIDs, CancelQueued(c) PROVE GroundedCalls'
  BY <1>9 DEF CancelQueued, GroundedCalls
<1> QED
  BY <1>2, <1>3, <1>4, <1>5, <1>6, <1>7, <1>8, <1>9 DEF Next, CallStep

LEMMA RInductive == Spec => []RInv
<1>1. Init => RInv
  BY InitInv DEF Init, RInv, GroundedCalls
<1>2. RInv /\ [Next]_vars => RInv'
  BY NextInv, GroundsHold DEF RInv
<1> QED
  BY <1>1, <1>2, PTL DEF Spec

-----------------------------------------------------------------------------
(* Steps *)

\* Between calls the outside sees the contract's own state.
LEMMA QuietView ==
    ASSUME calls = << >>
    PROVE  Settled = SettledIn(trackRecords, paid) /\ Noticed = NoticesIn(pending)
BY DEF Settled, Noticed, Committed, Snapshot

LEMMA QuietViewNext ==
    ASSUME calls' = << >>
    PROVE  /\ Settled' = SettledIn(trackRecords', paid')
           /\ Noticed' = NoticesIn(pending')
BY DEF Settled, Noticed, Committed, Snapshot, SettledIn, NoticesIn, NoticeOf

\* Inside a call it sees the state the call started from.
LEMMA OpenView ==
    ASSUME IInv, calls # << >>
    PROVE  Committed = Head(calls).before
<1>1. Len(calls) = 1 /\ Head(calls) = calls[1]
  BY SingleCall
<1> QED
  BY <1>1 DEF Committed

LEMMA Stutters ==
    ASSUME Settled' = Settled, Noticed' = Noticed, now' = now
    PROVE  UNCHANGED Abstract!vars
BY DEF Abstract!vars, Settled, Noticed, SettledIn, NoticesIn, NoticeOf

LEMMA EntryStutters ==
    ASSUME IInv, NEW c \in CIDs, NEW r, NonReentrant, Enter(c, r)
    PROVE  UNCHANGED Abstract!vars
<1>1. calls = << >> /\ calls' # << >> /\ Len(calls') = 1
  BY EnteredCall
<1>2. Head(calls').before = Snapshot
  BY EnteredCall
<1>3. Committed = Snapshot /\ Committed' = Head(calls').before
  BY <1>1 DEF Committed
<1>4. Settled' = Settled /\ Noticed' = Noticed
  BY <1>2, <1>3 DEF Settled, Noticed, SettledIn, NoticesIn, NoticeOf
<1> QED
  BY <1>4, Stutters DEF Enter

LEMMA PaymentStutters ==
    ASSUME IInv, PayArtist
    PROVE  UNCHANGED Abstract!vars
<1>1. /\ calls # << >> /\ calls' # << >>
      /\ Len(calls) = 1 /\ Len(calls') = 1
      /\ Head(calls').before = Head(calls).before
  BY PaidCall
<1>2. Committed' = Committed
  BY <1>1 DEF Committed
<1>3. Settled' = Settled /\ Noticed' = Noticed
  BY <1>2 DEF Settled, Noticed, SettledIn, NoticesIn, NoticeOf
<1> QED
  BY <1>3, Stutters DEF PayArtist

LEMMA ReversalStutters ==
    ASSUME IInv, Revert
    PROVE  UNCHANGED Abstract!vars
<1> DEFINE s == Head(calls).before
<1>1. calls # << >> /\ calls' = << >>
  BY OpenCall DEF Revert
<1>2. trackRecords' = s.trackRecords /\ pending' = s.pending /\ paid' = s.paid
  BY DEF Revert
<1>3. Settled' = SettledIn(s.trackRecords, s.paid) /\ Noticed' = NoticesIn(s.pending)
  BY <1>1, <1>2, QuietViewNext
<1>4. Settled' = Settled /\ Noticed' = Noticed
  BY <1>1, <1>3, OpenView DEF Settled, Noticed
<1> QED
  BY <1>4, Stutters DEF Revert

LEMMA QueueingGivesNotice ==
    ASSUME IInv, NEW c \in CIDs, NEW r \in Requests, QueueDistribution(c, r)
    PROVE  Abstract!GiveNotice(c)
<1>1. calls = << >> /\ calls' = << >>
  BY DEF QueueDistribution, NonReentrant, IInv, OneCallAtATime
<1>2. /\ pending' = [pending EXCEPT ![c] = QueueEntry(r)]
      /\ UNCHANGED <<trackRecords, paid, now>>
      /\ ~trackRecords[c].distributed
      /\ r.total > Cap
  BY DEF QueueDistribution, MayDistribute
<1>3. /\ now \in Nat /\ Delay \in Nat \ {0} /\ Cap \in Nat /\ r.total \in Nat
      /\ pending \in [CIDs -> PendingDistribution]
  BY DistributorAssumption DEF IInv, TypeOK, RequestType
<1>4. NoticeOf(QueueEntry(r)) = [amount |-> r.total, since |-> now]
  BY <1>3 DEF NoticeOf, QueueEntry
<1>5. NoticesIn(pending') = [NoticesIn(pending) EXCEPT ![c] = NoticeOf(QueueEntry(r))]
  BY <1>2, <1>3 DEF NoticesIn
<1>6. /\ Settled[c] = 0
      /\ Settled' = Settled
      /\ Noticed' = [Noticed EXCEPT ![c] = [amount |-> r.total, since |-> now]]
      /\ Noticed'[c] = [amount |-> r.total, since |-> now]
  BY <1>1, <1>2, <1>4, <1>5, QuietView, QuietViewNext DEF SettledIn, NoticesIn
<1>7. /\ Noticed'[c] \in [amount : Nat, since : {now}]
      /\ Noticed'[c].amount > Cap
      /\ Noticed' = [Noticed EXCEPT ![c] = Noticed'[c]]
  <2> DEFINE n == [amount |-> r.total, since |-> now]
  <2>1. n \in [amount : Nat, since : {now}] /\ n.amount > Cap
    BY <1>2, <1>3
  <2>2. Noticed'[c] = n /\ Noticed' = [Noticed EXCEPT ![c] = n]
    BY <1>6
  <2> HIDE DEF n
  <2> QED
    BY <2>1, <2>2
<1> QED
  BY <1>2, <1>6, <1>7
     DEF Abstract!GiveNotice, Settled, Noticed, SettledIn, NoticesIn, NoticeOf

LEMMA CancelingWithdrawsNotice ==
    ASSUME IInv, NEW c \in CIDs, CancelQueued(c)
    PROVE  Abstract!WithdrawNotice(c)
<1>1. calls = << >> /\ calls' = << >>
  BY DEF CancelQueued
<1>2. /\ pending' = [pending EXCEPT ![c].cancelled = TRUE]
      /\ UNCHANGED <<trackRecords, paid, now>>
      /\ pending[c].executeAfter > 0
      /\ ~pending[c].executed /\ ~pending[c].cancelled
  BY DEF CancelQueued, MayCancel
<1>3. /\ pending \in [CIDs -> PendingDistribution]
      /\ Accepted(pending[c].req)
  BY <1>2 DEF IInv, TypeOK, EntriesOK
<1>4. pending[c].req.total > 0
  BY <1>3 DEF Accepted, ValidRequest
<1>5. NoticeOf(pending[c]) # Unnoticed
  BY <1>2, <1>3, <1>4 DEF NoticeOf, Unnoticed, PendingDistribution
<1>6. NoticesIn(pending') = [NoticesIn(pending) EXCEPT ![c] = Unnoticed]
  BY <1>2, <1>3 DEF NoticesIn, NoticeOf, PendingDistribution
<1>7. /\ Noticed[c] # Unnoticed
      /\ Noticed' = [Noticed EXCEPT ![c] = Unnoticed]
      /\ Settled' = Settled
  BY <1>1, <1>2, <1>5, <1>6, QuietView, QuietViewNext DEF SettledIn, NoticesIn
<1> QED
  BY <1>2, <1>7
     DEF Abstract!WithdrawNotice, Settled, Noticed, SettledIn, NoticesIn, NoticeOf

\* The return of a call pays for its CID what the record says, which was
\* nothing before.
LEMMA ReturnPays ==
    ASSUME IInv, PayDustAndReturn
    PROVE  LET f == Head(calls)
           IN  /\ f.cid \in CIDs
               /\ Settled[f.cid] = 0
               /\ Settled' = [Settled EXCEPT ![f.cid] = f.req.total]
               /\ f.req.total \in Nat /\ f.req.total > 0
               /\ f.before.pending \in [CIDs -> PendingDistribution]
<1> DEFINE f == Head(calls)
<1>1. calls # << >>
  BY DEF PayDustAndReturn
<1>2. f \in Frame /\ CallOK(f, trackRecords, paid) /\ Tail(calls) = << >> /\ TypeOK
  BY <1>1, OpenCall DEF IInv
<1>3. calls' = << >> /\ UNCHANGED <<trackRecords, pending, now>>
  BY <1>2 DEF PayDustAndReturn
<1>4. Committed = f.before
  BY <1>1, OpenView
<1>5. f.cid \in CIDs /\ f.before.pending \in [CIDs -> PendingDistribution]
  BY <1>2 DEF Frame, Storage
<1>6. f.req.total \in Nat /\ f.req.total > 0
  BY <1>2, DistributorAssumption DEF CallOK, Accepted, ValidRequest, RequestType
<1>7. Settled = SettledIn(f.before.trackRecords, f.before.paid)
  BY <1>4 DEF Settled
<1>8. Settled' = SettledIn(trackRecords, paid')
  BY <1>3, QuietViewNext
<1>9. PaidOK(trackRecords, paid') /\ PaidOK(f.before.trackRecords, f.before.paid)
  <2>1. IInv'
    BY ReturnInv
  <2> HIDE DEF f
  <2> QED
    BY <1>2, <1>3, <2>1 DEF IInv, CallOK, PaidOK
<1> HIDE DEF f
<1>10. \A d \in CIDs : SettledIn(trackRecords, paid')[d] =
          IF d = f.cid THEN f.req.total
          ELSE SettledIn(f.before.trackRecords, f.before.paid)[d]
  BY <1>2, <1>9 DEF CallOK, PaidOK, SettledIn
<1>11. SettledIn(f.before.trackRecords, f.before.paid)[f.cid] = 0
  BY <1>2, <1>5 DEF CallOK, SettledIn
<1>12. Settled' = [Settled EXCEPT ![f.cid] = f.req.total]
  BY <1>7, <1>8, <1>10 DEF SettledIn
<1> QED
  BY <1>5, <1>6, <1>7, <1>11, <1>12 DEF f

LEMMA ReturnSettles ==
    ASSUME RInv, PayDustAndReturn
    PROVE  \E c \in CIDs : Abstract!SettleSmall(c) \/ Abstract!SettleNoticed(c)
<1> DEFINE f == Head(calls)
           c == f.cid
           q == f.before.pending
<1>1. IInv /\ calls # << >> /\ Grounds(f, pending)
  BY DEF RInv, GroundedCalls, PayDustAndReturn
<1>2. /\ c \in CIDs
      /\ Settled[c] = 0
      /\ Settled' = [Settled EXCEPT ![c] = f.req.total]
      /\ f.req.total \in Nat /\ f.req.total > 0
      /\ q \in [CIDs -> PendingDistribution]
  BY <1>1, ReturnPays
<1>3. calls' = << >> /\ UNCHANGED <<pending, now>>
  BY <1>1, OpenCall DEF PayDustAndReturn
<1>4. Noticed = NoticesIn(q) /\ Noticed' = NoticesIn(pending)
  BY <1>1, <1>3, OpenView, QuietViewNext DEF Noticed
<1>5. Settled'[c] = f.req.total
  BY <1>2 DEF Settled, SettledIn
<1> HIDE DEF f, c, q
<1>6. CASE f.req.total <= Cap /\ pending = q
  <2>1. Noticed' = Noticed
    BY <1>4, <1>6
  <2>2. Settled'[c] \in 1..Cap
    BY <1>2, <1>5, <1>6, DistributorAssumption
  <2>3. Settled' = [Settled EXCEPT ![c] = Settled'[c]]
    BY <1>2, <1>5
  <2> QED
    BY <1>2, <1>3, <2>1, <2>2, <2>3
       DEF Abstract!SettleSmall, Settled, Noticed, SettledIn, NoticesIn, NoticeOf
<1>7. CASE /\ q[c].executeAfter > 0 /\ ~q[c].executed /\ ~q[c].cancelled
           /\ now >= q[c].executeAfter
           /\ f.req = q[c].req
           /\ pending = [q EXCEPT ![c].executed = TRUE]
  <2>1. Noticed[c] = [amount |-> f.req.total, since |-> q[c].executeAfter - Delay]
    BY <1>2, <1>4, <1>7 DEF NoticesIn, NoticeOf, PendingDistribution
  <2>2. Noticed[c] # Unnoticed
    BY <1>2, <2>1 DEF Unnoticed
  <2>3. now >= Noticed[c].since + Delay
    BY <1>2, <1>7, <2>1, DistributorAssumption DEF PendingDistribution
  <2>4. Noticed' = [Noticed EXCEPT ![c] = Unnoticed]
    BY <1>2, <1>4, <1>7 DEF NoticesIn, NoticeOf, PendingDistribution
  <2>5. Settled' = [Settled EXCEPT ![c] = Noticed[c].amount]
    BY <1>2, <2>1
  <2> QED
    BY <1>2, <1>3, <2>2, <2>3, <2>4, <2>5
       DEF Abstract!SettleNoticed, Settled, Noticed, SettledIn, NoticesIn, NoticeOf
<1> QED
  BY <1>1, <1>6, <1>7 DEF Grounds, f, c, q

LEMMA SurroundingSteps ==
    ASSUME IInv, EmergencyPause \/ Unpause \/ Deposit \/ Tick
    PROVE  [Abstract!Next]_(Abstract!vars)
<1>1. /\ calls = << >> /\ calls' = << >>
      /\ UNCHANGED <<trackRecords, pending, paid>>
  BY DEF EmergencyPause, Unpause, Deposit, Tick
<1>2. Settled' = Settled /\ Noticed' = Noticed
  BY <1>1, QuietView, QuietViewNext
<1>3. CASE Tick
  <2>1. now' \in Nat /\ now' > now
    BY <1>3 DEF IInv, TypeOK, Tick
  <2>2. Abstract!Tick
    BY <1>2, <2>1
       DEF Abstract!Tick, Settled, Noticed, SettledIn, NoticesIn, NoticeOf
  <2> QED
    BY <2>2 DEF Abstract!Next
<1>4. CASE EmergencyPause \/ Unpause \/ Deposit
  BY <1>2, <1>4, Stutters DEF EmergencyPause, Unpause, Deposit
<1> QED
  BY <1>3, <1>4

LEMMA InitSettles == ASSUME Init PROVE Abstract!Init
<1>1. calls = << >> /\ now = 1
  BY DEF Init
<1>2. Settled = [c \in CIDs |-> 0] /\ Noticed = [c \in CIDs |-> Unnoticed]
  BY <1>1, QuietView
     DEF Init, SettledIn, NoticesIn, NoticeOf, NoRecord, NotQueued
<1> QED
  BY <1>1, <1>2 DEF Abstract!Init, Settled, Noticed, SettledIn, NoticesIn, NoticeOf

LEMMA StepSettles ==
    ASSUME RInv, [Next]_vars
    PROVE  [Abstract!Next]_(Abstract!vars)
<1>1. IInv
  BY DEF RInv
<1>2. CASE PayArtist
  BY <1>1, <1>2, PaymentStutters
<1>3. CASE Revert
  BY <1>1, <1>3, ReversalStutters
<1>4. CASE PayDustAndReturn
  BY <1>4, ReturnSettles DEF Abstract!Next
<1>5. ASSUME NEW c \in CIDs, NEW r \in Requests, Distribute(c, r)
      PROVE  UNCHANGED Abstract!vars
  BY <1>1, <1>5, EntryStutters DEF Distribute
<1>6. ASSUME NEW c \in CIDs, ExecuteQueued(c)
      PROVE  UNCHANGED Abstract!vars
  BY <1>1, <1>6, EntryStutters DEF ExecuteQueued
<1>7. ASSUME NEW c \in CIDs, NEW r \in Requests, QueueDistribution(c, r)
      PROVE  Abstract!Next
  BY <1>1, <1>7, QueueingGivesNotice DEF Abstract!Next
<1>8. ASSUME NEW c \in CIDs, CancelQueued(c)
      PROVE  Abstract!Next
  BY <1>1, <1>8, CancelingWithdrawsNotice DEF Abstract!Next
<1>9. CASE EmergencyPause \/ Unpause \/ Deposit \/ Tick
  BY <1>1, <1>9, SurroundingSteps
<1>10. CASE UNCHANGED vars
  <2>1. Committed' = Committed
    BY <1>10 DEF vars, Committed, Snapshot
  <2>2. Settled' = Settled /\ Noticed' = Noticed
    BY <2>1 DEF Settled, Noticed, SettledIn, NoticesIn, NoticeOf
  <2> QED
    BY <1>10, <2>2, Stutters DEF vars
<1> QED
  BY <1>2, <1>3, <1>4, <1>5, <1>6, <1>7, <1>8, <1>9, <1>10 DEF Next, CallStep

-----------------------------------------------------------------------------
\* The contract implements Settlement: a CID is settled at most once, an
\* amount above the cap only after its notice has stood unchanged for the whole
\* delay; whatever is queued anew, cancelled, reverted or called back meanwhile.
THEOREM ImplementsSettlement == Spec => SettlesAsPromised
<1>1. Init => Abstract!Init
  BY InitSettles
<1>2. RInv /\ [Next]_vars => [Abstract!Next]_(Abstract!vars)
  BY StepSettles
<1> QED
  BY <1>1, <1>2, RInductive, PTL DEF Spec, SettlesAsPromised, Abstract!Spec

-----------------------------------------------------------------------------
(* What accounts hold *)

DoneIn(tr) == {c \in CIDs : tr[c].distributed}

\* The requests req account for the balances bal.
Backs(req, tr, bal) ==
    /\ req \in [DoneIn(tr) -> {r \in Requests : ValidRequest(r)}]
    /\ \A c \in DoneIn(tr) : req[c].total = tr[c].total
    /\ \A a \in Accounts \ {Self} :
         bal[a] = SumOver([c \in DoneIn(tr) |-> Due(req[c], a)], DoneIn(tr))

\* What the entries of a request's list are paid.
Shares(r) == [i \in DOMAIN r.artists |-> Share(r, i)]

\* The transfers that call f has behind it.
MadeTo(f, a) == {i \in 1..(f.next - 1) : f.req.artists[i] = a}

\* Of call f's request, the entries before f.next are paid and no others.
PartlyPaid(f, bal) ==
    /\ f.next \in 1..(Len(f.req.artists) + 1)
    /\ f.sent = SumOver(Shares(f.req), 1..(f.next - 1))
    /\ \A a \in Accounts \ {Self} :
         bal[a] = f.before.balance[a] + SumOver(Shares(f.req), MadeTo(f, a))

\* Quiet states are backed by requests, and a call by those from before it and
\* by the transfers it has made.
LedgerInv ==
    /\ calls = << >> =>
          /\ IsFiniteSet(DoneIn(trackRecords))
          /\ \E req : Backs(req, trackRecords, balance)
    /\ calls # << >> =>
          LET f == Head(calls)
          IN  /\ IsFiniteSet(DoneIn(f.before.trackRecords))
              /\ \E req : Backs(req, f.before.trackRecords, f.before.balance)
              /\ PartlyPaid(f, balance)

\* The model's folds are sums.
LEMMA SumsAgree ==
    ASSUME NEW f
    PROVE  F!FoldFunction(+, 0, f) = SumOver(f, DOMAIN f)
BY DEF F!FoldFunction, F!FoldFunctionOnSet, F!MapThenFoldSet,
       SumOver, Fn!SumFunctionOnSet, Fn!FoldFunctionOnSet, Fn!MapThenFoldSet

LEMMA DueIsSums ==
    ASSUME NEW r, NEW a
    PROVE  Due(r, a) =
             SumOver(Shares(r), {i \in DOMAIN r.artists : r.artists[i] = a})
             + (IF a = Admin THEN r.total - SumOver(Shares(r), DOMAIN r.artists) ELSE 0)
BY DEF Due, Shares, F!FoldFunctionOnSet, F!MapThenFoldSet,
       SumOver, Fn!SumFunctionOnSet, Fn!FoldFunctionOnSet, Fn!MapThenFoldSet

\* A valid request's artists are finitely many, and the sums are integers.
LEMMA SharesAreInts ==
    ASSUME NEW r, Accepted(r)
    PROVE  /\ Len(r.artists) \in Nat
           /\ DOMAIN r.artists = 1..Len(r.artists)
           /\ IsFiniteSet(DOMAIN r.artists)
           /\ \A i \in DOMAIN r.artists : Shares(r)[i] \in Nat
           /\ \A S \in SUBSET DOMAIN r.artists :
                IsFiniteSet(S) /\ SumOver(Shares(r), S) \in Int
           /\ \A a : Due(r, a) \in Int
<1>1. r \in RequestType
  BY DistributorAssumption DEF Accepted
<1>2. r.artists \in Seq(Accounts \cup {ZeroAddress}) /\ r.total \in Nat
  BY <1>1 DEF RequestType
<1>3. Len(r.artists) \in Nat /\ DOMAIN r.artists = 1..Len(r.artists)
  BY <1>2
<1>4. IsFiniteSet(DOMAIN r.artists)
  BY <1>3, FS_Interval
<1>5. \A i \in DOMAIN r.artists : Shares(r)[i] \in Nat
  BY ShareIsNat DEF Shares
<1>6. ASSUME NEW S \in SUBSET DOMAIN r.artists
      PROVE  IsFiniteSet(S) /\ SumOver(Shares(r), S) \in Int
  <2> DEFINE shares == Shares(r)
  <2>1. IsFiniteSet(S)
    BY <1>4, FS_Subset
  <2>2. \A i \in S : shares[i] \in Int
    BY <1>5
  <2> HIDE DEF shares
  <2>3. SumOver(shares, S) \in Int
    BY <2>1, <2>2, SumIsInt
  <2> QED BY <2>1, <2>3 DEF shares
<1>7. ASSUME NEW a PROVE Due(r, a) \in Int
  <2> DEFINE mine == {i \in DOMAIN r.artists : r.artists[i] = a}
  <2>1. mine \in SUBSET DOMAIN r.artists /\ DOMAIN r.artists \in SUBSET DOMAIN r.artists
    OBVIOUS
  <2>2. SumOver(Shares(r), mine) \in Int /\ SumOver(Shares(r), DOMAIN r.artists) \in Int
    BY <1>6, <2>1
  <2>3. Due(r, a) = SumOver(Shares(r), mine)
             + (IF a = Admin THEN r.total - SumOver(Shares(r), DOMAIN r.artists) ELSE 0)
    BY DueIsSums
  <2> HIDE DEF mine
  <2> QED BY <1>2, <2>2, <2>3
<1> QED BY <1>3, <1>4, <1>5, <1>6, <1>7

\* Opening a call moves nothing yet.
LEMMA EnterLedger ==
    ASSUME IInv, LedgerInv, NEW c \in CIDs, NEW r, Accepted(r), NonReentrant, Enter(c, r)
    PROVE  LedgerInv'
<1>1. /\ calls = << >> /\ calls' # << >>
      /\ Head(calls') = [cid |-> c, req |-> r, next |-> 1, sent |-> 0,
                         before |-> Snapshot]
  BY EnteredCall
<1> DEFINE f == Head(calls')
<1>2. /\ f.before.trackRecords = trackRecords /\ f.before.balance = balance
      /\ f.req = r /\ f.next = 1 /\ f.sent = 0 /\ balance' = balance
  BY <1>1 DEF Snapshot, Enter
<1>3. /\ IsFiniteSet(DoneIn(trackRecords))
      /\ \E req : Backs(req, trackRecords, balance)
  BY <1>1 DEF LedgerInv
<1>4. Len(r.artists) \in Nat
  BY SharesAreInts
<1> HIDE DEF f
<1>5. PartlyPaid(f, balance')
  <2>1. 1..(f.next - 1) = {}
    BY <1>2
  <2>2. \A a : MadeTo(f, a) = {}
    BY <2>1 DEF MadeTo
  <2>3. \A a \in Accounts : balance[a] \in Nat
    BY DEF IInv, TypeOK
  <2>4. f.next \in 1..(Len(f.req.artists) + 1)
    BY <1>2, <1>4
  <2>5. f.sent = SumOver(Shares(f.req), 1..(f.next - 1))
    BY <1>2, <2>1, SumEmpty
  <2>6. ASSUME NEW a \in Accounts
        PROVE  balance'[a] = f.before.balance[a] + SumOver(Shares(f.req), MadeTo(f, a))
    <3>1. SumOver(Shares(f.req), MadeTo(f, a)) = 0
      BY <2>2, SumEmpty
    <3> QED BY <1>2, <2>3, <3>1
  <2> QED BY <2>4, <2>5, <2>6 DEF PartlyPaid
<1> QED BY <1>1, <1>2, <1>3, <1>5 DEF LedgerInv, f

\* A transfer adds the share of one more entry of the list.
LEMMA PayArtistLedger ==
    ASSUME IInv, LedgerInv, PayArtist
    PROVE  LedgerInv'
<1> DEFINE f == Head(calls)
           amount == Share(f.req, f.next)
           g == Head(calls')
           to == f.req.artists[f.next]
<1>1. calls # << >> /\ f.next \in DOMAIN f.req.artists
  BY DEF PayArtist
<1>2. f \in Frame /\ CallOK(f, trackRecords, paid) /\ Tail(calls) = << >> /\ TypeOK
  BY <1>1, OpenCall DEF IInv
<1>3. amount \in Nat /\ to \in Accounts /\ Accepted(f.req)
  BY <1>1, <1>2, ShareIsNat DEF CallOK
<1>4. calls' = <<[f EXCEPT !.next = @ + 1, !.sent = @ + amount]>>
  BY <1>2, SingletonCall DEF PayArtist
<1>5. /\ calls' # << >> /\ g.req = f.req /\ g.before = f.before
      /\ g.next = f.next + 1 /\ g.sent = f.sent + amount
  <2> DEFINE paying == [f EXCEPT !.next = @ + 1, !.sent = @ + amount]
  <2>1. calls' # << >> /\ g = paying
    <3> HIDE DEF paying
    <3> QED BY <1>4 DEF paying
  <2> HIDE DEF f, g, amount
  <2>2. /\ paying.req = f.req /\ paying.before = f.before
        /\ paying.next = f.next + 1 /\ paying.sent = f.sent + amount
    BY <1>2 DEF Frame
  <2> HIDE DEF paying
  <2> QED BY <2>1, <2>2
<1>6. \A a \in Accounts \ {Self} :
         balance'[a] = balance[a] + (IF a = to THEN amount ELSE 0)
  BY <1>2, <1>3, DistributorAssumption DEF PayArtist, Transfer, TypeOK
<1>7. PartlyPaid(f, balance)
  BY <1>1 DEF LedgerInv
<1>8. f.before.balance \in [Accounts -> Nat]
  BY <1>2 DEF Frame, Storage
<1> DEFINE n == f.next
           shares == Shares(f.req)
<1>9. /\ n \in Nat /\ n \in DOMAIN f.req.artists
      /\ DOMAIN f.req.artists = 1..Len(f.req.artists) /\ Len(f.req.artists) \in Nat
      /\ shares[n] = amount
  BY <1>1, <1>2, <1>3, SharesAreInts DEF Frame, Shares
<1>10. \A S \in SUBSET DOMAIN f.req.artists :
          IsFiniteSet(S) /\ SumOver(shares, S) \in Int
  BY <1>3, SharesAreInts
<1>11. \A i \in DOMAIN f.req.artists : shares[i] \in Int
  BY <1>3, SharesAreInts
<1> DEFINE past == 1..(n - 1)
<1>12. past \in SUBSET DOMAIN f.req.artists /\ n \notin past /\ 1..n = past \cup {n}
  BY <1>9
<1>13. g.sent = SumOver(shares, 1..n)
  <2>1. SumOver(shares, past \cup {n}) = shares[n] + SumOver(shares, past)
    <3> HIDE DEF shares, past, n
    <3> QED BY <1>9, <1>10, <1>11, <1>12, SumInsert
  <2>2. f.sent = SumOver(shares, past) /\ SumOver(shares, past) \in Int
    BY <1>7, <1>10, <1>12 DEF PartlyPaid
  <2>3. SumOver(shares, 1..n) = amount + SumOver(shares, past)
    <3> HIDE DEF shares, past, n, f, g, amount
    <3> QED BY <1>9, <1>12, <2>1
  <2> HIDE DEF shares, past, n, f, g, amount
  <2> QED BY <1>3, <1>5, <2>2, <2>3
<1>14. ASSUME NEW a \in Accounts \ {Self}
       PROVE  balance'[a] = f.before.balance[a] + SumOver(shares, MadeTo(g, a))
  <2>1. /\ balance[a] = f.before.balance[a] + SumOver(shares, MadeTo(f, a))
        /\ f.before.balance[a] \in Int
    BY <1>7, <1>8 DEF PartlyPaid
  <2>2. MadeTo(f, a) \in SUBSET DOMAIN f.req.artists /\ n \notin MadeTo(f, a)
    BY <1>12 DEF MadeTo
  <2>3. IsFiniteSet(MadeTo(f, a)) /\ SumOver(shares, MadeTo(f, a)) \in Int
    BY <1>10, <2>2
  <2>4. CASE a = to
    <3>1. MadeTo(g, a) = MadeTo(f, a) \cup {n}
      <4>1. 1..(g.next - 1) = past \cup {n}
        BY <1>5, <1>9, <1>12
      <4> QED BY <1>5, <1>12, <2>4, <4>1 DEF MadeTo
    <3>2. \A i \in MadeTo(f, a) \cup {n} : shares[i] \in Int
      BY <1>9, <1>11, <2>2
    <3> HIDE DEF shares, n, f, g, amount, to, past
    <3>3. SumOver(shares, MadeTo(g, a)) = amount + SumOver(shares, MadeTo(f, a))
      BY <1>9, <2>2, <2>3, <3>1, <3>2, SumInsert
    <3> QED BY <1>3, <1>6, <2>1, <2>3, <2>4, <3>3
  <2>5. CASE a # to
    <3>1. MadeTo(g, a) = MadeTo(f, a)
      <4>1. 1..(g.next - 1) = past \cup {n}
        BY <1>5, <1>9, <1>12
      <4> QED BY <1>5, <1>12, <2>5, <4>1 DEF MadeTo
    <3> HIDE DEF shares, n, f, g, amount, to, past
    <3> QED BY <1>6, <2>1, <2>3, <2>5, <3>1
  <2> QED BY <2>4, <2>5
<1>15. PartlyPaid(g, balance')
  <2>1. g.next \in 1..(Len(g.req.artists) + 1) /\ g.next - 1 = n
    BY <1>5, <1>9
  <2> HIDE DEF g
  <2> QED BY <1>5, <1>13, <1>14, <2>1 DEF PartlyPaid
<1> HIDE DEF f, g
<1> QED BY <1>1, <1>5, <1>15 DEF LedgerInv, f, g

\* The call's request joins those that account for the balances.
LEMMA ReturnLedger ==
    ASSUME IInv, LedgerInv, PayDustAndReturn
    PROVE  LedgerInv'
<1> DEFINE f == Head(calls)
           before == DoneIn(f.before.trackRecords)
           shares == Shares(f.req)
<1>1. calls # << >> /\ f.next \notin DOMAIN f.req.artists
  BY DEF PayDustAndReturn
<1>2. f \in Frame /\ CallOK(f, trackRecords, paid) /\ Tail(calls) = << >> /\ TypeOK
  BY <1>1, OpenCall DEF IInv
<1>3. Accepted(f.req) /\ f.req.total \in Nat /\ f.cid \in CIDs
  BY <1>2, DistributorAssumption DEF CallOK, Accepted, RequestType, Frame
<1>4. calls' = << >> /\ trackRecords' = trackRecords
  BY <1>2 DEF PayDustAndReturn
<1>5. PartlyPaid(f, balance) /\ IsFiniteSet(before)
  BY <1>1 DEF LedgerInv
<1>6. PICK req : Backs(req, f.before.trackRecords, f.before.balance)
  BY <1>1 DEF LedgerInv
<1>7. DoneIn(trackRecords) = before \cup {f.cid} /\ f.cid \notin before
  BY <1>2, <1>3 DEF CallOK, DoneIn
<1>8. IsFiniteSet(DoneIn(trackRecords))
  BY <1>5, <1>7, FS_AddElement
<1>9. /\ Len(f.req.artists) \in Nat /\ DOMAIN f.req.artists = 1..Len(f.req.artists)
      /\ \A S \in SUBSET DOMAIN f.req.artists : SumOver(shares, S) \in Int
  BY <1>3, SharesAreInts
<1>10. 1..(f.next - 1) = DOMAIN f.req.artists
  <2>1. f.next = Len(f.req.artists) + 1
    BY <1>1, <1>5, <1>9 DEF PartlyPaid
  <2> QED BY <1>9, <2>1
<1>11. Dust(f) = f.req.total - SumOver(shares, DOMAIN f.req.artists) /\ Dust(f) \in Nat
  <2>1. f.sent \in Nat
    BY <1>2 DEF Frame
  <2> QED BY <1>3, <1>5, <1>10, <2>1 DEF PartlyPaid, Dust, PayDustAndReturn
<1>12. \A a \in Accounts \ {Self} :
          balance'[a] = balance[a] + (IF a = Admin THEN Dust(f) ELSE 0)
  BY <1>2, <1>11, DistributorAssumption DEF PayDustAndReturn, Transfer, TypeOK
<1>13. f.before.balance \in [Accounts -> Nat]
  BY <1>2 DEF Frame, Storage
<1> DEFINE new == [c \in DoneIn(trackRecords) |-> IF c = f.cid THEN f.req ELSE req[c]]
<1>14. /\ new \in [DoneIn(trackRecords) -> {r \in Requests : ValidRequest(r)}]
       /\ \A c \in DoneIn(trackRecords) : new[c].total = trackRecords[c].total
  BY <1>2, <1>3, <1>6, <1>7 DEF Backs, CallOK, Accepted, DoneIn
<1>15. ASSUME NEW a \in Accounts \ {Self}
       PROVE  balance'[a] = SumOver([c \in DoneIn(trackRecords) |-> Due(new[c], a)],
                                    DoneIn(trackRecords))
  <2> DEFINE old == [c \in before |-> Due(req[c], a)]
             all == [c \in DoneIn(trackRecords) |-> Due(new[c], a)]
             mine == {i \in DOMAIN f.req.artists : f.req.artists[i] = a}
  <2>1. MadeTo(f, a) = mine
    BY <1>10 DEF MadeTo
  <2>2. balance[a] = f.before.balance[a] + SumOver(shares, mine)
    BY <1>5, <2>1 DEF PartlyPaid
  <2>3. f.before.balance[a] = SumOver(old, before) /\ f.before.balance[a] \in Int
    BY <1>6, <1>13 DEF Backs
  <2>4. Due(f.req, a) = SumOver(shares, mine) + (IF a = Admin THEN Dust(f) ELSE 0)
    BY <1>11, DueIsSums
  <2>5. SumOver(shares, mine) \in Int
    BY <1>9
  <2>6. balance'[a] = SumOver(old, before) + Due(f.req, a)
    <3> HIDE DEF f, shares, mine, old, before
    <3> QED BY <1>11, <1>12, <2>2, <2>3, <2>4, <2>5
  <2>7. all[f.cid] = Due(f.req, a) /\ \A c \in before : all[c] = old[c]
    BY <1>7
  <2>8. \A c \in DoneIn(trackRecords) : all[c] \in Int
    <3>1. \A c \in DoneIn(trackRecords) : Accepted(new[c])
      BY <1>14 DEF Accepted
    <3> HIDE DEF new
    <3> QED BY <3>1, SharesAreInts
  <2> HIDE DEF all, old, f, before
  <2>9. SumOver(all, before) = SumOver(old, before)
    BY <1>5, <2>7, SumCongruence
  <2>10. SumOver(all, before \cup {f.cid}) = all[f.cid] + SumOver(all, before)
    BY <1>5, <1>7, <2>8, SumInsert
  <2>11. SumOver(old, before) \in Int /\ Due(f.req, a) \in Int
    BY <1>3, <2>3, SharesAreInts
  <2>12. balance'[a] = SumOver(all, DoneIn(trackRecords))
    BY <1>7, <2>6, <2>7, <2>9, <2>10, <2>11
  <2> QED BY <2>12 DEF all
<1>16. Backs(new, trackRecords, balance')
  <2> HIDE DEF new
  <2> QED BY <1>14, <1>15 DEF Backs
<1> HIDE DEF new, f
<1> QED BY <1>4, <1>8, <1>16 DEF LedgerInv

\* A reverted call leaves the state it started from.
LEMMA RevertLedger ==
    ASSUME IInv, LedgerInv, Revert
    PROVE  LedgerInv'
<1>1. calls # << >>
  BY DEF Revert
<1>2. Tail(calls) = << >>
  BY <1>1, OpenCall
<1>3. /\ calls' = << >> /\ trackRecords' = Head(calls).before.trackRecords
      /\ balance' = Head(calls).before.balance
  BY <1>2 DEF Revert
<1> QED BY <1>1, <1>3 DEF LedgerInv

\* Every step keeps the ledger.
LEMMA NextLedger == ASSUME IInv, LedgerInv, [Next]_vars PROVE LedgerInv'
<1>1. CASE CallStep
  BY <1>1, PayArtistLedger, ReturnLedger, RevertLedger DEF CallStep
<1>2. ASSUME NEW c \in CIDs, NEW r \in Requests, Distribute(c, r)
      PROVE  LedgerInv'
  BY <1>2, EnterLedger DEF Distribute, MayDistribute, Accepted
<1>3. ASSUME NEW c \in CIDs, ExecuteQueued(c)
      PROVE  LedgerInv'
  <2>1. Accepted(pending[c].req)
    BY <1>3 DEF IInv, EntriesOK, ExecuteQueued, MayExecute
  <2> QED BY <1>3, <2>1, EnterLedger DEF ExecuteQueued
<1>4. CASE UNCHANGED <<calls, trackRecords, balance>>
  BY <1>4 DEF LedgerInv
<1>5. CASE Deposit
  <2>1. \A a \in Accounts \ {Self} : balance'[a] = balance[a]
    BY <1>5 DEF Deposit, IInv, TypeOK
  <2>2. calls = << >> /\ UNCHANGED <<calls, trackRecords>>
    BY <1>5 DEF Deposit
  <2> QED BY <2>1, <2>2 DEF LedgerInv, Backs
<1>6. ASSUME NEW c \in CIDs, NEW r \in Requests, QueueDistribution(c, r)
      PROVE  LedgerInv'
  BY <1>4, <1>6 DEF QueueDistribution
<1>7. ASSUME NEW c \in CIDs, CancelQueued(c)
      PROVE  LedgerInv'
  BY <1>4, <1>7 DEF CancelQueued
<1>8. CASE EmergencyPause \/ Unpause \/ Tick
  BY <1>4, <1>8 DEF EmergencyPause, Unpause, Tick
<1>9. CASE UNCHANGED vars
  BY <1>4, <1>9 DEF vars
<1> QED BY <1>1, <1>2, <1>3, <1>5, <1>6, <1>7, <1>8, <1>9 DEF Next

\* Nothing is distributed and nobody holds anything.
LEMMA InitLedger == Init => LedgerInv
<1> SUFFICES ASSUME Init PROVE LedgerInv
  OBVIOUS
<1>1. DoneIn(trackRecords) = {} /\ IsFiniteSet({})
  BY FS_EmptySet DEF Init, DoneIn, NoRecord
<1>2. calls = << >> /\ \A a \in Accounts : balance[a] = 0
  BY DEF Init
<1> DEFINE none == [c \in {} |-> NoRequest]
<1>3. Backs(none, trackRecords, balance)
  BY <1>1, <1>2, SumEmpty DEF Backs
<1> QED BY <1>1, <1>2, <1>3 DEF LedgerInv

\* Between calls every account but the contract's own holds what the requests
\* that were distributed give it, to the wei, for any list of artists, also one
\* that names an artist twice, and however calls failed in between.
THEOREM AccountsAreExact == Spec => []AccountsHoldTheirShares
<1>1. LedgerInv => AccountsHoldTheirShares
  <2> SUFFICES ASSUME LedgerInv, calls = << >>
               PROVE  AccountsHoldTheirShares
    BY DEF AccountsHoldTheirShares
  <2>1. PICK req : Backs(req, trackRecords, balance)
    BY DEF LedgerInv
  <2>2. \A a \in Accounts \ {Self} :
           balance[a] = F!FoldFunction(+, 0, [c \in DoneIn(trackRecords) |-> Due(req[c], a)])
    <3> SUFFICES ASSUME NEW a \in Accounts \ {Self}
                 PROVE  balance[a] = F!FoldFunction(+, 0,
                                        [c \in DoneIn(trackRecords) |-> Due(req[c], a)])
      OBVIOUS
    <3> DEFINE dues == [c \in DoneIn(trackRecords) |-> Due(req[c], a)]
    <3>1. DOMAIN dues = DoneIn(trackRecords)
      OBVIOUS
    <3>2. balance[a] = SumOver(dues, DoneIn(trackRecords))
      BY <2>1 DEF Backs
    <3> HIDE DEF dues
    <3>3. balance[a] = F!FoldFunction(+, 0, dues)
      BY <3>1, <3>2, SumsAgree
    <3> QED BY <3>3 DEF dues
  <2>3. /\ req \in [DoneIn(trackRecords) -> {r \in Requests : ValidRequest(r)}]
        /\ \A c \in DoneIn(trackRecords) : req[c].total = trackRecords[c].total
    BY <2>1 DEF Backs
  <2> QED BY <2>2, <2>3 DEF AccountsHoldTheirShares, DoneIn
<1>2. Init /\ [][Next]_vars => []LedgerInv
  <2>1. Init => IInv /\ LedgerInv
    BY InitInv, InitLedger
  <2>2. IInv /\ LedgerInv /\ [Next]_vars => IInv' /\ LedgerInv'
    BY NextInv, NextLedger
  <2> QED BY <2>1, <2>2, PTL
<1> QED BY <1>1, <1>2, PTL DEF Spec
=============================================================================
