------------------------- MODULE RoyaltyDistributor -------------------------
(***************************************************************************)
(* contracts/src/RoyaltyDistributor.sol: pays BTT to the artists of a CID, *)
(* at once up to MAX_DISTRIBUTION_BTT and after a timelock above it.       *)
(*                                                                         *)
(* A call is a frame on the stack `calls`.  A frame makes its transfers    *)
(* one by one, because each of them runs the token's code, which may call  *)
(* distribute or executeQueued again; a failing transfer reverts the call  *)
(* to the state before it.  Admin is the externally owned account that     *)
(* deployed the contract, so its calls never run inside another call.      *)
(*                                                                         *)
(* The contract is written against a verifier it is given the address of:  *)
(* here any VerifyProof.  Module ZKVerifier models the one in the tree.    *)
(*                                                                         *)
(* Left out: band residue, fingerprint and events, which nothing reads     *)
(* back; the 2^256 bound on token amounts.                                 *)
(***************************************************************************)
EXTENDS Integers, Sequences

F == INSTANCE Functions

CONSTANTS CIDs,           \* content identifiers
          Accounts,       \* addresses, numbered from 1, holding BTT
          Admin,          \* the deployer
          Self,           \* the contract's own address
          Requests,       \* the arguments distribute() is called with
          Cap,            \* MAX_DISTRIBUTION_BTT
          Delay,          \* TIMELOCK_DELAY
          MaxArtists,     \* MAX_ARTISTS
          Funding,        \* BTT sent to the contract by one deposit
          MaxFunds,       \* bound: deposits stop at this balance
          MaxTime,        \* bound: the block clock stops here
          VerifyProof(_, _, _)  \* the verifier's answer: band, commitment, proof

ZeroAddress == 0
BASIS_POINTS == 10000

Proofs == [band : Nat, commitment : Nat]

RequestType == [artists : Seq(Accounts \cup {ZeroAddress}), bps : Seq(Nat),
                band : Nat, proof : Proofs, total : Nat]

NoRequest == [artists |-> << >>, bps |-> << >>, band |-> 0,
              proof |-> [band |-> 0, commitment |-> 0], total |-> 0]

ASSUME DistributorAssumption ==
    /\ Accounts \subseteq Nat \ {ZeroAddress}
    /\ Admin \in Accounts /\ Self \in Accounts
    /\ Requests \subseteq RequestType
    /\ Cap \in Nat /\ Delay \in Nat \ {0} /\ MaxArtists \in Nat
    /\ Funding \in Nat /\ MaxFunds \in Nat /\ MaxTime \in Nat

VARIABLES
    trackRecords,  \* per CID: [distributed, total, timestamp]
    pending,       \* pendingDistributions: [req, executeAfter, executed, cancelled]
    paused,
    locked,        \* the nonReentrant flag
    calls,         \* open calls, innermost first
    balance,       \* the BTT token's balanceOf
    now,           \* block.timestamp
    paid           \* history: BTT sent so far on behalf of each CID

vars == <<trackRecords, pending, paused, locked, calls, balance, now, paid>>

-----------------------------------------------------------------------------
(* Arguments and their validation *)

\* The sum over i of bps[i] * artists[i].
SplitCommitment(artists, bps) ==
    F!FoldFunction(+, 0, [i \in DOMAIN artists |-> bps[i] * artists[i]])

ProofHolds(r) ==
    VerifyProof(r.band, SplitCommitment(r.artists, r.bps), r.proof)

BpsSum(r) == F!FoldFunction(+, 0, r.bps)

ValidRequest(r) ==
    /\ Len(r.artists) \in 1..MaxArtists
    /\ Len(r.artists) = Len(r.bps)
    /\ r.band <= 2
    /\ r.total > 0
    /\ \A i \in DOMAIN r.artists : r.artists[i] # ZeroAddress
    /\ BpsSum(r) = BASIS_POINTS
    /\ ProofHolds(r)

Share(r, i) == (r.total * r.bps[i]) \div BASIS_POINTS

-----------------------------------------------------------------------------
(* State *)

NoRecord == [distributed |-> FALSE, total |-> 0, timestamp |-> 0]
NotQueued == [req |-> NoRequest, executeAfter |-> 0,
              executed |-> FALSE, cancelled |-> FALSE]

Record == [distributed : BOOLEAN, total : Nat, timestamp : Nat]
PendingDistribution == [req : Requests \cup {NoRequest}, executeAfter : Nat,
                        executed : BOOLEAN, cancelled : BOOLEAN]

\* What a reverting call restores.
Storage == [trackRecords : [CIDs -> Record],
            pending : [CIDs -> PendingDistribution],
            locked : BOOLEAN,
            balance : [Accounts -> Nat],
            paid : [CIDs -> Nat]]

\* next: index of the transfer to make; sent: the running total `distributed`.
Frame == [cid : CIDs, req : Requests \cup {NoRequest}, next : Nat, sent : Nat,
          before : Storage]

Snapshot == [trackRecords |-> trackRecords, pending |-> pending,
             locked |-> locked, balance |-> balance, paid |-> paid]

TypeOK == /\ trackRecords \in [CIDs -> Record]
          /\ pending \in [CIDs -> PendingDistribution]
          /\ paused \in BOOLEAN
          /\ locked \in BOOLEAN
          /\ calls \in Seq(Frame)
          /\ balance \in [Accounts -> Nat]
          /\ now \in Nat
          /\ paid \in [CIDs -> Nat]

Init == /\ trackRecords = [c \in CIDs |-> NoRecord]
        /\ pending = [c \in CIDs |-> NotQueued]
        /\ paused = FALSE
        /\ locked = FALSE
        /\ calls = << >>
        /\ balance = [a \in Accounts |-> 0]
        /\ now = 1
        /\ paid = [c \in CIDs |-> 0]

-----------------------------------------------------------------------------
(* Faults: single slips in the code above and below, for mutation runs *)

QueueEntry_NoDelay(r) ==
    [req |-> r, executeAfter |-> now, executed |-> FALSE, cancelled |-> FALSE]

MayExecute_Overtaken(c) ==
    /\ ~pending[c].executed /\ ~pending[c].cancelled
    /\ pending[c].executeAfter > 0 /\ now >= pending[c].executeAfter

MayExecute_Cancelled(c) ==
    /\ ~pending[c].executed
    /\ pending[c].executeAfter > 0 /\ now >= pending[c].executeAfter
    /\ ~trackRecords[c].distributed

NotPaused_ChecksNothing == TRUE

NonReentrant_ChecksNothing == TRUE

Dust_NotPaid(f) == 0

Released_Leaks == TRUE

-----------------------------------------------------------------------------
(* Calls and transfers *)

NotPaused == ~paused
NonReentrant == ~locked

\* The value of the lock when the modifier's body has returned.
Released == FALSE

\* Effects first: the record is written and the call opened on its transfers.
Enter(c, r) ==
    /\ trackRecords' = [trackRecords EXCEPT
            ![c] = [distributed |-> TRUE, total |-> r.total, timestamp |-> now]]
    /\ locked' = TRUE
    /\ calls' = <<[cid |-> c, req |-> r, next |-> 1, sent |-> 0,
                   before |-> Snapshot]>> \o calls
    /\ UNCHANGED <<paused, balance, now, paid>>

Transfer(f, to, amount) ==
    /\ balance[Self] >= amount
    /\ balance' = LET debited == [balance EXCEPT ![Self] = @ - amount]
                  IN  [debited EXCEPT ![to] = @ + amount]
    /\ paid' = [paid EXCEPT ![f.cid] = @ + amount]

\* One iteration of the transfer loop of the innermost call.
PayArtist ==
    /\ calls # << >>
    /\ LET f == Head(calls)
           amount == Share(f.req, f.next)
       IN  /\ f.next \in DOMAIN f.req.artists
           /\ Transfer(f, f.req.artists[f.next], amount)
           /\ calls' = <<[f EXCEPT !.next = @ + 1, !.sent = @ + amount]>>
                       \o Tail(calls)
    /\ UNCHANGED <<trackRecords, pending, paused, locked, now>>

Dust(f) == f.req.total - f.sent

\* The loop is done: the dust goes to Admin and the call returns.
PayDustAndReturn ==
    /\ calls # << >>
    /\ LET f == Head(calls)
       IN  /\ f.next \notin DOMAIN f.req.artists
           /\ Dust(f) >= 0
           /\ Transfer(f, Admin, Dust(f))
    /\ calls' = Tail(calls)
    /\ locked' = Released
    /\ UNCHANGED <<trackRecords, pending, paused, now>>

\* A transfer fails (too little BTT, or the token refuses), or the dust would
\* be negative: the innermost call is undone.
Revert ==
    /\ calls # << >>
    /\ LET s == Head(calls).before
       IN  /\ trackRecords' = s.trackRecords
           /\ pending' = s.pending
           /\ locked' = s.locked
           /\ balance' = s.balance
           /\ paid' = s.paid
    /\ calls' = Tail(calls)
    /\ UNCHANGED <<paused, now>>

-----------------------------------------------------------------------------
(* The contract's entry points *)

MayDistribute(c, r) == ~trackRecords[c].distributed /\ ValidRequest(r)

Distribute(c, r) ==
    /\ NotPaused /\ NonReentrant
    /\ MayDistribute(c, r)
    /\ r.total <= Cap
    /\ Enter(c, r)
    /\ UNCHANGED pending

QueueEntry(r) ==
    [req |-> r, executeAfter |-> now + Delay, executed |-> FALSE,
     cancelled |-> FALSE]

\* distribute() of more than the cap: whatever was queued for c is replaced.
QueueDistribution(c, r) ==
    /\ NotPaused /\ NonReentrant
    /\ MayDistribute(c, r)
    /\ r.total > Cap
    /\ pending' = [pending EXCEPT ![c] = QueueEntry(r)]
    /\ UNCHANGED <<trackRecords, paused, locked, calls, balance, now, paid>>

MayExecute(c) ==
    /\ ~pending[c].executed /\ ~pending[c].cancelled
    /\ pending[c].executeAfter > 0 /\ now >= pending[c].executeAfter
    /\ ~trackRecords[c].distributed

ExecuteQueued(c) ==
    /\ NotPaused /\ NonReentrant
    /\ MayExecute(c)
    /\ ProofHolds(pending[c].req)
    /\ pending' = [pending EXCEPT ![c].executed = TRUE]
    /\ Enter(c, pending[c].req)

MayCancel(c) ==
    /\ pending[c].executeAfter > 0
    /\ ~pending[c].executed /\ ~pending[c].cancelled

\* Admin only, and not halted by a pause.
CancelQueued(c) ==
    /\ calls = << >>
    /\ MayCancel(c)
    /\ pending' = [pending EXCEPT ![c].cancelled = TRUE]
    /\ UNCHANGED <<trackRecords, paused, locked, calls, balance, now, paid>>

EmergencyPause ==
    /\ calls = << >>
    /\ paused' = TRUE
    /\ UNCHANGED <<trackRecords, pending, locked, calls, balance, now, paid>>

Unpause ==
    /\ calls = << >>
    /\ paused' = FALSE
    /\ UNCHANGED <<trackRecords, pending, locked, calls, balance, now, paid>>

-----------------------------------------------------------------------------
(* The contract's surroundings *)

\* Somebody sends BTT to the contract.
Deposit ==
    /\ calls = << >>
    /\ balance[Self] + Funding <= MaxFunds
    /\ balance' = [balance EXCEPT ![Self] = @ + Funding]
    /\ UNCHANGED <<trackRecords, pending, paused, locked, calls, now, paid>>

\* A new block; none begins inside a transaction.
Tick ==
    /\ calls = << >>
    /\ now < MaxTime
    /\ now' = now + 1
    /\ UNCHANGED <<trackRecords, pending, paused, locked, calls, balance, paid>>

CallStep == PayArtist \/ PayDustAndReturn \/ Revert

Next ==
    \/ CallStep
    \/ \E c \in CIDs, r \in Requests : Distribute(c, r) \/ QueueDistribution(c, r)
    \/ \E c \in CIDs : ExecuteQueued(c) \/ CancelQueued(c)
    \/ EmergencyPause \/ Unpause
    \/ Deposit \/ Tick

\* A transaction, once started, is run to its end.
Spec == Init /\ [][Next]_vars /\ WF_vars(CallStep)

-----------------------------------------------------------------------------
(* Properties *)

\* At most one call of distribute or executeQueued is open, and the lock is
\* held exactly while it is (the reentrancy guard, lines 58-65).
OneCallAtATime == Len(calls) <= 1 /\ (locked <=> calls # << >>)

\* Between calls, the BTT sent for a CID is exactly what its record says, dust
\* included, and nothing was sent for a CID without one: nobody is paid twice
\* (whichever of the direct and the queued path came first), a reverted call
\* leaves no transfer behind, and no wei is lost to rounding.
PaidMatchesRecord ==
    calls = << >> =>
        \A c \in CIDs : paid[c] = IF trackRecords[c].distributed
                                  THEN trackRecords[c].total ELSE 0

\* What account a is due under request r: its shares and, for Admin, the dust.
Due(r, a) ==
    LET SharesIn(S) == F!FoldFunctionOnSet(+, 0,
                            [i \in DOMAIN r.artists |-> Share(r, i)], S)
    IN  SharesIn({i \in DOMAIN r.artists : r.artists[i] = a})
        + (IF a = Admin THEN r.total - SharesIn(DOMAIN r.artists) ELSE 0)

\* Between calls, each account holds exactly the shares of one valid request
\* per distributed CID, the request of the recorded total: splits of two
\* submissions for a CID are never mixed, and a list naming an artist twice
\* pays it twice (the transfer loops, lines 199-212 and 258-265).
AccountsHoldTheirShares ==
    LET done == {c \in CIDs : trackRecords[c].distributed}
    IN  calls = << >> =>
          \E req \in [done -> {r \in Requests : ValidRequest(r)}] :
            /\ \A c \in done : req[c].total = trackRecords[c].total
            /\ \A a \in Accounts \ {Self} :
                 balance[a] = F!FoldFunction(+, 0, [c \in done |-> Due(req[c], a)])

\* An amount above the cap is only ever paid by executing a queue entry of
\* that amount whose time had come and which is not cancelled; an executed
\* entry is the one its CID was paid by, so a direct distribution that came
\* first leaves the entry unexecuted for ever (lines 173-177 and 230-253).
LargePaymentsWereQueued ==
    \A c \in CIDs :
        LET p == pending[c]
            t == trackRecords[c]
        IN  /\ p.executed => /\ t.distributed /\ ~p.cancelled
                             /\ t.total = p.req.total
                             /\ t.timestamp >= p.executeAfter
            /\ t.distributed /\ t.total > Cap => p.executed

\* While paused no call is begun: no CID is recorded or paid, none is queued,
\* and the queue changes by cancellation only (lines 105 and 281-285).
PauseHaltsDistributions ==
    [][paused /\ calls = << >> =>
         /\ UNCHANGED <<trackRecords, paid, calls>>
         /\ \A c \in CIDs : pending'[c] # pending[c] =>
              pending'[c] = [pending[c] EXCEPT !.cancelled = TRUE]]_vars

\* Every call gives the lock back, whether it returns or reverts: a lock left
\* behind would stop all distributions for good (lines 60-65).
LockIsReleased == locked ~> ~locked

\* The state the outermost open call started from: what it leaves behind if it
\* reverts, and what the outside sees until it returns.
Committed == IF calls = << >> THEN Snapshot ELSE calls[Len(calls)].before

Unnoticed == [amount |-> 0, since |-> 0]

Abstract == INSTANCE Settlement WITH
    NoNotice <- Unnoticed,
    settled <- [c \in CIDs |-> IF Committed.trackRecords[c].distributed
                               THEN Committed.paid[c] ELSE 0],
    notice <- [c \in CIDs |->
                 LET p == Committed.pending[c]
                 IN  IF p.executeAfter = 0 \/ p.executed \/ p.cancelled
                     THEN Unnoticed
                     ELSE [amount |-> p.req.total,
                           since |-> p.executeAfter - Delay]]

\* The contract implements Settlement: what was really sent for a CID is
\* settled once, and above the cap only after its notice stood for the whole
\* delay.  Queueing again for a CID starts its delay again, a cancelled entry
\* is settled only if it is queued anew (lines 215-279).
SettlesAsPromised == Abstract!Spec
=============================================================================
