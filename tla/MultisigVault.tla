---------------------------- MODULE MultisigVault ----------------------------
(***************************************************************************)
(* multisig_vault.rs and its handlers in main.rs: payouts proposed to a    *)
(* multi-signature Safe that holds USDC, and the Safe itself.              *)
(*                                                                         *)
(* A proposal is checked, then the Safe service is asked for the next      *)
(* nonce, then the transaction is posted: two awaits, between which other  *)
(* requests and the owners of the Safe act.  None of the calls has a       *)
(* time-out.  The Safe executes a transaction only when its nonce is the   *)
(* Safe's own, which then goes up, so that others with that nonce are void.*)
(***************************************************************************)
EXTENDS Naturals, Sequences, FiniteSets

Fns == INSTANCE Functions

CONSTANTS VaultHandlers,  \* requests served at a time
          VaultWallets,   \* payees of requests, well formed or not
          PayoutLists,    \* payouts of requests: sequences of [wallet, bps]
          Pools,          \* total_usdc of requests
          Threshold,      \* min_payout_threshold_usdc
          MalformedWallet,
          MaxProposals, MaxDeposits    \* bounds

ASSUME VaultAssumption ==
    /\ PayoutLists \subseteq Seq([wallet : VaultWallets, bps : Nat])
    /\ Pools \subseteq Nat /\ Threshold \in Nat
    /\ MaxProposals \in Nat /\ MaxDeposits \in Nat

VARIABLES vaultCfg,   \* require_zk_proof and dev_mode
          proposal,   \* per handler: the proposal it works on
          made,       \* proposals begun
          queue,      \* Safe service: the transactions posted
          nonce,      \* Safe: number of executed transactions
          executed,   \* Safe: the transactions executed
          deposits,   \* blocks with a deposit to the Safe
          view        \* the last answer of a handler that only reads

vaultVars == <<vaultCfg, proposal, made, queue, nonce, executed, deposits, view>>

Waiting == [pc |-> "idle"]
NoView  == [what |-> "none"]

VaultInit ==
    /\ vaultCfg \in [requireZkProof : BOOLEAN, devMode : BOOLEAN]
    /\ proposal = [h \in VaultHandlers |-> Waiting]
    /\ made = 0
    /\ queue = {}
    /\ nonce = 0
    /\ executed = {}
    /\ deposits = 0
    /\ view = NoView

-----------------------------------------------------------------------------
(* Faults: single slips in the code below, for mutation runs *)

BpSumIsWhole_Dropped(list) == TRUE

NextNonce_AfterPending == nonce + Cardinality(queue)

-----------------------------------------------------------------------------
(* propose_artist_payouts *)

BpSumIsWhole(list) == Fns!SumFunction([i \in DOMAIN list |-> list[i].bps]) = 10000

\* The handler checks the wallets, and hands over no proof whatever was sent.
WalletsAreWellFormed(list) == \A i \in DOMAIN list : list[i].wallet # MalformedWallet

ConditionsMet(list, total) ==
    /\ WalletsAreWellFormed(list)
    /\ total >= Threshold
    /\ ~vaultCfg.requireZkProof
    /\ BpSumIsWhole(list)

\* Amounts are rounded down; what is left over stays in the Safe.
PayoutItems(list, total) ==
    [i \in DOMAIN list |-> [wallet |-> list[i].wallet,
                            amount |-> (total * list[i].bps) \div 10000]]

\* vault_propose_payout up to the first await.  dev_mode answers with a stub.
Propose(h, list, total) ==
    /\ proposal[h] = Waiting
    /\ made < MaxProposals
    /\ made' = made + 1
    /\ proposal' = IF ConditionsMet(list, total) /\ ~vaultCfg.devMode
                   THEN [proposal EXCEPT ![h] =
                           [pc |-> "nonce", id |-> made, total |-> total,
                            items |-> PayoutItems(list, total)]]
                   ELSE proposal
    /\ UNCHANGED <<vaultCfg, queue, nonce, executed, deposits, view>>

\* The Safe's "nonce" counts what is executed, not what is queued.
NextNonce == nonce

\* fetch_next_nonce: an answer without a nonce, an error in JSON for one, is 0.
FetchNextNonce(h) ==
    /\ proposal[h].pc = "nonce"
    /\ \E n \in {NextNonce, 0} :
          proposal' = [proposal EXCEPT ![h] =
             [pc |-> "post", id |-> @.id, total |-> @.total, items |-> @.items, nonce |-> n]]
    /\ UNCHANGED <<vaultCfg, made, queue, nonce, executed, deposits, view>>

\* The POST reaches the service, which refuses a nonce that is used up.
PostProposal(h) ==
    /\ proposal[h].pc = "post"
    /\ proposal[h].nonce >= nonce
    /\ queue' = queue \cup {[id |-> proposal[h].id, nonce |-> proposal[h].nonce,
                             total |-> proposal[h].total, items |-> proposal[h].items]}
    /\ proposal' = [proposal EXCEPT ![h].pc = "posted"]
    /\ UNCHANGED <<vaultCfg, made, nonce, executed, deposits, view>>

\* The answer, with the hash of the service or one of zeros; or any of the two
\* calls fails, or its answer is lost, and the handler answers 502.
EndProposal(h) ==
    /\ proposal[h] # Waiting
    /\ proposal' = [proposal EXCEPT ![h] = Waiting]
    /\ UNCHANGED <<vaultCfg, made, queue, nonce, executed, deposits, view>>

-----------------------------------------------------------------------------
(* The handlers that only read *)

DepositAmount == Threshold

FirstTransfer(tx) == tx.items[1].amount

\* What the Safe has paid.  encode_usdc_multisend strings the transfers
\* together for one call of the token, which executes the first.
Paid == Fns!SumFunction([tx \in executed |-> FirstTransfer(tx)])

Received == deposits * DepositAmount

QueryUsdcBalance == IF vaultCfg.devMode THEN 5 * Threshold
                    ELSE IF Received > Paid THEN Received - Paid ELSE 0

\* SafePendingTx is read under the names of its fields, "safe_tx_hash"; the
\* service writes "safeTxHash", as check_execution_status and the proposal
\* read it.  Rows that cannot be read are skipped.
FieldNames   == "snake_case"
ServiceNames == "camelCase"

ListPending == IF vaultCfg.devMode \/ FieldNames # ServiceNames THEN {}
               ELSE queue \ executed

VaultSummary ==
    /\ view' = [what |-> "summary", pending |-> Cardinality(ListPending),
                canPropose |-> QueryUsdcBalance >= Threshold /\ ListPending = {}]
    /\ UNCHANGED <<vaultCfg, proposal, made, queue, nonce, executed, deposits>>

\* scan_usdc_deposits from a block on; deposits come one per block.
VaultDeposits(from) ==
    /\ view' = [what |-> "deposits",
                count |-> IF vaultCfg.devMode THEN 1
                          ELSE IF from < deposits THEN deposits - from ELSE 0]
    /\ UNCHANGED <<vaultCfg, proposal, made, queue, nonce, executed, deposits>>

\* check_execution_status: what the service does not say is "not executed".
VaultTxStatus(tx) ==
    /\ view' = [what |-> "status", id |-> tx.id,
                isExecuted |-> ~vaultCfg.devMode /\ tx \in executed]
    /\ UNCHANGED <<vaultCfg, proposal, made, queue, nonce, executed, deposits>>

-----------------------------------------------------------------------------
(* The Safe and its owners *)

Execute(tx) ==
    /\ tx \in queue \ executed
    /\ tx.nonce = nonce
    /\ nonce' = nonce + 1
    /\ executed' = executed \cup {tx}
    /\ UNCHANGED <<vaultCfg, proposal, made, queue, deposits, view>>

Deposit ==
    /\ deposits < MaxDeposits
    /\ deposits' = deposits + 1
    /\ UNCHANGED <<vaultCfg, proposal, made, queue, nonce, executed, view>>

VaultNext ==
    \/ \E h \in VaultHandlers :
          \/ \E list \in PayoutLists, total \in Pools : Propose(h, list, total)
          \/ FetchNextNonce(h) \/ PostProposal(h) \/ EndProposal(h)
    \/ VaultSummary
    \/ \E from \in 0..MaxDeposits : VaultDeposits(from)
    \/ \E tx \in queue : VaultTxStatus(tx) \/ Execute(tx)
    \/ Deposit

VaultSpec == VaultInit /\ [][VaultNext]_vaultVars

-----------------------------------------------------------------------------
(* Properties *)

\* A transaction never pays out more than the pool it was proposed for, and
\* what rounding leaves behind is less than one unit per payee (line 280).
SplitsStayInThePool ==
    \A tx \in queue :
       LET paid == Fns!SumFunction([i \in DOMAIN tx.items |-> tx.items[i].amount])
       IN  paid <= tx.total /\ tx.total - paid < Len(tx.items)

\* No transaction waits for others to be proposed before it: each is next in
\* line or void, however proposals and executions are interleaved (line 376).
NothingWaitsForAGap == \A tx \in queue : tx.nonce <= nonce

-----------------------------------------------------------------------------
(* What the code's comments say and the code does not do, see README.md *)

\* "No pending unexecuted Safe tx with same nonce" (line 254).
OnePendingPerNonce ==
    \A t, u \in queue \ executed : t.nonce >= nonce /\ t.nonce = u.nonce => t = u

\* A summary that offers a payout saw no other one pending (line 561).
CanProposeMeansNothingPending ==
    [][view' # view /\ view'.what = "summary" /\ view'.canPropose /\ ~vaultCfg.devMode
          => {tx \in queue \ executed : tx.nonce >= nonce} = {}]_vaultVars
=============================================================================
