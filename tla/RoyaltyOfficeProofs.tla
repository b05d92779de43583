------------------------- MODULE RoyaltyOfficeProofs -------------------------
(***************************************************************************)
(* Proofs about the four components behind royalty payments, which share   *)
(* no state: the multisig vault, the SAP postings, the export screening    *)
(* and the desk that answers about societies, scores, rights and files.    *)
(*                                                                         *)
(* The vault, for any lists of payouts and any pools.  What is paid of a   *)
(* pool is a sum of quotients that are rounded down, each by less than a   *)
(* unit (PartsFit); a transaction in the queue has the nonce the Safe had  *)
(* when it was fetched, and nonces only grow (ProposalsOK).                *)
(*                                                                         *)
(* SAP, for any number of handlers, requests and restarts.  SAP acts on    *)
(* what was sent and nothing else, and what was sent since the server was  *)
(* started has its record (CallsOK).                                       *)
(*                                                                         *)
(* Export screening, for any number of handlers: a handler that is about   *)
(* to save has written its line of the log (GtmsIInv).                     *)
(*                                                                         *)
(* The desk, for any tracks, rights records and batches of works.  The     *)
(* invariant is that an answer is what the functions give (Honest); what   *)
(* remains are facts about the functions.  The sums over the table of      *)
(* fields are taken five fields at a time.  A CWR file is put together     *)
(* from the left, a work and in it a writer at a time (Assembled), and     *)
(* what holds of a prefix (FirstWriters, FirstWorks) is carried to the     *)
(* next by an induction up to a bound (UpTo).                              *)
(***************************************************************************)
EXTENDS MultisigVault, SapPosting, Gtms, RightsDesk, SumTheorems, SequenceTheorems

-----------------------------------------------------------------------------
(* The multisig vault *)

ItemLists == {PayoutItems(list, total) : list \in {l \in PayoutLists : BpSumIsWhole(l)},
                                         total \in Pools}

\* What a proposal or a posted transaction says of its payouts.
Divided(x) == \E list \in PayoutLists : /\ BpSumIsWhole(list)
                                        /\ x.items = PayoutItems(list, x.total)

VaultTypeOK ==
    /\ vaultCfg \in [requireZkProof : BOOLEAN, devMode : BOOLEAN]
    /\ proposal \in [VaultHandlers ->
          {Waiting}
          \cup [pc : {"nonce"}, id : Nat, total : Pools, items : ItemLists]
          \cup [pc : {"post", "posted"}, id : Nat, total : Pools, items : ItemLists,
                nonce : Nat]]
    /\ made \in Nat
    /\ queue \subseteq [id : Nat, nonce : Nat, total : Pools, items : ItemLists]
    /\ nonce \in Nat
    /\ executed \subseteq queue
    /\ deposits \in Nat

\* A proposal is divided by a list of its own total, and its nonce was the
\* Safe's when it was fetched.
ProposalsOK ==
    /\ \A h \in VaultHandlers : proposal[h] # Waiting =>
          /\ Divided(proposal[h])
          /\ proposal[h].pc \in {"post", "posted"} => proposal[h].nonce <= nonce
    /\ \A tx \in queue : Divided(tx) /\ tx.nonce <= nonce

VaultIInv == VaultTypeOK /\ ProposalsOK

\* The fold of the model is the sum of SumTheorems.
LEMMA SplitSums == \A f : Fns!SumFunction(f) = SumOf(f)
BY DEF Fns!SumFunction, Fns!SumFunctionOnSet, Fns!FoldFunctionOnSet, Fns!MapThenFoldSet,
       SumOf, SumOver, Fn!SumFunctionOnSet, Fn!FoldFunctionOnSet, Fn!MapThenFoldSet

\* The members of a sequence: one at every position from 1 to its length.
LEMMA ListsHaveItems ==
    ASSUME NEW S, NEW s \in Seq(S)
    PROVE  Len(s) \in Nat /\ DOMAIN s = 1..Len(s) /\ \A i \in DOMAIN s : s[i] \in S
OBVIOUS

\* A division that rounds down loses less than one unit.
LEMMA RoundsDown ==
    ASSUME NEW m \in Nat
    PROVE  /\ m \div 10000 \in Nat
           /\ 10000 * (m \div 10000) <= m /\ m <= 10000 * (m \div 10000) + 9999
OBVIOUS

\* Quotients of a pool by shares that make a whole, each rounded down, fit in it.
LEMMA PartsFit ==
    ASSUME NEW list \in PayoutLists, NEW total \in Pools, BpSumIsWhole(list)
    PROVE  LET items == PayoutItems(list, total)
               paid == SumOf([i \in DOMAIN items |-> items[i].amount])
           IN  paid <= total /\ total - paid < Len(items)
<1> DEFINE items == PayoutItems(list, total)
           I == DOMAIN list
           bps == [i \in I |-> list[i].bps]
           amount == [i \in DOMAIN items |-> items[i].amount]
           n == Len(list)
<1>1. /\ list \in Seq([wallet : VaultWallets, bps : Nat]) /\ total \in Nat
  BY VaultAssumption
<1>2. /\ n \in Nat /\ I = 1..n /\ IsFiniteSet(I) /\ Cardinality(I) = n
      /\ \A i \in I : list[i].bps \in Nat
  <2>1. n \in Nat /\ I = 1..n /\ \A i \in I : list[i] \in [wallet : VaultWallets, bps : Nat]
    BY <1>1, ListsHaveItems
  <2>2. IsFiniteSet(1..n) /\ Cardinality(1..n) = n
    <3>1. n \in Nat
      BY <2>1
    <3> HIDE DEF n
    <3> QED BY <3>1, FS_Interval
  <2>3. \A i \in I : list[i].bps \in Nat
    BY <2>1
  <2> QED BY <2>1, <2>2, <2>3
<1>3. items = [i \in 1..n |-> [wallet |-> list[i].wallet,
                               amount |-> (total * list[i].bps) \div 10000]]
  BY <1>2 DEF PayoutItems
<1>4. DOMAIN items = I /\ Len(items) = n
  <2>1. n \in Nat /\ DOMAIN items = 1..n
    BY <1>2, <1>3
  <2> HIDE DEF items, n
  <2> QED BY <1>2, <2>1
<1>5. DOMAIN bps = I /\ \A i \in I : bps[i] = list[i].bps /\ bps[i] \in Nat
  BY <1>2
<1>6. DOMAIN amount = I /\ \A i \in I : amount[i] = (total * bps[i]) \div 10000
  BY <1>2, <1>3, <1>4
<1>7. SumOf(bps) = 10000
  BY SplitSums DEF BpSumIsWhole
<1> HIDE DEF items, I, bps, amount, n
<1>8. \A i \in I : /\ total * bps[i] \in Nat /\ amount[i] \in Nat
                   /\ 10000 * amount[i] <= total * bps[i]
                   /\ total * bps[i] <= 10000 * amount[i] + 9999
  <2> SUFFICES ASSUME NEW i \in I
               PROVE  /\ total * bps[i] \in Nat /\ amount[i] \in Nat
                      /\ 10000 * amount[i] <= total * bps[i]
                      /\ total * bps[i] <= 10000 * amount[i] + 9999
    OBVIOUS
  <2>1. total * bps[i] \in Nat
    BY <1>1, <1>5
  <2> QED BY <1>6, <2>1, RoundsDown
<1> DEFINE scaled == [i \in I |-> 10000 * amount[i]]
           weighted == [i \in I |-> total * bps[i]]
           lost == [i \in I |-> 9999]
           above == [i \in I |-> scaled[i] + lost[i]]
<1>9. \A i \in I : /\ scaled[i] = 10000 * amount[i] /\ scaled[i] \in Int
                   /\ weighted[i] = total * bps[i] /\ weighted[i] \in Int
                   /\ lost[i] = 9999 /\ lost[i] \in Int
                   /\ above[i] = scaled[i] + lost[i] /\ above[i] \in Int
                   /\ scaled[i] <= weighted[i] /\ weighted[i] <= above[i]
                   /\ amount[i] \in Int /\ bps[i] \in Int
  BY <1>5, <1>8
<1> HIDE DEF scaled, weighted, lost, above
<1>10. SumOver(scaled, I) = 10000 * SumOver(amount, I)
  <2> DEFINE unit == 10000
  <2>1. unit \in Int /\ \A i \in I : amount[i] \in Int
    BY <1>9
  <2>2. \A i \in I : scaled[i] = unit * amount[i]
    BY <1>9
  <2>3. IsFiniteSet(I)
    BY <1>2
  <2> HIDE DEF unit
  <2>4. SumOver(scaled, I) = unit * SumOver(amount, I)
    BY <2>1, <2>2, <2>3, SumScale
  <2> QED BY <2>4 DEF unit
<1>11. SumOver(weighted, I) = total * SumOver(bps, I)
  <2>1. total \in Int /\ \A i \in I : bps[i] \in Int
    BY <1>1, <1>9
  <2>2. \A i \in I : weighted[i] = total * bps[i]
    BY <1>9
  <2> QED BY <1>2, <2>1, <2>2, SumScale
<1>12. SumOver(lost, I) = 9999 * n
  <2>1. 9999 \in Int /\ \A i \in I : lost[i] = 9999
    BY <1>9
  <2>2. IsFiniteSet(I)
    BY <1>2
  <2>3. SumOver(lost, I) = 9999 * Cardinality(I)
    BY <2>1, <2>2, SumOfSame
  <2> QED BY <1>2, <2>3
<1>13. SumOver(above, I) = SumOver(scaled, I) + SumOver(lost, I)
  <2>1. \A i \in I : scaled[i] \in Int /\ lost[i] \in Int /\ above[i] = scaled[i] + lost[i]
    BY <1>9
  <2> QED BY <1>2, <2>1, SumPlus
<1>14. SumOver(scaled, I) <= SumOver(weighted, I) /\ SumOver(weighted, I) <= SumOver(above, I)
  <2>1. \A i \in I : scaled[i] \in Int /\ weighted[i] \in Int /\ scaled[i] <= weighted[i]
    BY <1>9
  <2>2. \A i \in I : weighted[i] \in Int /\ above[i] \in Int /\ weighted[i] <= above[i]
    BY <1>9
  <2>3. SumOver(scaled, I) <= SumOver(weighted, I)
    BY <1>2, <2>1, SumMonotone
  <2>4. SumOver(weighted, I) <= SumOver(above, I)
    BY <1>2, <2>2, SumMonotone
  <2> QED BY <2>3, <2>4
<1>15. SumOver(bps, I) = 10000 /\ SumOver(amount, I) \in Nat
  BY <1>2, <1>5, <1>7, <1>8, SumIsNat DEF SumOf
<1>16. n # 0
  <2> SUFFICES ASSUME n = 0 PROVE FALSE
    OBVIOUS
  <2>1. I = {}
    BY <1>2
  <2> QED BY <1>15, <2>1, SumEmpty
<1>17. SumOver(amount, I) <= total /\ total - SumOver(amount, I) < n
  <2> DEFINE paid == SumOver(amount, I)
  <2>1. 10000 * paid <= total * 10000
    BY <1>10, <1>11, <1>14, <1>15
  <2>2. total * 10000 <= 10000 * paid + 9999 * n
    BY <1>10, <1>11, <1>12, <1>13, <1>14, <1>15
  <2>3. paid \in Nat
    BY <1>15
  <2> HIDE DEF paid
  <2>4. paid <= total /\ total - paid < n
    BY <1>1, <1>2, <1>16, <2>1, <2>2, <2>3
  <2> QED BY <2>4 DEF paid
<1>18. SumOf(amount) <= total /\ total - SumOf(amount) < Len(items)
  BY <1>4, <1>6, <1>17 DEF SumOf
<1> QED BY <1>18 DEF amount, items

\* The vault starts in the invariant.
LEMMA VaultInitHolds == VaultInit => VaultIInv
BY DEF VaultInit, VaultIInv, VaultTypeOK, ProposalsOK, Waiting

\* Every step of a handler, the Safe service or an owner keeps it.
LEMMA VaultNextKeeps == VaultIInv /\ [VaultNext]_vaultVars => VaultIInv'
<1> SUFFICES ASSUME VaultTypeOK, ProposalsOK, [VaultNext]_vaultVars
             PROVE  VaultTypeOK' /\ ProposalsOK'
  BY DEF VaultIInv
<1> USE VaultAssumption
<1>1. ASSUME NEW h \in VaultHandlers, NEW list \in PayoutLists, NEW total \in Pools,
             Propose(h, list, total)
      PROVE  VaultTypeOK' /\ ProposalsOK'
  <2> DEFINE new == [pc |-> "nonce", id |-> made, total |-> total,
                     items |-> PayoutItems(list, total)]
  <2>1. UNCHANGED <<vaultCfg, queue, nonce, executed, deposits, view>> /\ made' = made + 1
    BY <1>1 DEF Propose
  <2>2. CASE proposal' = proposal
    BY <2>1, <2>2 DEF VaultTypeOK, ProposalsOK
  <2>3. CASE proposal' # proposal
    <3>1. BpSumIsWhole(list) /\ proposal' = [proposal EXCEPT ![h] = new]
      BY <1>1, <2>3 DEF Propose, ConditionsMet
    <3>2. /\ new \in [pc : {"nonce"}, id : Nat, total : Pools, items : ItemLists]
          /\ Divided(new) /\ new.pc = "nonce"
      <4>1. PayoutItems(list, total) \in ItemLists
        BY <3>1 DEF ItemLists
      <4> QED BY <3>1, <4>1 DEF Divided, VaultTypeOK
    <3> HIDE DEF new
    <3> QED BY <2>1, <3>1, <3>2 DEF VaultTypeOK, ProposalsOK
  <2> QED BY <2>2, <2>3
<1>2. ASSUME NEW h \in VaultHandlers, FetchNextNonce(h)
      PROVE  VaultTypeOK' /\ ProposalsOK'
  <2> DEFINE p == proposal[h]
  <2>1. p \in [pc : {"nonce"}, id : Nat, total : Pools, items : ItemLists] /\ Divided(p)
    BY <1>2 DEF FetchNextNonce, VaultTypeOK, ProposalsOK, Waiting
  <2>2. PICK n \in {nonce, 0} :
          proposal' = [proposal EXCEPT ![h] =
             [pc |-> "post", id |-> p.id, total |-> p.total, items |-> p.items, nonce |-> n]]
    BY <1>2 DEF FetchNextNonce, NextNonce, VaultTypeOK
  <2> DEFINE new == [pc |-> "post", id |-> p.id, total |-> p.total, items |-> p.items, nonce |-> n]
  <2>3. /\ new \in [pc : {"post", "posted"}, id : Nat, total : Pools, items : ItemLists,
                    nonce : Nat]
        /\ Divided(new) /\ new.nonce <= nonce
    BY <2>1 DEF Divided, VaultTypeOK
  <2>4. UNCHANGED <<vaultCfg, made, queue, nonce, executed, deposits, view>>
    BY <1>2 DEF FetchNextNonce
  <2> HIDE DEF new
  <2> QED BY <2>2, <2>3, <2>4 DEF VaultTypeOK, ProposalsOK, new
<1>3. ASSUME NEW h \in VaultHandlers, PostProposal(h)
      PROVE  VaultTypeOK' /\ ProposalsOK'
  <2> DEFINE p == proposal[h]
             tx == [id |-> p.id, nonce |-> p.nonce, total |-> p.total, items |-> p.items]
             new == [p EXCEPT !.pc = "posted"]
  <2>1. /\ p \in [pc : {"post", "posted"}, id : Nat, total : Pools, items : ItemLists,
                  nonce : Nat]
        /\ Divided(p) /\ p.nonce <= nonce
    BY <1>3 DEF PostProposal, VaultTypeOK, ProposalsOK, Waiting
  <2>2. /\ queue' = queue \cup {tx} /\ proposal' = [proposal EXCEPT ![h] = new]
        /\ UNCHANGED <<vaultCfg, made, nonce, executed, deposits, view>>
    BY <1>3 DEF PostProposal
  <2>3. /\ tx \in [id : Nat, nonce : Nat, total : Pools, items : ItemLists]
        /\ Divided(tx) /\ tx.nonce <= nonce
        /\ new \in [pc : {"post", "posted"}, id : Nat, total : Pools, items : ItemLists,
                    nonce : Nat]
        /\ Divided(new) /\ new.nonce <= nonce
    <3> HIDE DEF p
    <3> QED BY <2>1 DEF Divided
  <2> HIDE DEF tx, new
  <2> QED BY <2>2, <2>3 DEF VaultTypeOK, ProposalsOK
<1>4. ASSUME NEW h \in VaultHandlers, EndProposal(h)
      PROVE  VaultTypeOK' /\ ProposalsOK'
  BY <1>4 DEF EndProposal, VaultTypeOK, ProposalsOK
<1>5. ASSUME NEW tx \in queue, Execute(tx)
      PROVE  VaultTypeOK' /\ ProposalsOK'
  <2>1. /\ UNCHANGED <<vaultCfg, proposal, made, queue, deposits, view>>
        /\ nonce' = nonce + 1 /\ executed' = executed \cup {tx}
    BY <1>5 DEF Execute
  <2>2. VaultTypeOK'
    BY <2>1 DEF VaultTypeOK
  <2>3. \A m \in Nat : m <= nonce => m <= nonce'
    BY <2>1 DEF VaultTypeOK
  <2>4. \A h \in VaultHandlers : proposal[h] # Waiting =>
          /\ Divided(proposal[h])
          /\ proposal[h].pc \in {"post", "posted"} => proposal[h].nonce <= nonce'
    BY <2>3 DEF VaultTypeOK, ProposalsOK
  <2>5. \A t \in queue : Divided(t) /\ t.nonce <= nonce'
    BY <2>3 DEF VaultTypeOK, ProposalsOK
  <2> QED BY <2>1, <2>2, <2>4, <2>5 DEF ProposalsOK
<1>6. ASSUME VaultSummary \/ (\E from \in 0..MaxDeposits : VaultDeposits(from))
             \/ (\E tx \in queue : VaultTxStatus(tx)) \/ Deposit \/ UNCHANGED vaultVars
      PROVE  VaultTypeOK' /\ ProposalsOK'
  <2>1. UNCHANGED <<vaultCfg, proposal, made, queue, nonce, executed>> /\ deposits' \in Nat
    BY <1>6 DEF VaultSummary, VaultDeposits, VaultTxStatus, Deposit, vaultVars, VaultTypeOK
  <2> QED BY <2>1 DEF VaultTypeOK, ProposalsOK
<1> QED BY <1>1, <1>2, <1>3, <1>4, <1>5, <1>6 DEF VaultNext

\* The vault's inductive invariant: types, and of each proposal and transaction
\* how it was divided and that its nonce is at most the Safe's.
THEOREM VaultInvariant == VaultSpec => []VaultIInv
BY VaultInitHolds, VaultNextKeeps, PTL DEF VaultSpec

\* No transaction waits for others to be proposed before it, for any number of
\* handlers, proposals and executions.
THEOREM NoGaps == VaultSpec => []NothingWaitsForAGap
<1>1. VaultIInv => NothingWaitsForAGap
  BY DEF VaultIInv, ProposalsOK, NothingWaitsForAGap
<1> QED BY <1>1, VaultInvariant, PTL

\* Whatever the pool and the shares, rounding pays out no more than the pool
\* and leaves less than one unit per payee in the Safe.
THEOREM SplitsFit == VaultSpec => []SplitsStayInThePool
<1>1. VaultIInv => SplitsStayInThePool
  <2> SUFFICES ASSUME VaultIInv, NEW tx \in queue
               PROVE  LET paid == Fns!SumFunction([i \in DOMAIN tx.items |-> tx.items[i].amount])
                      IN  paid <= tx.total /\ tx.total - paid < Len(tx.items)
    BY DEF SplitsStayInThePool
  <2>1. Divided(tx) /\ tx.total \in Pools
    BY DEF VaultIInv, VaultTypeOK, ProposalsOK
  <2>2. PICK list \in PayoutLists : BpSumIsWhole(list) /\ tx.items = PayoutItems(list, tx.total)
    BY <2>1 DEF Divided
  <2>3. \A f : Fns!SumFunction(f) = SumOf(f)
    BY SplitSums
  <2> QED BY <2>1, <2>2, <2>3, PartsFit
<1> QED BY <1>1, VaultInvariant, PTL

-----------------------------------------------------------------------------
(* SAP postings *)

\* What a request may send.
SapCall == [what : {"journal", "idoc"}, corr : Corrs, debit : SapAmounts, credit : SapAmounts]
           \cup [what : {"vendor"}, vendor : Vendor]

SapTypeOK ==
    /\ sapMode \in SapModes
    /\ sapRequest \in [SapHandlers -> 0..MaxSapCalls]
    /\ sapCalls \in 0..MaxSapCalls
    /\ calls \in [1..MaxSapCalls -> SapCall \cup {NoCall}]
    /\ acted \subseteq 1..MaxSapCalls
    /\ sapAudit \subseteq 1..MaxSapCalls
    /\ since \in 0..MaxSapCalls
    /\ posted \subseteq 1..MaxSapCalls

\* SAP acts on what was sent, and what the server of today has sent has its record.
CallsOK ==
    /\ since <= sapCalls
    /\ \A n \in 1..MaxSapCalls : calls[n] # NoCall =>
          n <= sapCalls /\ (n > since => n \in sapAudit)
    /\ \A n \in acted : calls[n] # NoCall

SapIInv == SapTypeOK /\ CallsOK /\ posted \subseteq Documents

\* A call that was made is no NoCall, and is for a document or for a partner.
LEMMA CallsDiffer ==
    ASSUME NEW call \in SapCall
    PROVE  call # NoCall /\ call.what \in {"journal", "idoc", "vendor"}
  BY DEF SapCall, NoCall

\* Nothing is sent at first.
LEMMA SapInitHolds == SapInit => SapIInv
  BY SapAssumption DEF SapInit, SapIInv, SapTypeOK, CallsOK, Documents

\* A request that is checked: its record is written, and then it is sent.
LEMMA Sending ==
    ASSUME SapIInv, NEW h \in SapHandlers, NEW call \in SapCall, Starts(h), Sends(h, call)
    PROVE  SapIInv'
<1> DEFINE n == sapCalls + 1
<1>1. /\ sapCalls < MaxSapCalls /\ sapCalls' = n
      /\ UNCHANGED <<sapMode, acted, since, posted>>
  BY DEF Starts
<1>2. /\ sapAudit' = sapAudit \cup {n}
      /\ \/ UNCHANGED <<sapRequest, calls>>
         \/ /\ sapRequest' = [sapRequest EXCEPT ![h] = n]
            /\ calls' = [calls EXCEPT ![n] = call]
  BY DEF Sends, Audited
<1>3. n \in 1..MaxSapCalls /\ n \in Nat /\ since \in Nat /\ sapCalls \in Nat
  BY <1>1, SapAssumption DEF SapIInv, SapTypeOK
<1>4. calls[n] = NoCall
  BY <1>3 DEF SapIInv, CallsOK
<1>5. n \notin acted
  BY <1>4 DEF SapIInv, CallsOK
<1>6. SapTypeOK'
  BY <1>1, <1>2, <1>3 DEF SapIInv, SapTypeOK
<1>7. \A m \in 1..MaxSapCalls : m # n => calls'[m] = calls[m]
  BY <1>2 DEF SapIInv, SapTypeOK
<1>8. CallsOK'
  <2>1. ASSUME NEW m \in 1..MaxSapCalls, calls'[m] # NoCall
        PROVE  m <= sapCalls' /\ (m > since' => m \in sapAudit')
    <3>1. CASE m = n
      BY <1>1, <1>2, <1>3, <3>1
    <3>2. CASE m # n
      BY <1>1, <1>2, <1>3, <1>7, <2>1, <3>2 DEF SapIInv, CallsOK
    <3> QED
      BY <3>1, <3>2
  <2>2. \A m \in acted' : calls'[m] # NoCall
    BY <1>1, <1>5, <1>7 DEF SapIInv, SapTypeOK, CallsOK
  <2>3. since' <= sapCalls'
    BY <1>1, <1>3 DEF SapIInv, CallsOK
  <2> QED
    BY <2>1, <2>2, <2>3 DEF CallsOK
<1>9. posted' \subseteq Documents'
  BY <1>1, <1>5, <1>7 DEF SapIInv, SapTypeOK, Documents
<1> QED
  BY <1>6, <1>8, <1>9 DEF SapIInv

\* Every step of the handlers, of SAP and of a restart keeps the invariant.
LEMMA SapNextKeeps == SapIInv /\ [SapNext]_sapVars => SapIInv'
<1> SUFFICES ASSUME SapIInv, [SapNext]_sapVars PROVE SapIInv'
  OBVIOUS
<1>1. ASSUME NEW h \in SapHandlers, NEW p \in Posting, PostRoyaltyDocument(h, p)
      PROVE  SapIInv'
  <2>1. JournalEntry(p) \in SapCall /\ RoyaltyIdoc(p) \in SapCall
    BY DEF Posting, JournalEntry, RoyaltyIdoc, SapCall
  <2>2. CASE ValidAmounts(p)
    BY <1>1, <2>1, <2>2, Sending DEF PostRoyaltyDocument
  <2>3. CASE ~ValidAmounts(p)
    <3>1. /\ sapCalls < MaxSapCalls /\ sapCalls' = sapCalls + 1
          /\ UNCHANGED <<sapMode, sapRequest, calls, acted, sapAudit, since, posted>>
      BY <1>1, <2>3 DEF PostRoyaltyDocument, Starts
    <3>2. SapTypeOK' /\ CallsOK'
      BY <3>1, SapAssumption DEF SapIInv, SapTypeOK, CallsOK
    <3> QED
      BY <3>1, <3>2 DEF SapIInv, Documents
  <2> QED
    BY <2>2, <2>3
<1>2. ASSUME NEW h \in SapHandlers, NEW p \in Posting, EmitRoyaltyIdoc(h, p)
      PROVE  SapIInv'
  <2>1. RoyaltyIdoc(p) \in SapCall
    BY DEF Posting, RoyaltyIdoc, SapCall
  <2> QED
    BY <1>2, <2>1, Sending DEF EmitRoyaltyIdoc
<1>3. ASSUME NEW h \in SapHandlers, NEW v \in Vendor, SyncVendor(h, v)
      PROVE  SapIInv'
  <2>1. Partner(v) \in SapCall
    BY DEF Partner, SapCall
  <2> QED
    BY <1>3, <2>1, Sending DEF SyncVendor
<1>4. ASSUME NEW n \in 1..MaxSapCalls, Acts(n)
      PROVE  SapIInv'
  BY <1>4 DEF Acts, SapIInv, SapTypeOK, CallsOK, Documents
<1>5. ASSUME NEW h \in SapHandlers, Fails(h)
      PROVE  SapIInv'
  BY <1>5, SapAssumption DEF Fails, SapIInv, SapTypeOK, CallsOK, Documents
<1>6. ASSUME NEW h \in SapHandlers, Succeeds(h)
      PROVE  SapIInv'
  <2> DEFINE n == sapRequest[h]
  <2>1. /\ n \in acted /\ sapRequest' = [sapRequest EXCEPT ![h] = 0]
        /\ posted' = IF calls[n].what = "vendor" THEN posted ELSE posted \cup {n}
        /\ UNCHANGED <<sapMode, sapCalls, calls, acted, sapAudit, since>>
    BY <1>6 DEF Succeeds, Answered
  <2> HIDE DEF n
  <2>2. n \in 1..MaxSapCalls /\ calls[n] \in SapCall
    BY <2>1 DEF SapIInv, SapTypeOK, CallsOK
  <2>3. calls[n].what # "vendor" => n \in Documents
    BY <2>1, <2>2, CallsDiffer DEF Documents
  <2>4. posted' \subseteq Documents'
    BY <2>1, <2>3 DEF SapIInv, Documents
  <2>5. SapTypeOK' /\ CallsOK'
    BY <2>1, <2>2, SapAssumption DEF SapIInv, SapTypeOK, CallsOK
  <2> QED
    BY <2>4, <2>5 DEF SapIInv
<1>7. CASE SapRestart
  BY <1>7, SapAssumption DEF SapRestart, SapIInv, SapTypeOK, CallsOK, Documents
<1>8. CASE UNCHANGED sapVars
  BY <1>8 DEF sapVars, SapIInv, SapTypeOK, CallsOK, Documents
<1> QED
  BY <1>1, <1>2, <1>3, <1>4, <1>5, <1>6, <1>7, <1>8 DEF SapNext

\* For any number of handlers, requests and restarts, whatever calls are lost, late
\* or sent again: an answer "Posted" stands for a document in SAP, and every
\* document that the server of today has asked for is in its audit log (sap.rs
\* lines 345-466 and 545-613, iso_store.rs lines 6-25).
THEOREM BookingsHaveRecords == SapSpec => []EveryBookingIsAccounted
<1>1. SapIInv => EveryBookingIsAccounted
  BY DEF SapIInv, SapTypeOK, CallsOK, Documents, EveryBookingIsAccounted
<1> QED
  BY SapInitHolds, SapNextKeeps, <1>1, PTL DEF SapSpec

-----------------------------------------------------------------------------
(* Export screening *)

\* A handler that is about to save has written its log line.
GtmsIInv ==
    /\ DOMAIN task = Screeners
    /\ \A w \in Screeners : task[w] # NoTask =>
          /\ task[w] = [pc |-> task[w].pc, result |-> task[w].result]
          /\ task[w].pc \in {"log", "save"}
          /\ task[w].pc = "save" => task[w].result \in gtmsAudit
    /\ DOMAIN screenings = ScreeningIds
    /\ \A i \in ScreeningIds : screenings[i] \in gtmsAudit \cup {NoResult}
    /\ classifications \subseteq gtmsAudit

\* The screening starts in the invariant.
LEMMA GtmsInitHolds == GtmsInit => GtmsIInv
BY DEF GtmsInit, GtmsIInv

\* Every step of a screening and a restart keep it.
LEMMA GtmsNextKeeps == GtmsIInv /\ [GtmsNext]_gtmsVars => GtmsIInv'
<1> SUFFICES ASSUME GtmsIInv, [GtmsNext]_gtmsVars PROVE GtmsIInv'
  OBVIOUS
<1>1. ASSUME NEW w \in Screeners, NEW r, Takes(w, r) PROVE GtmsIInv'
  BY <1>1 DEF GtmsIInv, Takes, Evaluated, NoTask
<1>2. ASSUME NEW w \in Screeners, Log(w) PROVE GtmsIInv'
  <2>1. task[w] = [pc |-> "log", result |-> task[w].result]
    BY <1>2 DEF Log, GtmsIInv, NoTask
  <2>2. task' = [task EXCEPT ![w] = [pc |-> "save", result |-> task[w].result]]
    <3>1. task' = [task EXCEPT ![w] = [@ EXCEPT !.pc = "save"]]
      BY <1>2 DEF Log
    <3>2. [task[w] EXCEPT !.pc = "save"] = [pc |-> "save", result |-> task[w].result]
      <4> DEFINE r == task[w].result
      <4>1. task[w] = [pc |-> "log", result |-> r]
        BY <2>1
      <4> HIDE DEF r
      <4>2. [task[w] EXCEPT !.pc = "save"] = [pc |-> "save", result |-> r]
        BY <4>1
      <4> QED BY <4>2 DEF r
    <3> QED BY <3>1, <3>2
  <2> QED BY <1>2, <2>1, <2>2 DEF Log, GtmsIInv, NoTask
<1>3. ASSUME NEW w \in Screeners, Save(w) PROVE GtmsIInv'
  <2>1. task[w].result \in gtmsAudit
    BY <1>3 DEF Save, GtmsIInv, NoTask
  <2>2. /\ DOMAIN screenings' = ScreeningIds
        /\ \A i \in ScreeningIds : screenings'[i] \in gtmsAudit \cup {NoResult}
        /\ classifications' \subseteq gtmsAudit
    BY <1>3, <2>1 DEF Save, GtmsIInv
  <2> QED BY <1>3, <2>2 DEF Save, GtmsIInv
<1>4. CASE GtmsRestart
  BY <1>4 DEF GtmsRestart, GtmsIInv
<1>5. CASE UNCHANGED gtmsVars
  BY <1>5 DEF gtmsVars, GtmsIInv
<1> QED BY <1>1, <1>2, <1>3, <1>4, <1>5 DEF GtmsNext, ScreenDistribution, ClassifyWork

\* Every screening and classification in the store is in the audit log, across
\* restarts and whoever overwrote whose result.
THEOREM StoredMeansLogged == GtmsSpec => []StoredResultsWereLogged
<1>1. GtmsIInv => StoredResultsWereLogged
  BY DEF GtmsIInv, StoredResultsWereLogged
<1> QED BY GtmsInitHolds, GtmsNextKeeps, <1>1, PTL DEF GtmsSpec

-----------------------------------------------------------------------------
(* The rights desk: answers *)

\* An answer is what the functions give for the request it keeps.
Honest ==
    \/ answer.asked \in {"nothing", "list", "by_id", "by_territory", "bwarm_new", "xslt_all"}
    \/ \E t \in RoutedTerritories, right \in Rights, amount \in Nat :
          answer = [asked |-> "route", territory |-> t, right |-> right, amount |-> amount,
                    out |-> PostRoute(t, right, amount)]
    \/ \E track \in Tracks :
          answer = [asked |-> "dqi", track |-> track, out |-> Evaluate(track),
                    log |-> "DQI_EVALUATE"]
    \/ \E record \in RightsRecords :
          answer = [asked |-> "bwarm", record |-> record,
                    out |-> [state |-> ComputeState(record), conflicts |-> DetectConflicts(record)]]
    \/ \E slug \in Slugs, works \in Batches :
          answer = [asked |-> "xslt", works |-> works, out |-> TransformSubmission(slug, works),
                    log |-> IF TransformSubmission(slug, works).status = "ok"
                            THEN "XSLT_TRANSFORM" ELSE "none"]
    \/ \E works \in Batches :
          answer = [asked |-> "submit", works |-> works, files |-> GenerateAllSubmissions(works)]

\* No request is being served at first.
LEMMA DeskStarts == ASSUME DeskInit PROVE Honest
  BY DEF DeskInit, Honest, Nothing

\* Whatever the request, its answer is honest.
LEMMA DeskKeeps == ASSUME [DeskNext]_answer, Honest PROVE Honest'
<1>1. CASE LookUp
  BY <1>1 DEF LookUp, Answers, Honest
<1>2. ASSUME NEW t \in RoutedTerritories, NEW right \in Rights,
             NEW amount \in {0, MaxAmount, MaxAmount + 1}, RouteHandler(t, right, amount)
      PROVE  Honest'
  <2>1. amount \in Nat
    BY DEF MaxAmount
  <2> QED BY <1>2, <2>1 DEF RouteHandler, Answers, Honest
<1>3. ASSUME NEW track \in Tracks, DqiEvaluate(track) PROVE Honest'
  BY <1>3 DEF DqiEvaluate, Answers, Honest
<1>4. ASSUME NEW isrc \in BOOLEAN, BwarmCreate(isrc) PROVE Honest'
  BY <1>4 DEF BwarmCreate, Answers, Honest
<1>5. ASSUME NEW record \in RightsRecords, BwarmConflicts(record) PROVE Honest'
  BY <1>5 DEF BwarmConflicts, Answers, Honest
<1>6. ASSUME NEW works \in Batches, NEW slug \in Slugs, XsltHandler(slug, works) PROVE Honest'
  BY <1>6 DEF XsltHandler, Answers, Honest
<1>7. ASSUME NEW works \in Batches, XsltAllHandler(works) PROVE Honest'
  BY <1>7 DEF XsltAllHandler, Answers, Honest
<1>8. ASSUME NEW works \in Batches, Submit(works) PROVE Honest'
  BY <1>8 DEF Submit, Answers, Honest
<1>9. CASE Return
  BY <1>9 DEF Return, Nothing, Honest
<1>10. CASE UNCHANGED answer
  BY <1>10 DEF Honest
<1> QED BY <1>1, <1>2, <1>3, <1>4, <1>5, <1>6, <1>7, <1>8, <1>9, <1>10 DEF DeskNext, Serve

\* The answers stay honest.
LEMMA AnswersAreHonest == DeskSpec => []Honest
<1> QED BY DeskStarts, DeskKeeps, PTL DEF DeskSpec

-----------------------------------------------------------------------------
(* Confirmations *)

\* A confirmation more never takes a stage back.
LEMMA StagesGrow ==
    ASSUME NEW confirmed \in SUBSET Bodies, NEW b \in Bodies
    PROVE  /\ Stage(confirmed) \in RightsState
           /\ StageRank[Stage(confirmed)] \in 1..5
           /\ StageRank[Stage(confirmed \cup {b})] >= StageRank[Stage(confirmed)]
<1>1. \A c \in SUBSET Bodies :
         /\ Stage(c) \in RightsState
         /\ StageRank[Stage(c)] =
              IF "mlc" \in c THEN IF "soundexchange" \in c /\ c \cap PROs # {} THEN 5 ELSE 4
              ELSE IF "soundexchange" \in c THEN 3
              ELSE IF c \cap PROs # {} THEN 2 ELSE 1
  BY DEF Stage, StageRank, RightsState
<1> QED BY <1>1

\* detect_conflicts looks at shares and identifiers, never at who confirmed.
LEMMA ConflictsIgnoreConfirmations ==
    ASSUME NEW record \in RightsRecord, NEW confirmed \in SUBSET Bodies
    PROVE  LET new == [record EXCEPT !.confirmed = confirmed]
           IN  /\ DetectConflicts(new) = DetectConflicts(record)
               /\ new.isrc = record.isrc /\ new.iswc = record.iswc /\ new.confirmed = confirmed
<1> DEFINE new == [record EXCEPT !.confirmed = confirmed]
<1>1. /\ new.holders = record.holders /\ new.unconfirmed = record.unconfirmed
      /\ new.isrc = record.isrc /\ new.iswc = record.iswc /\ new.confirmed = confirmed
  BY DEF RightsRecord
<1> HIDE DEF new
<1>2. \A types : Owned(new, types) = Owned(record, types)
  BY <1>1 DEF Owned
<1>3. DetectConflicts(new) = DetectConflicts(record)
  BY <1>1, <1>2 DEF DetectConflicts
<1> QED BY <1>1, <1>3 DEF new

\* An honest answer about a rights record has the property.
LEMMA HonestStatesGrow == ASSUME Honest PROVE ConfirmationsNeverSetBack
<1> SUFFICES ASSUME answer.asked = "bwarm", NEW b \in Bodies
             PROVE  StageRank[ComputeState([answer.record EXCEPT !.confirmed = @ \cup {b}])]
                       >= StageRank[answer.out.state]
  BY DEF ConfirmationsNeverSetBack
<1>1. PICK record \in RightsRecord :
         answer.record = record /\ answer.out.state = ComputeState(record)
  BY DeskAssumption DEF Honest
<1> DEFINE more == record.confirmed \cup {b}
           new  == [record EXCEPT !.confirmed = more]
<1>2. record.confirmed \in SUBSET Bodies /\ more \in SUBSET Bodies
  BY DEF RightsRecord
<1>3. /\ DetectConflicts(new) = DetectConflicts(record)
      /\ new.isrc = record.isrc /\ new.iswc = record.iswc /\ new.confirmed = more
  BY <1>2, ConflictsIgnoreConfirmations
<1>4. StageRank[ComputeState(new)] >= StageRank[ComputeState(record)]
  <2>1. CASE ComputeState(record) = Stage(record.confirmed) /\ ComputeState(new) = Stage(more)
    BY <2>1, <1>2, StagesGrow
  <2>2. CASE /\ ComputeState(record) = ComputeState(new)
             /\ ComputeState(new) \in {"Unregistered", "Disputed"}
    <3>1. \A s \in {"Unregistered", "Disputed"} : StageRank[s] = 0
      BY DEF StageRank, RightsState
    <3> QED BY <2>2, <3>1
  <2> HIDE DEF new, more
  <2> QED BY <1>3, <2>1, <2>2 DEF ComputeState
<1>5. [answer.record EXCEPT !.confirmed = @ \cup {b}] = new
  BY <1>1
<1> QED BY <1>1, <1>4, <1>5

\* compute_state is monotone: for every record, whatever its holders and whoever
\* has confirmed it, one more confirmation never takes it back.
THEOREM ConfirmationsOnlyHelp == DeskSpec => []ConfirmationsNeverSetBack
<1> QED BY AnswersAreHonest, HonestStatesGrow, PTL
-----------------------------------------------------------------------------
(* The two tables of societies *)

\* The territories that a society of the region collects performance royalties in.
Performed(region) == UNION {s.territories : s \in {x \in region : "Performance" \in x.rights}}

\* A territory is performed in if a society for performances serves it.
LEMMA SocietyPerforms ==
    \A region, id, ts, rs :
       Soc(id, ts, rs) \in region /\ "Performance" \in rs => ts \subseteq Performed(region)
  BY DEF Performed, Soc

\* The sets of rights that the register uses and that hold performances.
LEMMA PerformanceRights ==
    "Performance" \in P /\ "Performance" \in PM /\ "Performance" \in PN /\ "Performance" \in PMN
  BY DEF P, PM, PN, PMN, M, N

\* Territories of the reporting module, region by region of the register.
LEMMA RoutedNorthAmerica ==
    {"US", "CA"} \subseteq Performed(NorthAmerica)
<1>1. Soc("ASCAP", {"US", "VI", "PR", "GU", "MP"}, P) \in NorthAmerica
  BY DEF NorthAmerica
<1>2. Soc("SOCAN", {"CA"}, PM) \in NorthAmerica
  BY DEF NorthAmerica
<1> QED BY <1>1, <1>2, SocietyPerforms, PerformanceRights

\* The same for the first half of Latin America in the register.
LEMMA RoutedLatinAmerica1 ==
    {"MX", "CL", "BR", "CO", "PE", "CR", "BO"} \subseteq Performed(LatinAmerica1)
<1>1. Soc("ECAD", {"BR"}, P) \in LatinAmerica1
  BY DEF LatinAmerica1
<1>2. Soc("SCD", {"CL"}, PM) \in LatinAmerica1
  BY DEF LatinAmerica1
<1>3. Soc("SAYCO", {"CO"}, PM) \in LatinAmerica1
  BY DEF LatinAmerica1
<1>4. Soc("APDAYC", {"PE"}, PM) \in LatinAmerica1
  BY DEF LatinAmerica1
<1>5. Soc("SACM", {"MX"}, PM) \in LatinAmerica1
  BY DEF LatinAmerica1
<1>6. Soc("ACAM", {"CR"}, PM) \in LatinAmerica1
  BY DEF LatinAmerica1
<1>7. Soc("SOBODAYCOM", {"BO"}, PM) \in LatinAmerica1
  BY DEF LatinAmerica1
<1> QED BY <1>1, <1>2, <1>3, <1>4, <1>5, <1>6, <1>7, SocietyPerforms, PerformanceRights

\* The same for the second half of Latin America in the register.
LEMMA RoutedLatinAmerica2 ==
    {"PY", "PA", "UY"} \subseteq Performed(LatinAmerica2)
<1>1. Soc("APA_PY", {"PY"}, PM) \in LatinAmerica2
  BY DEF LatinAmerica2
<1>2. Soc("AGADU", {"UY"}, PM) \in LatinAmerica2
  BY DEF LatinAmerica2
<1>3. Soc("BGDA_PA", {"PA"}, PM) \in LatinAmerica2
  BY DEF LatinAmerica2
<1> QED BY <1>1, <1>2, <1>3, SocietyPerforms, PerformanceRights

\* The same for the first part of Europe in the register.
LEMMA RoutedEurope1 ==
    {"GB", "DE", "FR", "IT", "ES", "NL", "IE", "AT", "DZ", "MA", "TN"} \subseteq Performed(Europe1)
<1>1. Soc("PRS", {"GB", "IE"}, PM) \in Europe1
  BY DEF Europe1
<1>2. Soc("GEMA", {"DE", "AT"}, PM) \in Europe1
  BY DEF Europe1
<1>3. Soc("SACEM", {"FR", "MC", "LU", "MA", "TN", "DZ"}, PM) \in Europe1
  BY DEF Europe1
<1>4. Soc("SIAE", {"IT", "SM", "VA"}, PM) \in Europe1
  BY DEF Europe1
<1>5. Soc("SGAE", {"ES"}, PM) \in Europe1
  BY DEF Europe1
<1>6. Soc("BUMA_STEMRA", {"NL"}, PM) \in Europe1
  BY DEF Europe1
<1> QED BY <1>1, <1>2, <1>3, <1>4, <1>5, <1>6, SocietyPerforms, PerformanceRights

\* The same for the second part of Europe in the register.
LEMMA RoutedEurope2 ==
    {"BE", "SE", "NO", "DK", "FI", "CH"} \subseteq Performed(Europe2)
<1>1. Soc("SABAM", {"BE"}, PMN) \in Europe2
  BY DEF Europe2
<1>2. Soc("SUISA", {"CH", "LI"}, PM) \in Europe2
  BY DEF Europe2
<1>3. Soc("TONO", {"NO"}, PMN) \in Europe2
  BY DEF Europe2
<1>4. Soc("STIM", {"SE"}, PM) \in Europe2
  BY DEF Europe2
<1>5. Soc("TEOSTO", {"FI"}, PM) \in Europe2
  BY DEF Europe2
<1>6. Soc("KODA", {"DK", "GL", "FO"}, PM) \in Europe2
  BY DEF Europe2
<1> QED BY <1>1, <1>2, <1>3, <1>4, <1>5, <1>6, SocietyPerforms, PerformanceRights

\* The same for the third part of Europe in the register.
LEMMA RoutedEurope3 ==
    {"PT", "HU", "CZ", "SK", "PL", "EE", "LT", "LV"} \subseteq Performed(Europe3)
<1>1. Soc("ARTISJUS", {"HU"}, PM) \in Europe3
  BY DEF Europe3
<1>2. Soc("ZAIKS", {"PL"}, PM) \in Europe3
  BY DEF Europe3
<1>3. Soc("OSA", {"CZ"}, PM) \in Europe3
  BY DEF Europe3
<1>4. Soc("SOZA", {"SK"}, PM) \in Europe3
  BY DEF Europe3
<1>5. Soc("LATGA", {"LT"}, PM) \in Europe3
  BY DEF Europe3
<1>6. Soc("AKKA_LAA", {"LV"}, PM) \in Europe3
  BY DEF Europe3
<1>7. Soc("EAU", {"EE"}, PM) \in Europe3
  BY DEF Europe3
<1>8. Soc("SPA_PT", {"PT"}, PM) \in Europe3
  BY DEF Europe3
<1> QED BY <1>1, <1>2, <1>3, <1>4, <1>5, <1>6, <1>7, <1>8, SocietyPerforms, PerformanceRights

\* The same for the fourth part of Europe in the register.
LEMMA RoutedEurope4 ==
    {"HR", "RS", "MK", "BG", "RO", "RU", "UA"} \subseteq Performed(Europe4)
<1>1. Soc("HDS_ZAMP", {"HR"}, PM) \in Europe4
  BY DEF Europe4
<1>2. Soc("SOKOJ", {"RS"}, PM) \in Europe4
  BY DEF Europe4
<1>3. Soc("ZAMP_MK", {"MK"}, PM) \in Europe4
  BY DEF Europe4
<1>4. Soc("MUSICAUTOR", {"BG"}, PM) \in Europe4
  BY DEF Europe4
<1>5. Soc("UCMR_ADA", {"RO"}, PM) \in Europe4
  BY DEF Europe4
<1>6. Soc("RAO", {"RU"}, PM) \in Europe4
  BY DEF Europe4
<1>7. Soc("UACRR", {"UA"}, PM) \in Europe4
  BY DEF Europe4
<1> QED BY <1>1, <1>2, <1>3, <1>4, <1>5, <1>6, <1>7, SocietyPerforms, PerformanceRights

\* The same for the first part of Asia and the Pacific in the register.
LEMMA RoutedAsiaPacific1 ==
    {"JP", "KR", "HK", "TW", "CN", "IN", "MY", "SG"} \subseteq Performed(AsiaPacific1)
<1>1. Soc("JASRAC", {"JP"}, PM) \in AsiaPacific1
  BY DEF AsiaPacific1
<1>2. Soc("KOMCA", {"KR"}, PM) \in AsiaPacific1
  BY DEF AsiaPacific1
<1>3. Soc("CASH", {"HK"}, PM) \in AsiaPacific1
  BY DEF AsiaPacific1
<1>4. Soc("MUST_TW", {"TW"}, PM) \in AsiaPacific1
  BY DEF AsiaPacific1
<1>5. Soc("MCSC", {"CN"}, PM) \in AsiaPacific1
  BY DEF AsiaPacific1
<1>6. Soc("IPRS", {"IN"}, PM) \in AsiaPacific1
  BY DEF AsiaPacific1
<1>7. Soc("PPM", {"MY"}, PM) \in AsiaPacific1
  BY DEF AsiaPacific1
<1>8. Soc("COMPASS", {"SG"}, PM) \in AsiaPacific1
  BY DEF AsiaPacific1
<1> QED BY <1>1, <1>2, <1>3, <1>4, <1>5, <1>6, <1>7, <1>8, SocietyPerforms, PerformanceRights

\* The same for the second part of Asia and the Pacific in the register.
LEMMA RoutedAsiaPacific2 ==
    {"AU", "TH", "PH", "ID"} \subseteq Performed(AsiaPacific2)
<1>1. Soc("FILSCAP", {"PH"}, PM) \in AsiaPacific2
  BY DEF AsiaPacific2
<1>2. Soc("MCT_TH", {"TH"}, PM) \in AsiaPacific2
  BY DEF AsiaPacific2
<1>3. Soc("KCI", {"ID"}, PM) \in AsiaPacific2
  BY DEF AsiaPacific2
<1>4. Soc("APRA_AMCOS", {"AU", "NZ", "PG", "FJ", "TO", "WS", "VU"}, PM) \in AsiaPacific2
  BY DEF AsiaPacific2
<1> QED BY <1>1, <1>2, <1>3, <1>4, SocietyPerforms, PerformanceRights

\* The same for the first half of Africa in the register.
LEMMA RoutedAfrica1 ==
    {"ZA", "KE", "NG", "CI", "GH"} \subseteq Performed(Africa1)
<1>1. Soc("SAMRO", {"ZA", "BW", "LS", "SZ", "NA"}, PM) \in Africa1
  BY DEF Africa1
<1>2. Soc("COSON", {"NG"}, PMN) \in Africa1
  BY DEF Africa1
<1>3. Soc("GHAMRO", {"GH"}, PMN) \in Africa1
  BY DEF Africa1
<1>4. Soc("MCSK", {"KE"}, PM) \in Africa1
  BY DEF Africa1
<1>5. Soc("BURIDA", {"CI"}, PMN) \in Africa1
  BY DEF Africa1
<1> QED BY <1>1, <1>2, <1>3, <1>4, <1>5, SocietyPerforms, PerformanceRights

\* The same for the second half of Africa in the register.
LEMMA RoutedAfrica2 ==
    {"BF", "SN"} \subseteq Performed(Africa2)
<1>1. Soc("BSDA_SN", {"SN"}, PMN) \in Africa2
  BY DEF Africa2
<1>2. Soc("BSDA_BF", {"BF"}, PMN) \in Africa2
  BY DEF Africa2
<1> QED BY <1>1, <1>2, SocietyPerforms, PerformanceRights

\* The same for the Middle East in the register.
LEMMA RoutedMiddleEast ==
    {"EG", "IL"} \subseteq Performed(MiddleEast)
<1>1. Soc("ACUM", {"IL"}, PM) \in MiddleEast
  BY DEF MiddleEast
<1>2. Soc("SACERAU", {"EG"}, PM) \in MiddleEast
  BY DEF MiddleEast
<1> QED BY <1>1, <1>2, SocietyPerforms, PerformanceRights

\* The territories of the societies that works are reported to.
LEMMA ReportedTerritories ==
    PrimaryTerritories \subseteq
    {"US", "CA", "MX", "CL", "BR", "CO", "PE", "CR", "BO", "PY", "PA", "UY", "GB",
     "DE", "FR", "IT", "ES", "NL", "IE", "AT", "DZ", "MA", "TN", "BE", "SE", "NO",
     "DK", "FI", "CH", "PT", "HU", "CZ", "SK", "PL", "EE", "LT", "LV", "HR", "RS",
     "MK", "BG", "RO", "RU", "UA", "JP", "KR", "HK", "TW", "CN", "IN", "MY", "SG",
     "AU", "TH", "PH", "ID", "ZA", "KE", "NG", "CI", "GH", "BF", "SN", "EG", "IL",
     "CU", "IS", "VE"}
<1>1. \A r \in CollectionSociety : r[3] \in
    {"US", "CA", "MX", "CL", "BR", "CO", "PE", "CR", "BO", "PY", "PA", "UY", "GB",
     "DE", "FR", "IT", "ES", "NL", "IE", "AT", "DZ", "MA", "TN", "BE", "SE", "NO",
     "DK", "FI", "CH", "PT", "HU", "CZ", "SK", "PL", "EE", "LT", "LV", "HR", "RS",
     "MK", "BG", "RO", "RU", "UA", "JP", "KR", "HK", "TW", "CN", "IN", "MY", "SG",
     "AU", "TH", "PH", "ID", "ZA", "KE", "NG", "CI", "GH", "BF", "SN", "EG", "IL",
     "CU", "IS", "VE"}
  BY DEF CollectionSociety
<1> QED BY <1>1 DEF PrimaryTerritories

\* Every region is part of the register.
LEMMA RegionsAreRegistered ==
    \A region \in {NorthAmerica, LatinAmerica1, LatinAmerica2, Europe1, Europe2, Europe3,
                   Europe4, AsiaPacific1, AsiaPacific2, Africa1, Africa2, MiddleEast} :
       Performed(region) \subseteq Performed(REGISTRY)
<1>1. \A region : region \subseteq REGISTRY => Performed(region) \subseteq Performed(REGISTRY)
  BY DEF Performed
<1>2. \A region \in {NorthAmerica, LatinAmerica1, LatinAmerica2, Europe1, Europe2, Europe3,
                   Europe4, AsiaPacific1, AsiaPacific2, Africa1, Africa2, MiddleEast} :
          region \subseteq REGISTRY
  BY DEF REGISTRY
<1> QED BY <1>1, <1>2

\* Every one of them, three excepted, is served by a society of the register.
LEMMA ReportedAreRouted == PrimaryTerritories \ {"CU", "IS", "VE"} \subseteq Performed(REGISTRY)
  BY ReportedTerritories, RegionsAreRegistered,
     RoutedNorthAmerica, RoutedLatinAmerica1, RoutedLatinAmerica2, RoutedEurope1,
     RoutedEurope2, RoutedEurope3, RoutedEurope4, RoutedAsiaPacific1, RoutedAsiaPacific2,
     RoutedAfrica1, RoutedAfrica2, RoutedMiddleEast

\* An honest answer about a royalty has the property.
LEMMA HonestStatesRoute == ASSUME Honest PROVE ReportedTerritoriesAreRouted
<1> SUFFICES ASSUME answer.asked = "route", answer.right = "Performance", answer.out.status = "ok",
                    answer.territory \in PrimaryTerritories \ {"CU", "IS", "VE"}
             PROVE  answer.out.societies # {}
  BY DEF ReportedTerritoriesAreRouted
<1>1. PICK t \in RoutedTerritories, amount \in Nat :
         /\ answer.out = PostRoute(t, "Performance", amount) /\ answer.territory = t
  BY DEF Honest
<1>2. answer.out.societies = RouteRoyalty(t, "Performance", amount)
  BY <1>1 DEF PostRoute, Refused
<1>3. PICK s \in REGISTRY : t \in s.territories /\ "Performance" \in s.rights
  BY <1>1, ReportedAreRouted DEF Performed
<1> QED BY <1>2, <1>3 DEF RouteRoyalty, SocietiesForTerritoryAndRight

\* Whatever the amount, a performance royalty from a territory of the reporting
\* module's societies, three excepted, is routed to a society of the register.
THEOREM RoyaltiesReachSomebody == DeskSpec => []ReportedTerritoriesAreRouted
<1> QED BY AnswersAreHonest, HonestStatesRoute, PTL
-----------------------------------------------------------------------------
(* The score of a track *)

\* Five more elements in a set and in a sum over it.
LEMMA FiveMore ==
    ASSUME NEW T, IsFiniteSet(T), NEW a, NEW b, NEW c, NEW d, NEW e
    PROVE  IsFiniteSet(T \cup {a, b, c, d, e})
<1>1. {a, b, c, d, e} = {a} \cup {b} \cup {c} \cup {d} \cup {e}
  OBVIOUS
<1> QED BY <1>1, FS_Singleton, FS_Union

\* U has just the five different elements a..e more than T.
HasFiveMore(U, T, a, b, c, d, e) ==
    /\ U = T \cup {a, b, c, d, e}
    /\ a \notin T /\ b \notin T /\ c \notin T /\ d \notin T /\ e \notin T
    /\ b # a /\ c # a /\ c # b /\ d # a /\ d # b /\ d # c /\ e # a /\ e # b /\ e # c /\ e # d

\* A sum over five more fields.
LEMMA SumOfFiveMore ==
    ASSUME NEW T, IsFiniteSet(T), NEW U, NEW f, \A x \in U : f[x] \in Int,
           NEW a, NEW b, NEW c, NEW d, NEW e, HasFiveMore(U, T, a, b, c, d, e)
    PROVE  SumOver(f, U) = f[a] + f[b] + f[c] + f[d] + f[e] + SumOver(f, T)
<1> USE DEF HasFiveMore
<1> DEFINE T1 == T \cup {a}
           T2 == T1 \cup {b}
           T3 == T2 \cup {c}
           T4 == T3 \cup {d}
           T5 == T4 \cup {e}
<1>1. T5 = U
  OBVIOUS
<1>2. IsFiniteSet(T1) /\ IsFiniteSet(T2) /\ IsFiniteSet(T3) /\ IsFiniteSet(T4)
  BY FS_AddElement
<1>3. /\ \A x \in T1 : f[x] \in Int
      /\ \A x \in T2 : f[x] \in Int
      /\ \A x \in T3 : f[x] \in Int
      /\ \A x \in T4 : f[x] \in Int
      /\ \A x \in T5 : f[x] \in Int
  OBVIOUS
<1>4. b \notin T1 /\ c \notin T2 /\ d \notin T3 /\ e \notin T4
  OBVIOUS
<1>5. SumOver(f, T1) = f[a] + SumOver(f, T)
  BY <1>3, SumInsert
<1>6. SumOver(f, T2) = f[b] + SumOver(f, T1)
  <2> HIDE DEF T1
  <2> QED BY <1>2, <1>3, <1>4, SumInsert
<1>7. SumOver(f, T3) = f[c] + SumOver(f, T2)
  <2> HIDE DEF T2
  <2> QED BY <1>2, <1>3, <1>4, SumInsert
<1>8. SumOver(f, T4) = f[d] + SumOver(f, T3)
  <2> HIDE DEF T3
  <2> QED BY <1>2, <1>3, <1>4, SumInsert
<1>9. SumOver(f, T5) = f[e] + SumOver(f, T4)
  <2> HIDE DEF T4
  <2> QED BY <1>2, <1>3, <1>4, SumInsert
<1>10. /\ f[a] \in Int /\ f[b] \in Int /\ f[c] \in Int /\ f[d] \in Int /\ f[e] \in Int
       /\ SumOver(f, T) \in Int
  BY SumIsInt
<1> HIDE DEF T1, T2, T3, T4, T5
<1> QED BY <1>1, <1>5, <1>6, <1>7, <1>8, <1>9, <1>10

\* The fields, five by five.
FieldsA == {<<"musicbrainz_id", 1, "optional">>}
FieldsB ==
  FieldsA \cup {<<"isrc", 5, "required">>, <<"title", 5, "required">>, <<"primary_artist", 5, "required">>,
              <<"label_name", 5, "required">>, <<"iswc", 4, "required">>}
FieldsC ==
  FieldsB \cup {<<"ipi_number", 4, "required">>, <<"songwriter_name", 4, "required">>, <<"publisher_name", 4, "required">>,
              <<"release_date", 4, "silent">>, <<"territory", 4, "required">>}
FieldsD ==
  FieldsC \cup {<<"upc", 3, "required">>, <<"bowi", 3, "required">>, <<"wikidata_qid", 3, "required">>,
              <<"genre", 3, "silent">>, <<"language", 3, "required">>}
FieldsE ==
  FieldsD \cup {<<"duration_secs", 3, "required">>, <<"featured_artists", 2, "optional">>, <<"catalogue_number", 2, "optional">>,
              <<"p_line", 2, "optional">>, <<"c_line", 2, "optional">>}
FieldsF ==
  FieldsE \cup {<<"original_release_date", 2, "silent">>, <<"bpm", 1, "optional">>, <<"key_signature", 1, "optional">>,
              <<"explicit_content", 1, "optional">>, <<"btfs_cid", 1, "optional">>}

\* The table of fields is made up of groups of five.
LEMMA FieldsByFives == Fields = FieldsF
  BY DEF Fields, FieldsA, FieldsB, FieldsC, FieldsD, FieldsE, FieldsF

\* There are finitely many fields.
LEMMA FieldsAreFinite ==
    /\ IsFiniteSet(FieldsA) /\ IsFiniteSet(FieldsB) /\ IsFiniteSet(FieldsC)
    /\ IsFiniteSet(FieldsD) /\ IsFiniteSet(FieldsE) /\ IsFiniteSet(FieldsF)
    /\ IsFiniteSet(Fields)
<1>1. IsFiniteSet(FieldsA)
  BY FS_Singleton DEF FieldsA
<1>2. IsFiniteSet(FieldsB)
  BY <1>1, FiveMore DEF FieldsB
<1>3. IsFiniteSet(FieldsC)
  BY <1>2, FiveMore DEF FieldsC
<1>4. IsFiniteSet(FieldsD)
  BY <1>3, FiveMore DEF FieldsD
<1>5. IsFiniteSet(FieldsE)
  BY <1>4, FiveMore DEF FieldsE
<1>6. IsFiniteSet(FieldsF)
  BY <1>5, FiveMore DEF FieldsF
<1> QED BY <1>1, <1>2, <1>3, <1>4, <1>5, <1>6, FieldsByFives

\* A sum over them, written out.
LEMMA SumOverFields ==
    ASSUME NEW score \in [Fields -> Int]
    PROVE  SumOver(score, Fields) =
           score[<<"original_release_date", 2, "silent">>] + score[<<"bpm", 1, "optional">>]
           + score[<<"key_signature", 1, "optional">>] + score[<<"explicit_content", 1, "optional">>]
           + score[<<"btfs_cid", 1, "optional">>] + (
           score[<<"duration_secs", 3, "required">>] + score[<<"featured_artists", 2, "optional">>]
           + score[<<"catalogue_number", 2, "optional">>] + score[<<"p_line", 2, "optional">>]
           + score[<<"c_line", 2, "optional">>] + (
           score[<<"upc", 3, "required">>] + score[<<"bowi", 3, "required">>]
           + score[<<"wikidata_qid", 3, "required">>] + score[<<"genre", 3, "silent">>]
           + score[<<"language", 3, "required">>] + (
           score[<<"ipi_number", 4, "required">>] + score[<<"songwriter_name", 4, "required">>]
           + score[<<"publisher_name", 4, "required">>] + score[<<"release_date", 4, "silent">>]
           + score[<<"territory", 4, "required">>] + (
           score[<<"isrc", 5, "required">>] + score[<<"title", 5, "required">>]
           + score[<<"primary_artist", 5, "required">>] + score[<<"label_name", 5, "required">>]
           + score[<<"iswc", 4, "required">>] + score[<<"musicbrainz_id", 1, "optional">>]))))
<1>0. \A x \in FieldsF : score[x] \in Int
  BY FieldsByFives
<1>1. SumOver(score, FieldsA) = score[<<"musicbrainz_id", 1, "optional">>]
  <2>1. score[<<"musicbrainz_id", 1, "optional">>] \in Int
    BY <1>0 DEF FieldsA, FieldsB, FieldsC, FieldsD, FieldsE, FieldsF
  <2> QED BY <2>1, SumSingleton DEF FieldsA
<1>2. SumOver(score, FieldsB)
        =   score[<<"isrc", 5, "required">>]
          + score[<<"title", 5, "required">>]
          + score[<<"primary_artist", 5, "required">>]
          + score[<<"label_name", 5, "required">>]
          + score[<<"iswc", 4, "required">>]
          + SumOver(score, FieldsA)
  <2> DEFINE a == <<"isrc", 5, "required">>
             b == <<"title", 5, "required">>
             c == <<"primary_artist", 5, "required">>
             d == <<"label_name", 5, "required">>
             e == <<"iswc", 4, "required">>
  <2>1. FieldsB = FieldsA \cup {a, b, c, d, e}
    BY DEF FieldsB
  <2>2. \A x \in FieldsB : score[x] \in Int
    BY <1>0 DEF FieldsC, FieldsD, FieldsE, FieldsF
  <2>3. a \notin FieldsA /\ b \notin FieldsA /\ c \notin FieldsA /\ d \notin FieldsA /\ e \notin FieldsA
    BY DEF FieldsA
  <2>4. b # a /\ c # a /\ c # b /\ d # a /\ d # b /\ d # c /\ e # a /\ e # b /\ e # c /\ e # d
    OBVIOUS
  <2>5. HasFiveMore(FieldsB, FieldsA, a, b, c, d, e)
    BY <2>1, <2>3, <2>4 DEF HasFiveMore
  <2> HIDE DEF a, b, c, d, e
  <2>6. SumOver(score, FieldsB)
           = score[a] + score[b] + score[c] + score[d] + score[e] + SumOver(score, FieldsA)
    BY <2>2, <2>5, FieldsAreFinite, SumOfFiveMore
  <2> QED BY <2>6 DEF a, b, c, d, e
<1>3. SumOver(score, FieldsC)
        =   score[<<"ipi_number", 4, "required">>]
          + score[<<"songwriter_name", 4, "required">>]
          + score[<<"publisher_name", 4, "required">>]
          + score[<<"release_date", 4, "silent">>]
          + score[<<"territory", 4, "required">>]
          + SumOver(score, FieldsB)
  <2> DEFINE a == <<"ipi_number", 4, "required">>
             b == <<"songwriter_name", 4, "required">>
             c == <<"publisher_name", 4, "required">>
             d == <<"release_date", 4, "silent">>
             e == <<"territory", 4, "required">>
  <2>1. FieldsC = FieldsB \cup {a, b, c, d, e}
    BY DEF FieldsC
  <2>2. \A x \in FieldsC : score[x] \in Int
    BY <1>0 DEF FieldsD, FieldsE, FieldsF
  <2>3. a \notin FieldsB /\ b \notin FieldsB /\ c \notin FieldsB /\ d \notin FieldsB /\ e \notin FieldsB
    BY DEF FieldsA, FieldsB
  <2>4. b # a /\ c # a /\ c # b /\ d # a /\ d # b /\ d # c /\ e # a /\ e # b /\ e # c /\ e # d
    OBVIOUS
  <2>5. HasFiveMore(FieldsC, FieldsB, a, b, c, d, e)
    BY <2>1, <2>3, <2>4 DEF HasFiveMore
  <2> HIDE DEF a, b, c, d, e
  <2>6. SumOver(score, FieldsC)
           = score[a] + score[b] + score[c] + score[d] + score[e] + SumOver(score, FieldsB)
    BY <2>2, <2>5, FieldsAreFinite, SumOfFiveMore
  <2> QED BY <2>6 DEF a, b, c, d, e
<1>4. SumOver(score, FieldsD)
        =   score[<<"upc", 3, "required">>]
          + score[<<"bowi", 3, "required">>]
          + score[<<"wikidata_qid", 3, "required">>]
          + score[<<"genre", 3, "silent">>]
          + score[<<"language", 3, "required">>]
          + SumOver(score, FieldsC)
  <2> DEFINE a == <<"upc", 3, "required">>
             b == <<"bowi", 3, "required">>
             c == <<"wikidata_qid", 3, "required">>
             d == <<"genre", 3, "silent">>
             e == <<"language", 3, "required">>
  <2>1. FieldsD = FieldsC \cup {a, b, c, d, e}
    BY DEF FieldsD
  <2>2. \A x \in FieldsD : score[x] \in Int
    BY <1>0 DEF FieldsE, FieldsF
  <2>3. a \notin FieldsC /\ b \notin FieldsC /\ c \notin FieldsC /\ d \notin FieldsC /\ e \notin FieldsC
    BY DEF FieldsA, FieldsB, FieldsC
  <2>4. b # a /\ c # a /\ c # b /\ d # a /\ d # b /\ d # c /\ e # a /\ e # b /\ e # c /\ e # d
    OBVIOUS
  <2>5. HasFiveMore(FieldsD, FieldsC, a, b, c, d, e)
    BY <2>1, <2>3, <2>4 DEF HasFiveMore
  <2> HIDE DEF a, b, c, d, e
  <2>6. SumOver(score, FieldsD)
           = score[a] + score[b] + score[c] + score[d] + score[e] + SumOver(score, FieldsC)
    BY <2>2, <2>5, FieldsAreFinite, SumOfFiveMore
  <2> QED BY <2>6 DEF a, b, c, d, e
<1>5. SumOver(score, FieldsE)
        =   score[<<"duration_secs", 3, "required">>]
          + score[<<"featured_artists", 2, "optional">>]
          + score[<<"catalogue_number", 2, "optional">>]
          + score[<<"p_line", 2, "optional">>]
          + score[<<"c_line", 2, "optional">>]
          + SumOver(score, FieldsD)
  <2> DEFINE a == <<"duration_secs", 3, "required">>
             b == <<"featured_artists", 2, "optional">>
             c == <<"catalogue_number", 2, "optional">>
             d == <<"p_line", 2, "optional">>
             e == <<"c_line", 2, "optional">>
  <2>1. FieldsE = FieldsD \cup {a, b, c, d, e}
    BY DEF FieldsE
  <2>2. \A x \in FieldsE : score[x] \in Int
    BY <1>0 DEF FieldsF
  <2>3. a \notin FieldsD /\ b \notin FieldsD /\ c \notin FieldsD /\ d \notin FieldsD /\ e \notin FieldsD
    BY DEF FieldsA, FieldsB, FieldsC, FieldsD
  <2>4. b # a /\ c # a /\ c # b /\ d # a /\ d # b /\ d # c /\ e # a /\ e # b /\ e # c /\ e # d
    OBVIOUS
  <2>5. HasFiveMore(FieldsE, FieldsD, a, b, c, d, e)
    BY <2>1, <2>3, <2>4 DEF HasFiveMore
  <2> HIDE DEF a, b, c, d, e
  <2>6. SumOver(score, FieldsE)
           = score[a] + score[b] + score[c] + score[d] + score[e] + SumOver(score, FieldsD)
    BY <2>2, <2>5, FieldsAreFinite, SumOfFiveMore
  <2> QED BY <2>6 DEF a, b, c, d, e
<1>6. SumOver(score, FieldsF)
        =   score[<<"original_release_date", 2, "silent">>]
          + score[<<"bpm", 1, "optional">>]
          + score[<<"key_signature", 1, "optional">>]
          + score[<<"explicit_content", 1, "optional">>]
          + score[<<"btfs_cid", 1, "optional">>]
          + SumOver(score, FieldsE)
  <2> DEFINE a == <<"original_release_date", 2, "silent">>
             b == <<"bpm", 1, "optional">>
             c == <<"key_signature", 1, "optional">>
             d == <<"explicit_content", 1, "optional">>
             e == <<"btfs_cid", 1, "optional">>
  <2>1. FieldsF = FieldsE \cup {a, b, c, d, e}
    BY DEF FieldsF
  <2>2. \A x \in FieldsF : score[x] \in Int
    BY <1>0
  <2>3. a \notin FieldsE /\ b \notin FieldsE /\ c \notin FieldsE /\ d \notin FieldsE /\ e \notin FieldsE
    BY DEF FieldsA, FieldsB, FieldsC, FieldsD, FieldsE
  <2>4. b # a /\ c # a /\ c # b /\ d # a /\ d # b /\ d # c /\ e # a /\ e # b /\ e # c /\ e # d
    OBVIOUS
  <2>5. HasFiveMore(FieldsF, FieldsE, a, b, c, d, e)
    BY <2>1, <2>3, <2>4 DEF HasFiveMore
  <2> HIDE DEF a, b, c, d, e
  <2>6. SumOver(score, FieldsF)
           = score[a] + score[b] + score[c] + score[d] + score[e] + SumOver(score, FieldsE)
    BY <2>2, <2>5, FieldsAreFinite, SumOfFiveMore
  <2> QED BY <2>6 DEF a, b, c, d, e
<1> QED BY <1>1, <1>2, <1>3, <1>4, <1>5, <1>6, FieldsByFives

\* The highest score is the sum of a function over the fields.
LEMMA WeightsAreASum ==
    MapThenSumSet(Weight, Fields)
              = SumOver([f \in Fields |-> Weight(f)], Fields)
<1> DEFINE score == [f \in Fields |-> Weight(f)]
           Body(iter) == [s \in SUBSET Fields |->
                            IF s = {} THEN 0 ELSE Weight(PickOf(s)) + iter[Rest(s)]]
           h  == [s \in SUBSET Fields |-> SumIter(score, Fields)[s]]
           it == CHOOSE iter : iter = Body(iter)
<1>1. MapThenSumSet(Weight, Fields) = it[Fields]
  BY DEF MapThenSumSet, MapThenFoldSet, PickOf, Rest
<1>2. Computes(SumIter(score, Fields), score, Fields)
  <2> HIDE DEF score
  <2> QED BY FieldsAreFinite, IterationExists
<1>3. h = Body(h)
  <2>1. \A s \in SUBSET Fields :
           h[s] = IF s = {} THEN 0 ELSE Weight(PickOf(s)) + h[Rest(s)]
    <3> SUFFICES ASSUME NEW s \in SUBSET Fields
                 PROVE  h[s] = IF s = {} THEN 0 ELSE Weight(PickOf(s)) + h[Rest(s)]
      OBVIOUS
    <3>1. s # {} => PickOf(s) \in Fields /\ Rest(s) \in SUBSET Fields
      BY PickIsIn DEF Rest
    <3>2. s # {} => score[PickOf(s)] = Weight(PickOf(s))
      BY <3>1
    <3> HIDE DEF score
    <3> QED BY <1>2, <3>1, <3>2 DEF Computes
  <2>2. h = [s \in SUBSET Fields |-> h[s]]
    OBVIOUS
  <2> HIDE DEF h, score
  <2> QED BY <2>1, <2>2
<1>4. it = Body(it)
  <2> HIDE DEF h, score
  <2> QED BY <1>3
<1>5. Computes(it, score, Fields)
  <2>1. \A s \in SUBSET Fields : s # {} => score[PickOf(s)] = Weight(PickOf(s))
    BY PickIsIn
  <2> HIDE DEF it, score
  <2>2. \A s \in SUBSET Fields :
           it[s] = IF s = {} THEN 0 ELSE Weight(PickOf(s)) + it[Rest(s)]
    BY <1>4
  <2> QED BY <2>1, <2>2 DEF Computes
<1> HIDE DEF it, score
<1>6. it[Fields] = SumIter(score, Fields)[Fields]
  BY <1>2, <1>5, FieldsAreFinite, IterationIsUnique
<1> QED BY <1>1, <1>6, SumIsIteration DEF score

\* So is the score of a track.
LEMMA ScoreIsASum ==
    ASSUME NEW input
    PROVE  MapThenSumSet(LAMBDA f : Score(f, input[f[1]]), Fields)
              = SumOver([f \in Fields |-> Score(f, input[f[1]])], Fields)
<1> DEFINE score == [f \in Fields |-> Score(f, input[f[1]])]
           Body(iter) == [s \in SUBSET Fields |->
                            IF s = {} THEN 0 ELSE Score(PickOf(s), input[PickOf(s)[1]]) + iter[Rest(s)]]
           h  == [s \in SUBSET Fields |-> SumIter(score, Fields)[s]]
           it == CHOOSE iter : iter = Body(iter)
<1>1. MapThenSumSet(LAMBDA f : Score(f, input[f[1]]), Fields) = it[Fields]
  BY DEF MapThenSumSet, MapThenFoldSet, PickOf, Rest
<1>2. Computes(SumIter(score, Fields), score, Fields)
  <2> HIDE DEF score
  <2> QED BY FieldsAreFinite, IterationExists
<1>3. h = Body(h)
  <2>1. \A s \in SUBSET Fields :
           h[s] = IF s = {} THEN 0 ELSE Score(PickOf(s), input[PickOf(s)[1]]) + h[Rest(s)]
    <3> SUFFICES ASSUME NEW s \in SUBSET Fields
                 PROVE  h[s] = IF s = {} THEN 0 ELSE Score(PickOf(s), input[PickOf(s)[1]]) + h[Rest(s)]
      OBVIOUS
    <3>1. s # {} => PickOf(s) \in Fields /\ Rest(s) \in SUBSET Fields
      BY PickIsIn DEF Rest
    <3>2. s # {} => score[PickOf(s)] = Score(PickOf(s), input[PickOf(s)[1]])
      BY <3>1
    <3> HIDE DEF score
    <3> QED BY <1>2, <3>1, <3>2 DEF Computes
  <2>2. h = [s \in SUBSET Fields |-> h[s]]
    OBVIOUS
  <2> HIDE DEF h, score
  <2> QED BY <2>1, <2>2
<1>4. it = Body(it)
  <2> HIDE DEF h, score
  <2> QED BY <1>3
<1>5. Computes(it, score, Fields)
  <2>1. \A s \in SUBSET Fields : s # {} => score[PickOf(s)] = Score(PickOf(s), input[PickOf(s)[1]])
    BY PickIsIn
  <2> HIDE DEF it, score
  <2>2. \A s \in SUBSET Fields :
           it[s] = IF s = {} THEN 0 ELSE Score(PickOf(s), input[PickOf(s)[1]]) + it[Rest(s)]
    BY <1>4
  <2> QED BY <2>1, <2>2 DEF Computes
<1> HIDE DEF it, score
<1>6. it[Fields] = SumIter(score, Fields)[Fields]
  BY <1>2, <1>5, FieldsAreFinite, IterationIsUnique
<1> QED BY <1>1, <1>6, SumIsIteration DEF score

\* All weights together.
LEMMA HighestScore == MaxScore = 77
<1> DEFINE score == [f \in Fields |-> Weight(f)]
<1>1. \A f \in Fields : f[2] \in Int
  BY DEF Fields
<1>2. score \in [Fields -> Int]
  BY <1>1 DEF Weight
<1>3. \A f \in Fields : score[f] = f[2]
  BY DEF Weight
<1> HIDE DEF score
<1>4. SumOver(score, Fields) = 77
  BY <1>2, <1>3, SumOverFields DEF Fields
<1> QED BY <1>4, WeightsAreASum DEF MaxScore, score

\* The weights of the fields that must be there.
RequiredScore == [f \in Fields |-> IF f[3] = "required" THEN Weight(f) ELSE 0]

\* The required fields weigh 55 of 77.
LEMMA LowestScore == SumOver(RequiredScore, Fields) = 55
<1>1. \A f \in Fields : f[2] \in Nat
  BY DEF Fields
<1>2. RequiredScore \in [Fields -> Int]
  BY <1>1 DEF RequiredScore, Weight
<1>3. \A f \in Fields : RequiredScore[f] = IF f[3] = "required" THEN f[2] ELSE 0
  BY DEF RequiredScore, Weight
<1> QED BY <1>2, <1>3, SumOverFields DEF Fields

\* A track without an issue has them all.
LEMMA NoIssueScores ==
    ASSUME NEW track \in [Names -> FieldValue], Evaluate(track).issues = {}
    PROVE  Evaluate(track).earned \in Int /\ Evaluate(track).earned >= 55
<1> DEFINE score == [f \in Fields |-> Score(f, track[f[1]])]
<1>1. \A f \in Fields : f[2] \in Nat /\ f[1] \in Names
  <2>1. \A f \in Fields : f[2] \in Nat
    BY DEF Fields
  <2> QED BY <2>1 DEF Names
<1>2. \A f \in Fields : Note(f, track[f[1]]) = {}
  BY DEF Evaluate
<1>3. ASSUME NEW f \in Fields
      PROVE  /\ RequiredScore[f] \in Int /\ score[f] \in Int
             /\ RequiredScore[f] <= score[f]
  <2>1. score[f] = Score(f, track[f[1]]) /\ Score(f, track[f[1]]) \in {0, f[2]}
    BY DEF Score, Weight
  <2>2. CASE f[3] = "required"
    <3>1. track[f[1]] # "absent"
      BY <1>2, <2>2 DEF Note
    <3>2. IsValid(f, track[f[1]])
      BY <1>2, <3>1 DEF Note
    <3> QED BY <1>1, <2>1, <2>2, <3>2 DEF RequiredScore, Score, Weight
  <2>3. CASE f[3] # "required"
    <3>1. RequiredScore[f] = 0
      BY <2>3 DEF RequiredScore
    <3> HIDE DEF score
    <3> QED BY <1>1, <2>1, <3>1
  <2> QED BY <2>2, <2>3
<1>4. Evaluate(track).earned = SumOver(score, Fields)
  BY ScoreIsASum DEF Evaluate
<1> HIDE DEF score
<1>5. SumOver(RequiredScore, Fields) <= SumOver(score, Fields) /\ SumOver(score, Fields) \in Int
  BY <1>3, FieldsAreFinite, SumMonotone, SumIsInt
<1> QED BY <1>4, <1>5, LowestScore

\* An honest answer about a track has the property.
LEMMA HonestScores == ASSUME Honest PROVE SilentLossesAreSmall
<1> SUFFICES ASSUME answer.asked = "dqi", answer.out.issues = {}
             PROVE  answer.out.tier \in {"Gold", "Silver"}
  BY DEF SilentLossesAreSmall
<1>1. PICK track \in [Names -> FieldValue] : answer.out = Evaluate(track)
  BY DeskAssumption DEF Honest
<1>2. answer.out.tier = Tier(Evaluate(track).earned)
  BY <1>1 DEF Evaluate
<1>3. Evaluate(track).earned \in Int /\ Evaluate(track).earned >= 55
  BY <1>1, NoIssueScores
<1> QED BY <1>2, <1>3, HighestScore DEF Tier

\* Whichever of its fields are absent or invalid, a track that evaluate reports no
\* issue for has all the required ones, and these alone make it Silver.
THEOREM NoIssueMeansSilver == DeskSpec => []SilentLossesAreSmall
<1> QED BY AnswersAreHonest, HonestScores, PTL
-----------------------------------------------------------------------------
(* Sequences *)

\* Induction up to a bound.
LEMMA UpTo ==
    ASSUME NEW m \in Nat, NEW Good, 0 \in Good,
           \A n \in 0..(m - 1) : n \in Good => n + 1 \in Good
    PROVE  \A n \in 0..m : n \in Good
<1> DEFINE Bad == {n \in 0..m : n \notin Good}
<1> SUFFICES ASSUME Bad # {} PROVE FALSE
  OBVIOUS
<1>0. Bad \subseteq Nat
  OBVIOUS
<1>1. PICK n \in Bad : \A x \in Bad : ~ (<<x, n>> \in OpToRel(<, Nat))
  <2> HIDE DEF Bad
  <2> QED BY <1>0, NatLessThanWellFounded, WFMin
<1>2. \A x \in Bad : ~ (x < n)
  BY <1>0, <1>1 DEF OpToRel
<1>3. n # 0 /\ n \in 0..m
  OBVIOUS
<1>4. n - 1 \in 0..(m - 1) /\ n - 1 \in 0..m
  BY <1>3
<1>5. n - 1 \in Good
  BY <1>2, <1>4
<1>6. (n - 1) + 1 \in Good
  BY <1>4, <1>5
<1> QED BY <1>3, <1>6

\* Two sequences, one after the other.
LEMMA Concat ==
    ASSUME NEW U, NEW s \in Seq(U), NEW t \in Seq(U)
    PROVE  /\ s \o t \in Seq(U)
           /\ Len(s) \in Nat /\ Len(t) \in Nat /\ Len(s \o t) = Len(s) + Len(t)
           /\ DOMAIN s = 1..Len(s) /\ DOMAIN t = 1..Len(t)
           /\ DOMAIN (s \o t) = 1..(Len(s) + Len(t))
           /\ \A p \in 1..Len(s) : (s \o t)[p] = s[p]
           /\ \A p \in 1..Len(t) : (s \o t)[Len(s) + p] = t[p]
  OBVIOUS

\* A function on the first numbers is a sequence.
LEMMA Listed ==
    ASSUME NEW U, NEW n \in Nat, NEW f \in [1..n -> U]
    PROVE  /\ f \in Seq(U) /\ Len(f) = n /\ DOMAIN f = 1..n
  OBVIOUS

\* pre holds what a flattened sequence is put together of.
Assembled(pre, seqs, U) ==
    /\ pre \in [0..Len(seqs) -> Seq(U)]
    /\ pre[0] = <<>>
    /\ \A i \in 1..Len(seqs) : pre[i] = pre[i - 1] \o seqs[i]

\* Any sequence of sequences can be put together from the left.
LEMMA PrefixesExist ==
    ASSUME NEW U, NEW seqs \in Seq(Seq(U))
    PROVE  \E pre : Assembled(pre, seqs, U)
<1> DEFINE Upto(n) == {pre \in [0..n -> Seq(U)] :
                         pre[0] = <<>> /\ \A i \in 1..n : pre[i] = pre[i - 1] \o seqs[i]}
           Good == {n \in 0..Len(seqs) : Upto(n) # {}}
<1>1. Len(seqs) \in Nat /\ \A i \in 1..Len(seqs) : seqs[i] \in Seq(U)
  OBVIOUS
<1>2. 0 \in Good
  <2> DEFINE none == [i \in 0..0 |-> <<>>]
  <2>1. none \in [0..0 -> Seq(U)] /\ 0 \in 0..0 /\ 1..0 = {}
    OBVIOUS
  <2>2. none[0] = <<>>
    BY <2>1
  <2> HIDE DEF none
  <2>3. none \in Upto(0)
    BY <2>1, <2>2
  <2> HIDE DEF Upto
  <2> QED BY <1>1, <2>3
<1>3. \A n \in 0..(Len(seqs) - 1) : n \in Good => n + 1 \in Good
  <2> SUFFICES ASSUME NEW n \in 0..(Len(seqs) - 1), n \in Good
               PROVE  n + 1 \in Good
    OBVIOUS
  <2>1. PICK pre : pre \in Upto(n)
    OBVIOUS
  <2>2. n \in Nat /\ n + 1 \in 1..Len(seqs)
    BY <1>1
  <2> DEFINE more == [i \in 0..(n + 1) |-> IF i = n + 1 THEN pre[n] \o seqs[n + 1] ELSE pre[i]]
  <2>3. pre \in [0..n -> Seq(U)] /\ pre[n] \in Seq(U) /\ pre[n] \o seqs[n + 1] \in Seq(U)
    BY <1>1, <2>1, <2>2, Concat
  <2>4. more \in [0..(n + 1) -> Seq(U)]
    BY <2>2, <2>3
  <2>5. more[0] = <<>>
    BY <2>1, <2>2
  <2>6. ASSUME NEW i \in 1..(n + 1) PROVE more[i] = more[i - 1] \o seqs[i]
    <3>1. more[i - 1] = pre[i - 1]
      <4>1. i - 1 \in 0..(n + 1) /\ i - 1 # n + 1
        BY <2>2
      <4> QED BY <4>1
    <3>2. more[i] = IF i = n + 1 THEN pre[n] \o seqs[n + 1] ELSE pre[i]
      BY <2>2
    <3>3. i - 1 = n <=> i = n + 1
      BY <2>2
    <3>4. i # n + 1 => i \in 1..n
      BY <2>2
    <3>5. \A k \in 1..n : pre[k] = pre[k - 1] \o seqs[k]
      BY <2>1
    <3> HIDE DEF more
    <3>6. CASE i = n + 1
      <4>1. i - 1 = n
        BY <2>2, <3>6
      <4> QED BY <3>1, <3>2, <3>6, <4>1
    <3>7. CASE i # n + 1
      BY <3>1, <3>2, <3>4, <3>5, <3>7
    <3> QED BY <3>6, <3>7
  <2>7. more \in Upto(n + 1)
    <3> HIDE DEF more
    <3> QED BY <2>4, <2>5, <2>6
  <2> HIDE DEF more, Upto
  <2> QED BY <2>2, <2>7
<1>4. Len(seqs) \in Good
  <2> HIDE DEF Good
  <2>1. \A n \in 0..Len(seqs) : n \in Good
    BY <1>1, <1>2, <1>3, UpTo
  <2> QED BY <1>1, <2>1
<1> QED BY <1>4 DEF Assembled

\* FlattenSeq puts it together.
LEMMA Flattened ==
    ASSUME NEW U, NEW seqs \in Seq(Seq(U)), NEW pre, Assembled(pre, seqs, U)
    PROVE  FlattenSeq(seqs) = pre[Len(seqs)]
<1> DEFINE Body(f) == [i \in 1..Len(seqs) |-> IF i = 1 THEN seqs[i] ELSE f[i - 1] \o seqs[i]]
           flat == CHOOSE f : f = Body(f)
           h == [i \in 1..Len(seqs) |-> pre[i]]
<1>1. Len(seqs) \in Nat /\ \A i \in 1..Len(seqs) : seqs[i] \in Seq(U)
  OBVIOUS
<1>2. CASE Len(seqs) = 0
  <2>1. seqs = <<>>
    BY <1>2
  <2> QED BY <1>2, <2>1 DEF FlattenSeq, Assembled
<1>3. CASE Len(seqs) # 0
  <2>1. \A i \in 1..Len(seqs) :
           pre[i] = IF i = 1 THEN seqs[i] ELSE pre[i - 1] \o seqs[i]
    <3>1. 1 \in 1..Len(seqs)
      BY <1>1, <1>3
    <3>2. pre[1] = <<>> \o seqs[1]
      <4>1. 1 - 1 = 0
        OBVIOUS
      <4> QED BY <3>1, <4>1 DEF Assembled
    <3>3. <<>> \o seqs[1] = seqs[1]
      BY <1>1, <3>1, ConcatEmptySeq
    <3> QED BY <3>2, <3>3 DEF Assembled
  <2>2. h = Body(h)
    <3>1. \A i \in 1..Len(seqs) : i # 1 => i - 1 \in 1..Len(seqs)
      BY <1>1
    <3> QED BY <2>1, <3>1
  <2>3. flat = Body(flat)
    <3> HIDE DEF h
    <3> QED BY <2>2
  <2> DEFINE Good == {n \in 0..Len(seqs) : n # 0 => flat[n] = pre[n]}
  <2>4. 0 \in Good
    BY <1>1
  <2>5. \A n \in 0..(Len(seqs) - 1) : n \in Good => n + 1 \in Good
    <3> SUFFICES ASSUME NEW n \in 0..(Len(seqs) - 1), n \in Good
                 PROVE  n + 1 \in Good
      OBVIOUS
    <3>1. n + 1 \in 1..Len(seqs) /\ (n + 1) - 1 = n /\ n \in Nat
      BY <1>1
    <3>2. flat[n + 1] = IF n + 1 = 1 THEN seqs[n + 1] ELSE flat[n] \o seqs[n + 1]
      <4> HIDE DEF flat
      <4> QED BY <2>3, <3>1
    <3>3. n # 0 => flat[n] = pre[n]
      OBVIOUS
    <3>4. pre[n + 1] = IF n + 1 = 1 THEN seqs[n + 1] ELSE pre[n] \o seqs[n + 1]
      <4> HIDE DEF flat, Good
      <4> QED BY <2>1, <3>1
    <3>5. n + 1 \in 0..Len(seqs) /\ (n + 1 # 1 => n # 0)
      BY <1>1, <3>1
    <3> HIDE DEF flat
    <3> QED BY <3>2, <3>3, <3>4, <3>5
  <2>6. Len(seqs) \in Good
    <3> HIDE DEF Good
    <3>1. \A n \in 0..Len(seqs) : n \in Good
      BY <1>1, <2>4, <2>5, UpTo
    <3> QED BY <1>1, <3>1
  <2>7. FlattenSeq(seqs) = flat[Len(seqs)]
    BY <1>3 DEF FlattenSeq
  <2> HIDE DEF flat
  <2> QED BY <1>3, <2>6, <2>7
<1> QED BY <1>2, <1>3

-----------------------------------------------------------------------------
(* How many records of a set a file has *)

Count(s, K) == Cardinality({p \in DOMAIN s : s[p] \in K})

\* Counts of two sequences add up.
LEMMA CountConcat ==
    ASSUME NEW U, NEW s \in Seq(U), NEW t \in Seq(U), NEW K
    PROVE  /\ Count(s \o t, K) = Count(s, K) + Count(t, K)
           /\ Count(s, K) \in Nat /\ Count(t, K) \in Nat
<1> DEFINE In(z) == {p \in DOMAIN z : z[p] \in K}
           moved == {Len(s) + p : p \in In(t)}
           move == [p \in In(t) |-> Len(s) + p]
<1>1. /\ Len(s) \in Nat /\ Len(t) \in Nat
      /\ DOMAIN s = 1..Len(s) /\ DOMAIN t = 1..Len(t)
      /\ DOMAIN (s \o t) = 1..(Len(s) + Len(t))
      /\ \A p \in 1..Len(s) : (s \o t)[p] = s[p]
      /\ \A p \in 1..Len(t) : (s \o t)[Len(s) + p] = t[p]
  BY Concat
<1>2. IsFiniteSet(In(s)) /\ IsFiniteSet(In(t))
  <2>1. IsFiniteSet(1..Len(s)) /\ IsFiniteSet(1..Len(t))
    BY <1>1, FS_Interval
  <2>2. In(s) \subseteq 1..Len(s) /\ In(t) \subseteq 1..Len(t)
    BY <1>1
  <2> HIDE DEF In
  <2> QED BY <2>1, <2>2, FS_Subset
<1>3. In(s \o t) = In(s) \cup moved
  <2>1. ASSUME NEW p \in In(s \o t) PROVE p \in In(s) \cup moved
    <3>1. p \in 1..(Len(s) + Len(t)) /\ (s \o t)[p] \in K
      BY <1>1
    <3>2. CASE p \in 1..Len(s)
      BY <1>1, <3>1, <3>2
    <3>3. CASE p \notin 1..Len(s)
      <4>1. p - Len(s) \in 1..Len(t) /\ Len(s) + (p - Len(s)) = p
        BY <1>1, <3>1, <3>3
      <4>2. t[p - Len(s)] \in K
        BY <1>1, <3>1, <4>1
      <4>3. p - Len(s) \in In(t)
        BY <1>1, <4>1, <4>2
      <4> QED BY <4>1, <4>3
    <3> QED BY <3>2, <3>3
  <2>2. ASSUME NEW p \in In(s) PROVE p \in In(s \o t)
    BY <1>1
  <2>3. ASSUME NEW p \in In(t) PROVE Len(s) + p \in In(s \o t)
    <3>1. p \in 1..Len(t) /\ t[p] \in K
      BY <1>1
    <3>2. Len(s) + p \in 1..(Len(s) + Len(t))
      BY <1>1, <3>1
    <3> QED BY <1>1, <3>1, <3>2
  <2> HIDE DEF In
  <2> QED BY <2>1, <2>2, <2>3
<1>4. In(s) \cap moved = {}
  BY <1>1
<1>5. IsFiniteSet(moved) /\ Cardinality(moved) = Cardinality(In(t))
  <2>1. move \in Bijection(In(t), moved)
    <3>1. \A p \in In(t) : p \in Int
      BY <1>1
    <3> HIDE DEF In
    <3>2. \A p, q \in In(t) : Len(s) + p = Len(s) + q => p = q
      BY <1>1, <3>1
    <3> QED BY <3>2 DEF Bijection, Injection, Surjection, IsInjective
  <2> HIDE DEF In, moved, move
  <2>2. ExistsBijection(In(t), moved)
    BY <2>1 DEF ExistsBijection
  <2> QED BY <1>2, <2>2, FS_Bijection
<1>6. Cardinality(In(s) \cap moved) = 0
  BY <1>4, FS_EmptySet
<1>7. Cardinality(In(s)) \in Nat /\ Cardinality(In(t)) \in Nat
  <2> HIDE DEF In
  <2> QED BY <1>2, FS_CardinalityType
<1>8. Cardinality(In(s \o t)) = Cardinality(In(s)) + Cardinality(In(t))
  <2> HIDE DEF In, moved
  <2>1. Cardinality(In(s) \cup moved)
           = Cardinality(In(s)) + Cardinality(moved) - Cardinality(In(s) \cap moved)
    BY <1>2, <1>5, FS_Union
  <2> QED BY <1>3, <1>5, <1>6, <1>7, <2>1
<1> QED BY <1>7, <1>8 DEF Count

\* There are n of the first n numbers.
LEMMA FirstNumbers ==
    ASSUME NEW n \in Nat
    PROVE  IsFiniteSet(1..n) /\ Cardinality(1..n) = n
<1>1. 1 \in Int /\ n \in Int
  OBVIOUS
<1>2. IsFiniteSet(1..n) /\ Cardinality(1..n) = IF 1 > n THEN 0 ELSE n - 1 + 1
  BY <1>1, FS_Interval
<1> QED BY <1>2

\* A sequence of members of the set.
LEMMA CountAll ==
    ASSUME NEW U, NEW s \in Seq(U), NEW K, \A p \in 1..Len(s) : s[p] \in K
    PROVE  Count(s, K) = Len(s)
<1>1. Len(s) \in Nat /\ {p \in DOMAIN s : s[p] \in K} = 1..Len(s)
  BY Concat
<1>2. Cardinality(1..Len(s)) = Len(s)
  BY <1>1, FirstNumbers
<1> QED BY <1>1, <1>2 DEF Count

\* A sequence without one.
LEMMA CountNone ==
    ASSUME NEW U, NEW s \in Seq(U), NEW K, \A p \in 1..Len(s) : s[p] \notin K
    PROVE  Count(s, K) = 0
<1>1. {p \in DOMAIN s : s[p] \in K} = {}
  BY Concat
<1> QED BY <1>1, FS_EmptySet DEF Count

-----------------------------------------------------------------------------
(* The records of a CWR file *)

\* The records a file is made of.
CwrRecord ==
    [k : {"HDR", "GRH"}, version : {"02.20"}]
    \cup [k : {"GRT", "TRL"}, txns : Nat, recs : Int]
    \cup [k : {"NWR", "ALT", "PER", "REC"}, seq : Nat]
    \cup [k : {"SPU"}, seq : Nat, n : Nat, society : {OptCode(x) : x \in STRING}]
    \cup [k : {"SWR"}, seq : Nat, n : Nat, role : {RoleCode(x) : x \in STRING},
          society : {OptCode(x) : x \in STRING}, controlled : BOOLEAN]
    \cup [k : {"PWR"}, seq : Nat, n : Nat, ipi : STRING]
    \cup [k : {"ORN"}, seq : Nat, tis : {TisCode(x) : x \in TerritoryScope},
          society : {CwrCode(x) : x \in STRING}]

Kind(kind) == {r \in CwrRecord : r.k = kind}

Own(kind, i) == {r \in CwrRecord : r.k = kind /\ r.seq = i}

\* Writers' records are of writers of their work, and a publisher's record
\* follows that of the controlled writer it is for.
Refers(s, works) ==
    \A p \in 1..Len(s) :
       /\ s[p].k = "SWR" =>
             /\ s[p].seq \in 1..Len(works)
             /\ s[p].n \in 1..Len(works[s[p].seq].writers)
             /\ s[p].role = RoleCode(works[s[p].seq].writers[s[p].n].role)
             /\ s[p].society = OptCode(works[s[p].seq].writers[s[p].n].society)
             /\ s[p].controlled = works[s[p].seq].writers[s[p].n].controlled
       /\ s[p].k = "PWR" =>
             /\ p - 1 \in 1..Len(s)
             /\ s[p - 1].k = "SWR" /\ s[p - 1].n = s[p].n /\ s[p - 1].seq = s[p].seq
             /\ works[s[p].seq].writers[s[p].n].controlled

Before(r, t) == r.seq < t.seq \/ (r.seq = t.seq /\ r.n < t.n)

\* Writers' records are in the order of the works and of their writers.
InOrder(s) ==
    \A p, q \in 1..Len(s) :
       p < q /\ s[p].k = "SWR" /\ s[q].k = "SWR" => Before(s[p], s[q])

\* References hold in a file put together of parts in which they hold.
LEMMA RefersConcat ==
    ASSUME NEW works, NEW s \in Seq(CwrRecord), NEW t \in Seq(CwrRecord),
           Refers(s, works), Refers(t, works)
    PROVE  Refers(s \o t, works)
<1>1. /\ Len(s) \in Nat /\ Len(t) \in Nat
      /\ Len(s \o t) = Len(s) + Len(t)
      /\ \A p \in 1..Len(s) : (s \o t)[p] = s[p]
      /\ \A p \in 1..Len(t) : (s \o t)[Len(s) + p] = t[p]
  BY Concat
<1> DEFINE z == s \o t
<1>2. SUFFICES ASSUME NEW p \in 1..(Len(s) + Len(t))
      PROVE  /\ z[p].k = "SWR" =>
                   /\ z[p].seq \in 1..Len(works)
                   /\ z[p].n \in 1..Len(works[z[p].seq].writers)
                   /\ z[p].role = RoleCode(works[z[p].seq].writers[z[p].n].role)
                   /\ z[p].society = OptCode(works[z[p].seq].writers[z[p].n].society)
                   /\ z[p].controlled = works[z[p].seq].writers[z[p].n].controlled
             /\ z[p].k = "PWR" =>
                   /\ p - 1 \in 1..(Len(s) + Len(t))
                   /\ z[p - 1].k = "SWR" /\ z[p - 1].n = z[p].n /\ z[p - 1].seq = z[p].seq
                   /\ works[z[p].seq].writers[z[p].n].controlled
  BY <1>1 DEF Refers
<1> HIDE DEF z
<1>3. CASE p \in 1..Len(s)
  <2>1. z[p] = s[p]
    BY <1>1, <1>3 DEF z
  <2>2. p - 1 \in 1..Len(s) => z[p - 1] = s[p - 1] /\ p - 1 \in 1..(Len(s) + Len(t))
    BY <1>1, <1>3 DEF z
  <2> QED BY <1>3, <2>1, <2>2 DEF Refers
<1>4. CASE p \notin 1..Len(s)
  <2> DEFINE r == p - Len(s)
  <2>1. r \in 1..Len(t) /\ Len(s) + r = p
    BY <1>1, <1>4
  <2>2. z[p] = t[r]
    BY <1>1, <2>1 DEF z
  <2>3. r - 1 \in 1..Len(t) => z[p - 1] = t[r - 1] /\ p - 1 \in 1..(Len(s) + Len(t))
    <3>1. Len(s) + (r - 1) = p - 1
      BY <1>1
    <3>2. r - 1 \in 1..Len(t) => z[Len(s) + (r - 1)] = t[r - 1]
      BY <1>1 DEF z
    <3>3. r - 1 \in 1..Len(t) => p - 1 \in 1..(Len(s) + Len(t))
      BY <1>1
    <3> QED BY <3>1, <3>2, <3>3
  <2> HIDE DEF r
  <2> QED BY <2>1, <2>2, <2>3 DEF Refers
<1> QED BY <1>3, <1>4

\* The order holds in a file put together of ordered parts, one before the other.
LEMMA InOrderConcat ==
    ASSUME NEW s \in Seq(CwrRecord), NEW t \in Seq(CwrRecord), InOrder(s), InOrder(t),
           \A p \in 1..Len(s), q \in 1..Len(t) :
              s[p].k = "SWR" /\ t[q].k = "SWR" => Before(s[p], t[q])
    PROVE  InOrder(s \o t)
<1>1. /\ Len(s) \in Nat /\ Len(t) \in Nat
      /\ Len(s \o t) = Len(s) + Len(t)
      /\ \A p \in 1..Len(s) : (s \o t)[p] = s[p]
      /\ \A p \in 1..Len(t) : (s \o t)[Len(s) + p] = t[p]
  BY Concat
<1> DEFINE z == s \o t
<1>2. SUFFICES ASSUME NEW p \in 1..(Len(s) + Len(t)), NEW q \in 1..(Len(s) + Len(t)),
                      p < q, z[p].k = "SWR", z[q].k = "SWR"
               PROVE  Before(z[p], z[q])
  BY <1>1 DEF InOrder
<1>3. \A x \in 1..Len(s) : z[x] = s[x]
  BY <1>1
<1>4. \A x \in 1..(Len(s) + Len(t)) :
         x \notin 1..Len(s) => x - Len(s) \in 1..Len(t) /\ z[x] = t[x - Len(s)]
  <2> SUFFICES ASSUME NEW x \in 1..(Len(s) + Len(t)), x \notin 1..Len(s)
               PROVE  x - Len(s) \in 1..Len(t) /\ z[x] = t[x - Len(s)]
    OBVIOUS
  <2>1. x - Len(s) \in 1..Len(t) /\ Len(s) + (x - Len(s)) = x
    BY <1>1
  <2> QED BY <1>1, <2>1
<1> HIDE DEF z
<1>5. CASE p \in 1..Len(s) /\ q \in 1..Len(s)
  BY <1>2, <1>3, <1>5 DEF InOrder
<1>6. CASE p \in 1..Len(s) /\ q \notin 1..Len(s)
  BY <1>2, <1>3, <1>4, <1>6
<1>7. CASE p \notin 1..Len(s)
  <2>1. q \notin 1..Len(s) /\ p - Len(s) < q - Len(s)
    BY <1>1, <1>2, <1>7
  <2> QED BY <1>2, <1>4, <1>7, <2>1 DEF InOrder
<1> QED BY <1>5, <1>6, <1>7

-----------------------------------------------------------------------------
(* The records of a work's writers *)

\* The publisher's record that goes with a writer's.
HasPublisher(w, j) == w.writers[j].controlled /\ w.publishers # <<>>

\* The fields of a work of a batch.
LEMMA WorkParts ==
    ASSUME NEW works \in Seq(Work), NEW i \in 1..Len(works)
    PROVE  /\ Len(works) \in Nat /\ i \in Nat /\ works[i] \in Work
           /\ works[i].writers \in Seq(Writer) /\ works[i].publishers \in Seq(Publisher)
           /\ works[i].territories \in Seq(TerritoryScope) /\ works[i].society \in STRING
           /\ works[i].titles \in Nat /\ works[i].artists \in Nat
           /\ works[i].recording \in BOOLEAN
           /\ Len(works[i].writers) \in Nat /\ Len(works[i].publishers) \in Nat
           /\ Len(works[i].territories) \in Nat
<1>1. Len(works) \in Nat /\ i \in Nat /\ works[i] \in Work
  OBVIOUS
<1>2. /\ works[i].writers \in Seq(Writer) /\ works[i].publishers \in Seq(Publisher)
      /\ works[i].territories \in Seq(TerritoryScope) /\ works[i].society \in STRING
      /\ works[i].titles \in Nat /\ works[i].artists \in Nat
      /\ works[i].recording \in BOOLEAN
  BY <1>1 DEF Work
<1> QED BY <1>1, <1>2

\* What the records of the j-th writer of the i-th work are.
WriterPart(s, works, i, j) ==
    /\ s \in Seq(CwrRecord)
    /\ Len(s) = IF HasPublisher(works[i], j) THEN 2 ELSE 1
    /\ \A p \in 1..Len(s) : s[p].k \in {"SWR", "PWR"} /\ s[p].seq = i /\ s[p].n = j
    /\ Refers(s, works) /\ InOrder(s)
    /\ Count(s, Own("SWR", i)) = 1

\* One writer's records: the writer's own, and the publisher's if there is one.
LEMMA OneWriter ==
    ASSUME NEW works \in Seq(Work), NEW i \in 1..Len(works),
           NEW j \in 1..Len(works[i].writers), NEW s, s = WriterRecords(i, works[i], j)
    PROVE  WriterPart(s, works, i, j)
<1> DEFINE w == works[i].writers[j]
           swr == [k |-> "SWR", seq |-> i, n |-> j, role |-> RoleCode(w.role),
                   society |-> OptCode(w.society), controlled |-> w.controlled]
           pwr == [k |-> "PWR", seq |-> i, n |-> j, ipi |-> works[i].publishers[1].ipi]
           s1 == <<swr>>
           s2 == IF HasPublisher(works[i], j) THEN <<pwr>> ELSE <<>>
<1>1. /\ works[i] \in Work /\ i \in Nat /\ j \in Nat
      /\ works[i].writers \in Seq(Writer) /\ works[i].publishers \in Seq(Publisher)
      /\ Len(works[i].writers) \in Nat
  BY WorkParts
<1>2. w \in Writer
  BY <1>1
<1>3. swr \in CwrRecord
  <2>1. RoleCode(w.role) \in {RoleCode(x) : x \in STRING}
    BY <1>2 DEF Writer
  <2>2. OptCode(w.society) \in {OptCode(x) : x \in STRING}
    BY <1>2 DEF Writer
  <2>3. w.controlled \in BOOLEAN
    BY <1>2 DEF Writer
  <2> HIDE DEF w
  <2> QED BY <1>1, <2>1, <2>2, <2>3 DEF CwrRecord
<1>4. HasPublisher(works[i], j) => pwr \in CwrRecord
  <2> SUFFICES ASSUME HasPublisher(works[i], j) PROVE pwr \in CwrRecord
    OBVIOUS
  <2>1. works[i].publishers[1] \in Publisher
    <3>1. Len(works[i].publishers) # 0
      BY <1>1 DEF HasPublisher
    <3> QED BY <1>1, <3>1
  <2>2. works[i].publishers[1].ipi \in STRING
    BY <2>1 DEF Publisher
  <2> QED BY <1>1, <2>2 DEF CwrRecord
<1>5. s = s1 \o s2
  BY DEF WriterRecords, HasPublisher
<1>6. /\ s1 \in Seq(CwrRecord) /\ Len(s1) = 1 /\ s1[1] = swr
      /\ s2 \in Seq(CwrRecord) /\ Len(s2) = IF HasPublisher(works[i], j) THEN 1 ELSE 0
      /\ HasPublisher(works[i], j) => s2[1] = pwr
  <2> HIDE DEF swr, pwr
  <2> QED BY <1>3, <1>4
<1>7. /\ swr.k = "SWR" /\ swr.seq = i /\ swr.n = j /\ swr.role = RoleCode(w.role)
      /\ swr.society = OptCode(w.society) /\ swr.controlled = w.controlled
      /\ pwr.k = "PWR" /\ pwr.seq = i /\ pwr.n = j
  OBVIOUS
<1> HIDE DEF swr, pwr, s1, s2
<1>8. /\ s \in Seq(CwrRecord) /\ Len(s) = IF HasPublisher(works[i], j) THEN 2 ELSE 1
      /\ s[1] = swr
      /\ HasPublisher(works[i], j) => s[2] = pwr
  <2>1. /\ s1 \o s2 \in Seq(CwrRecord) /\ Len(s1 \o s2) = Len(s1) + Len(s2)
        /\ \A p \in 1..Len(s1) : (s1 \o s2)[p] = s1[p]
        /\ \A p \in 1..Len(s2) : (s1 \o s2)[Len(s1) + p] = s2[p]
    <3>1. s1 \in Seq(CwrRecord) /\ s2 \in Seq(CwrRecord)
      BY <1>6
    <3> QED BY <3>1, Concat
  <2> QED BY <1>5, <1>6, <2>1
<1>9. \A p \in 1..Len(s) : \/ p = 1 /\ s[p] = swr
                           \/ p = 2 /\ HasPublisher(works[i], j) /\ s[p] = pwr
  BY <1>8
<1>10. \A p \in 1..Len(s) : s[p].k \in {"SWR", "PWR"} /\ s[p].seq = i /\ s[p].n = j
  BY <1>7, <1>9
<1>11. Refers(s, works)
  <2> SUFFICES ASSUME NEW p \in 1..Len(s)
       PROVE /\ s[p].k = "SWR" =>
                   /\ s[p].seq \in 1..Len(works)
                   /\ s[p].n \in 1..Len(works[s[p].seq].writers)
                   /\ s[p].role = RoleCode(works[s[p].seq].writers[s[p].n].role)
                   /\ s[p].society = OptCode(works[s[p].seq].writers[s[p].n].society)
                   /\ s[p].controlled = works[s[p].seq].writers[s[p].n].controlled
             /\ s[p].k = "PWR" =>
                   /\ p - 1 \in 1..Len(s)
                   /\ s[p - 1].k = "SWR" /\ s[p - 1].n = s[p].n /\ s[p - 1].seq = s[p].seq
                   /\ works[s[p].seq].writers[s[p].n].controlled
    BY DEF Refers
  <2>1. CASE p = 1 /\ s[p] = swr
    BY <1>7, <2>1
  <2>2. CASE p = 2 /\ HasPublisher(works[i], j) /\ s[p] = pwr
    <3>1. 2 - 1 = 1 /\ 1 \in 1..Len(s)
      BY <1>8, <2>2
    <3> QED BY <1>7, <1>8, <2>2, <3>1 DEF HasPublisher
  <2> QED BY <1>9, <2>1, <2>2
<1>12. InOrder(s)
  BY <1>7, <1>9 DEF InOrder
<1>13. Count(s, Own("SWR", i)) = 1
  <2>1. \A p \in DOMAIN s : s[p] \in Own("SWR", i) <=> p = 1
    <3>1. swr \in Own("SWR", i) /\ pwr \notin Own("SWR", i)
      BY <1>3, <1>7 DEF Own
    <3>2. DOMAIN s = 1..Len(s)
      BY <1>8
    <3> QED BY <1>9, <3>1, <3>2
  <2>2. 1 \in DOMAIN s
    BY <1>8
  <2>3. {p \in DOMAIN s : s[p] \in Own("SWR", i)} = {1}
    BY <2>1, <2>2
  <2> QED BY <2>3, FS_Singleton DEF Count
<1> QED BY <1>8, <1>10, <1>11, <1>12, <1>13 DEF WriterPart

\* The records of the first j writers.
FirstWriters(s, works, i, j) ==
    /\ s \in Seq(CwrRecord)
    /\ Len(s) = j + Cardinality({x \in 1..j : HasPublisher(works[i], x)})
    /\ \A p \in 1..Len(s) : s[p].k \in {"SWR", "PWR"} /\ s[p].seq = i /\ s[p].n \in 1..j
    /\ Refers(s, works)
    /\ InOrder(s)
    /\ Count(s, Own("SWR", i)) = j

\* Before the first writer there are no records.
LEMMA NoWriterYet ==
    ASSUME NEW works, NEW i
    PROVE  FirstWriters(<<>>, works, i, 0)
<1> DEFINE s == <<>>
<1>1. s \in Seq(CwrRecord) /\ Len(s) = 0 /\ 1..0 = {} /\ DOMAIN s = {}
  OBVIOUS
<1> HIDE DEF s
<1>2. Cardinality({x \in 1..0 : HasPublisher(works[i], x)}) = 0
  <2>1. {x \in 1..0 : HasPublisher(works[i], x)} = {}
    BY <1>1
  <2> QED BY <2>1, FS_EmptySet
<1>3. Count(s, Own("SWR", i)) = 0
  BY <1>1, CountNone
<1>4. FirstWriters(s, works, i, 0)
  BY <1>1, <1>2, <1>3 DEF FirstWriters, Refers, InOrder
<1> QED BY <1>4 DEF s

\* The next writer's records go after those of the writers before.
LEMMA OneMoreWriter ==
    ASSUME NEW works \in Seq(Work), NEW i \in 1..Len(works),
           NEW j \in 0..(Len(works[i].writers) - 1),
           NEW s, FirstWriters(s, works, i, j)
    PROVE  FirstWriters(s \o WriterRecords(i, works[i], j + 1), works, i, j + 1)
<1> DEFINE t == WriterRecords(i, works[i], j + 1)
<1>1. /\ j \in Nat /\ Len(works[i].writers) \in Nat
      /\ j + 1 \in 1..Len(works[i].writers) /\ i \in Nat
  BY WorkParts
<1>2. /\ t \in Seq(CwrRecord)
      /\ Len(t) = IF HasPublisher(works[i], j + 1) THEN 2 ELSE 1
      /\ \A p \in 1..Len(t) : t[p].k \in {"SWR", "PWR"} /\ t[p].seq = i /\ t[p].n = j + 1
      /\ Refers(t, works) /\ InOrder(t)
      /\ Count(t, Own("SWR", i)) = 1
  <2>1. t = WriterRecords(i, works[i], j + 1)
    OBVIOUS
  <2> HIDE DEF t
  <2>2. PICK k \in 1..Len(works[i].writers) : k = j + 1
    BY <1>1
  <2>3. t = WriterRecords(i, works[i], k)
    BY <2>1, <2>2
  <2>4. WriterPart(t, works, i, k)
    BY <2>3, OneWriter
  <2> QED BY <2>2, <2>4 DEF WriterPart
<1> HIDE DEF t
<1>3. /\ s \in Seq(CwrRecord)
      /\ Len(s) = j + Cardinality({x \in 1..j : HasPublisher(works[i], x)})
      /\ \A p \in 1..Len(s) : s[p].k \in {"SWR", "PWR"} /\ s[p].seq = i /\ s[p].n \in 1..j
      /\ Refers(s, works) /\ InOrder(s)
      /\ Count(s, Own("SWR", i)) = j
  BY DEF FirstWriters
<1>4. /\ s \o t \in Seq(CwrRecord)
      /\ Len(s) \in Nat /\ Len(t) \in Nat /\ Len(s \o t) = Len(s) + Len(t)
      /\ \A p \in 1..Len(s) : (s \o t)[p] = s[p]
      /\ \A p \in 1..Len(t) : (s \o t)[Len(s) + p] = t[p]
  <2>1. s \in Seq(CwrRecord) /\ t \in Seq(CwrRecord)
    BY <1>2, <1>3
  <2> HIDE <1>2, <1>3
  <2> QED BY <2>1, Concat
<1>5. Len(s \o t) = (j + 1) + Cardinality({x \in 1..(j + 1) : HasPublisher(works[i], x)})
  <2> DEFINE S == {x \in 1..j : HasPublisher(works[i], x)}
  <2>1. IsFiniteSet(S) /\ Cardinality(S) \in Nat
    <3>1. IsFiniteSet(1..j)
      BY <1>1, FS_Interval
    <3> HIDE <1>3
    <3>2. IsFiniteSet(S)
      BY <3>1, FS_Subset
    <3> QED BY <3>2, FS_CardinalityType
  <2>2. j + 1 \notin S
    BY <1>1
  <2>3. {x \in 1..(j + 1) : HasPublisher(works[i], x)}
           = IF HasPublisher(works[i], j + 1) THEN S \cup {j + 1} ELSE S
    <3>1. 1..(j + 1) = 1..j \cup {j + 1}
      BY <1>1
    <3> QED BY <3>1
  <2> HIDE DEF S
  <2>4. Cardinality(S \cup {j + 1}) = Cardinality(S) + 1
    BY <2>1, <2>2, FS_AddElement
  <2>5. Len(s) = j + Cardinality(S)
    BY <1>3 DEF S
  <2>6. CASE HasPublisher(works[i], j + 1)
    <3>1. Len(t) = 2
      BY <1>2, <2>6
    <3>2. Cardinality({x \in 1..(j + 1) : HasPublisher(works[i], x)}) = Cardinality(S) + 1
      BY <2>3, <2>4, <2>6
    <3> QED BY <1>1, <1>4, <2>1, <2>5, <3>1, <3>2
  <2>7. CASE ~ HasPublisher(works[i], j + 1)
    <3>1. Len(t) = 1
      BY <1>2, <2>7
    <3>2. Cardinality({x \in 1..(j + 1) : HasPublisher(works[i], x)}) = Cardinality(S)
      BY <2>3, <2>7
    <3> QED BY <1>1, <1>4, <2>1, <2>5, <3>1, <3>2
  <2> QED BY <2>6, <2>7
<1>6. \A p \in 1..Len(s \o t) :
         (s \o t)[p].k \in {"SWR", "PWR"} /\ (s \o t)[p].seq = i /\ (s \o t)[p].n \in 1..(j + 1)
  <2> SUFFICES ASSUME NEW p \in 1..(Len(s) + Len(t))
               PROVE  /\ (s \o t)[p].k \in {"SWR", "PWR"} /\ (s \o t)[p].seq = i
                      /\ (s \o t)[p].n \in 1..(j + 1)
    BY <1>4
  <2>1. CASE p \in 1..Len(s)
    <3>1. s[p].n \in 1..(j + 1)
      <4>1. s[p].n \in 1..j
        BY <1>3, <2>1
      <4>2. 1..j \subseteq 1..(j + 1)
        BY <1>1
      <4> QED BY <4>1, <4>2
    <3> QED BY <1>3, <1>4, <2>1, <3>1
  <2>2. CASE p \notin 1..Len(s)
    <3>1. p - Len(s) \in 1..Len(t) /\ Len(s) + (p - Len(s)) = p
      BY <1>4, <2>2
    <3>2. (s \o t)[p] = t[p - Len(s)]
      BY <1>4, <3>1
    <3>3. j + 1 \in 1..(j + 1)
      BY <1>1
    <3> QED BY <1>2, <3>1, <3>2, <3>3
  <2> QED BY <2>1, <2>2
<1>7. Refers(s \o t, works)
  BY <1>2, <1>3, RefersConcat
<1>8. InOrder(s \o t)
  <2>1. \A p \in 1..Len(s), q \in 1..Len(t) : Before(s[p], t[q])
    <3> SUFFICES ASSUME NEW p \in 1..Len(s), NEW q \in 1..Len(t)
                 PROVE  Before(s[p], t[q])
      OBVIOUS
    <3>1. s[p].seq = i /\ t[q].seq = i /\ s[p].n \in 1..j /\ t[q].n = j + 1
      BY <1>2, <1>3
    <3> QED BY <1>1, <3>1 DEF Before
  <2> QED BY <1>2, <1>3, <2>1, InOrderConcat
<1>9. Count(s \o t, Own("SWR", i)) = j + 1
  BY <1>2, <1>3, CountConcat
<1> QED BY <1>4, <1>5, <1>6, <1>7, <1>8, <1>9 DEF FirstWriters, t

\* The records of all the writers of a work.
LEMMA AllWriters ==
    ASSUME NEW works \in Seq(Work), NEW i \in 1..Len(works)
    PROVE  FirstWriters(FlattenSeq(Times(Len(works[i].writers),
                                         LAMBDA j : WriterRecords(i, works[i], j))),
                        works, i, Len(works[i].writers))
<1> DEFINE n == Len(works[i].writers)
           seqs == [j \in 1..n |-> WriterRecords(i, works[i], j)]
<1>1. n \in Nat
  BY WorkParts
<1>2. \A j \in 1..n : WriterRecords(i, works[i], j) \in Seq(CwrRecord)
  BY OneWriter DEF WriterPart
<1>3. seqs \in Seq(Seq(CwrRecord)) /\ Len(seqs) = n
      /\ \A j \in 1..n : seqs[j] = WriterRecords(i, works[i], j)
  <2> HIDE DEF n
  <2>1. seqs \in [1..n -> Seq(CwrRecord)]
    BY <1>2
  <2>2. \A j \in 1..n : seqs[j] = WriterRecords(i, works[i], j)
    OBVIOUS
  <2> HIDE DEF seqs
  <2> QED BY <1>1, <2>1, <2>2, Listed
<1> HIDE DEF seqs
<1>4. PICK pre : Assembled(pre, seqs, CwrRecord)
  BY <1>3, PrefixesExist
<1> DEFINE Good == {j \in 0..n : FirstWriters(pre[j], works, i, j)}
<1>5. 0 \in Good
  BY <1>1, <1>4, NoWriterYet DEF Assembled
<1>6. \A j \in 0..(n - 1) : j \in Good => j + 1 \in Good
  <2> SUFFICES ASSUME NEW j \in 0..(n - 1), j \in Good
               PROVE  j + 1 \in Good
    OBVIOUS
  <2>1. FirstWriters(pre[j], works, i, j)
    OBVIOUS
  <2>2. FirstWriters(pre[j] \o WriterRecords(i, works[i], j + 1), works, i, j + 1)
    BY <2>1, OneMoreWriter
  <2>3. j + 1 \in 1..n /\ (j + 1) - 1 = j /\ j + 1 \in 0..n
    BY <1>1
  <2>4. pre[j + 1] = pre[j] \o WriterRecords(i, works[i], j + 1)
    <3> HIDE DEF n
    <3> QED BY <1>3, <1>4, <2>3 DEF Assembled
  <2> QED BY <2>2, <2>3, <2>4
<1>7. n \in Good
  <2> HIDE DEF Good, n
  <2>1. \A j \in 0..n : j \in Good
    BY <1>1, <1>5, <1>6, UpTo
  <2> QED BY <1>1, <2>1
<1>8. FlattenSeq(seqs) = pre[n]
  <2> HIDE DEF n
  <2> QED BY <1>3, <1>4, Flattened
<1> QED BY <1>7, <1>8 DEF Times, seqs

-----------------------------------------------------------------------------
(* The records of a work *)

WorkKinds == {"NWR", "SPU", "SWR", "PWR", "ALT", "PER", "REC", "ORN"}

\* Records of the i-th work: how many there are, and how many of some kinds.
Part(s, i, works, all, nwr, spu, swr, orn) ==
    /\ s \in Seq(CwrRecord)
    /\ Len(s) = all
    /\ \A p \in 1..Len(s) : s[p].k \in WorkKinds /\ s[p].seq = i
    /\ Refers(s, works)
    /\ InOrder(s)
    /\ Count(s, Kind("NWR")) = nwr
    /\ Count(s, Own("SPU", i)) = spu
    /\ Count(s, Own("SWR", i)) = swr
    /\ Count(s, Own("ORN", i)) = orn

\* What counts zero holds none.
LEMMA CountIsZero ==
    ASSUME NEW U, NEW s \in Seq(U), NEW K, Count(s, K) = 0
    PROVE  \A p \in 1..Len(s) : s[p] \notin K
<1> DEFINE In == {p \in DOMAIN s : s[p] \in K}
<1>1. DOMAIN s = 1..Len(s) /\ Len(s) \in Nat
  BY Concat
<1>2. IsFiniteSet(1..Len(s))
  BY <1>1, FS_Interval
<1>3. IsFiniteSet(In)
  BY <1>1, <1>2, FS_Subset
<1>4. In = {}
  <2> HIDE DEF In
  <2> QED BY <1>3, FS_EmptySet DEF Count, In
<1> QED BY <1>1, <1>4

\* Two parts of a work's records, of which one holds no writers.
LEMMA PartConcat ==
    ASSUME NEW works, NEW i \in Nat, NEW s, NEW t,
           NEW all, NEW nwr, NEW spu, NEW swr, NEW orn,
           NEW all2, NEW nwr2, NEW spu2, NEW swr2, NEW orn2,
           Part(s, i, works, all, nwr, spu, swr, orn),
           Part(t, i, works, all2, nwr2, spu2, swr2, orn2),
           swr = 0 \/ swr2 = 0
    PROVE  Part(s \o t, i, works, all + all2, nwr + nwr2, spu + spu2, swr + swr2, orn + orn2)
<1>1. s \in Seq(CwrRecord) /\ t \in Seq(CwrRecord)
  BY DEF Part
<1>2. /\ s \o t \in Seq(CwrRecord)
      /\ Len(s) \in Nat /\ Len(t) \in Nat /\ Len(s \o t) = Len(s) + Len(t)
      /\ \A p \in 1..Len(s) : (s \o t)[p] = s[p]
      /\ \A p \in 1..Len(t) : (s \o t)[Len(s) + p] = t[p]
  BY <1>1, Concat
<1>3. \A p \in 1..Len(s \o t) : (s \o t)[p].k \in WorkKinds /\ (s \o t)[p].seq = i
  <2> SUFFICES ASSUME NEW p \in 1..(Len(s) + Len(t))
               PROVE  (s \o t)[p].k \in WorkKinds /\ (s \o t)[p].seq = i
    BY <1>2
  <2>1. CASE p \in 1..Len(s)
    BY <1>2, <2>1 DEF Part
  <2>2. CASE p \notin 1..Len(s)
    <3>1. p - Len(s) \in 1..Len(t) /\ Len(s) + (p - Len(s)) = p
      BY <1>2, <2>2
    <3>2. (s \o t)[p] = t[p - Len(s)]
      BY <1>2, <3>1
    <3> QED BY <3>1, <3>2 DEF Part
  <2> QED BY <2>1, <2>2
<1>4. Refers(s \o t, works)
  BY <1>1, RefersConcat DEF Part
<1>5. InOrder(s \o t)
  <2>1. ASSUME swr = 0, NEW p \in 1..Len(s) PROVE s[p].k # "SWR"
    <3>1. s[p] \notin Own("SWR", i)
      BY <1>1, <2>1, CountIsZero DEF Part
    <3>2. s[p] \in CwrRecord /\ s[p].seq = i
      BY <1>1 DEF Part
    <3> QED BY <3>1, <3>2 DEF Own
  <2>2. ASSUME swr2 = 0, NEW p \in 1..Len(t) PROVE t[p].k # "SWR"
    <3>1. t[p] \notin Own("SWR", i)
      BY <1>1, <2>2, CountIsZero DEF Part
    <3>2. t[p] \in CwrRecord /\ t[p].seq = i
      BY <1>1 DEF Part
    <3> QED BY <3>1, <3>2 DEF Own
  <2>3. InOrder(s) /\ InOrder(t)
    BY DEF Part
  <2> QED BY <1>1, <2>1, <2>2, <2>3, InOrderConcat
<1>6. \A K : Count(s \o t, K) = Count(s, K) + Count(t, K)
  BY <1>1, CountConcat
<1> QED BY <1>2, <1>3, <1>4, <1>5, <1>6 DEF Part

\* Records of one kind.
LEMMA UniformPart ==
    ASSUME NEW works, NEW i \in Nat, NEW kind \in WorkKinds \ {"SWR", "PWR"},
           NEW s \in Seq(CwrRecord), \A p \in 1..Len(s) : s[p].k = kind /\ s[p].seq = i
    PROVE  Part(s, i, works, Len(s), IF kind = "NWR" THEN Len(s) ELSE 0,
                IF kind = "SPU" THEN Len(s) ELSE 0, 0, IF kind = "ORN" THEN Len(s) ELSE 0)
<1>1. \A p \in 1..Len(s) : s[p] \in CwrRecord
  OBVIOUS
<1>2. Refers(s, works) /\ InOrder(s)
  BY DEF Refers, InOrder, WorkKinds
<1>3. Count(s, Kind("NWR")) = IF kind = "NWR" THEN Len(s) ELSE 0
  <2>1. kind = "NWR" => \A p \in 1..Len(s) : s[p] \in Kind("NWR")
    BY <1>1 DEF Kind
  <2>2. kind # "NWR" => \A p \in 1..Len(s) : s[p] \notin Kind("NWR")
    BY DEF Kind
  <2> QED BY <2>1, <2>2, CountAll, CountNone
<1>4. \A x : Count(s, Own(x, i)) = IF kind = x THEN Len(s) ELSE 0
  <2> SUFFICES ASSUME NEW x PROVE Count(s, Own(x, i)) = IF kind = x THEN Len(s) ELSE 0
    OBVIOUS
  <2>1. kind = x => \A p \in 1..Len(s) : s[p] \in Own(x, i)
    BY <1>1 DEF Own
  <2>2. kind # x => \A p \in 1..Len(s) : s[p] \notin Own(x, i)
    BY DEF Own
  <2> QED BY <2>1, <2>2, CountAll, CountNone
<1>5. \A p \in 1..Len(s) : s[p].k \in WorkKinds /\ s[p].seq = i
  OBVIOUS
<1> QED BY <1>2, <1>3, <1>4, <1>5 DEF Part

\* A part of n records that are all of one kind.
LEMMA TimesPart ==
    ASSUME NEW works, NEW i \in Nat, NEW kind \in WorkKinds \ {"SWR", "PWR"},
           NEW n \in Nat, NEW s, DOMAIN s = 1..n, s = [j \in 1..n |-> s[j]],
           \A j \in 1..n : s[j] \in CwrRecord /\ s[j].k = kind /\ s[j].seq = i
    PROVE  Part(s, i, works, n, IF kind = "NWR" THEN n ELSE 0,
                IF kind = "SPU" THEN n ELSE 0, 0, IF kind = "ORN" THEN n ELSE 0)
<1>1. s \in [1..n -> CwrRecord]
  OBVIOUS
<1>2. s \in Seq(CwrRecord) /\ Len(s) = n
  BY <1>1, Listed
<1> QED BY <1>2, UniformPart

\* The writers' part.
LEMMA WritersPart ==
    ASSUME NEW works \in Seq(Work), NEW i \in 1..Len(works)
    PROVE  Part(FlattenSeq(Times(Len(works[i].writers),
                                 LAMBDA j : WriterRecords(i, works[i], j))), i, works,
                Len(works[i].writers)
                  + Cardinality({x \in DOMAIN works[i].writers :
                                   works[i].writers[x].controlled /\ works[i].publishers # <<>>}),
                0, 0, Len(works[i].writers), 0)
<1> DEFINE s == FlattenSeq(Times(Len(works[i].writers), LAMBDA j : WriterRecords(i, works[i], j)))
<1>1. FirstWriters(s, works, i, Len(works[i].writers))
  BY AllWriters
<1> HIDE DEF s
<1>2. /\ s \in Seq(CwrRecord) /\ Refers(s, works) /\ InOrder(s)
      /\ \A p \in 1..Len(s) : s[p].k \in {"SWR", "PWR"} /\ s[p].seq = i
      /\ Count(s, Own("SWR", i)) = Len(works[i].writers)
  BY <1>1 DEF FirstWriters
<1>3. Len(s) = Len(works[i].writers)
                 + Cardinality({x \in DOMAIN works[i].writers :
                                  works[i].writers[x].controlled /\ works[i].publishers # <<>>})
  <2>1. DOMAIN works[i].writers = 1..Len(works[i].writers)
    BY WorkParts
  <2> QED BY <1>1, <2>1 DEF FirstWriters, HasPublisher
<1>4. Count(s, Kind("NWR")) = 0
  <2>1. \A p \in 1..Len(s) : s[p] \notin Kind("NWR")
    BY <1>2 DEF Kind
  <2> QED BY <1>2, <2>1, CountNone
<1>5. Count(s, Own("SPU", i)) = 0 /\ Count(s, Own("ORN", i)) = 0
  <2>1. \A p \in 1..Len(s) : s[p] \notin Own("SPU", i) /\ s[p] \notin Own("ORN", i)
    BY <1>2 DEF Own
  <2> QED BY <1>2, <2>1, CountNone
<1>6. \A p \in 1..Len(s) : s[p].k \in WorkKinds /\ s[p].seq = i
  BY <1>2 DEF WorkKinds
<1>7. Part(s, i, works, Len(works[i].writers)
                + Cardinality({x \in DOMAIN works[i].writers :
                                 works[i].writers[x].controlled /\ works[i].publishers # <<>>}),
           0, 0, Len(works[i].writers), 0)
  BY <1>2, <1>3, <1>4, <1>5, <1>6 DEF Part
<1> QED BY <1>7 DEF s

\* The sum of seven lengths, as the parts are put together.
LEMMA LengthsAddUp ==
    ASSUME NEW a \in Nat, NEW b \in Nat, NEW c \in Nat, NEW d \in Nat, NEW e \in Nat,
           NEW f \in Nat, NEW g \in Nat, NEW x, NEW y, x = 1 + a + (b + c), y = x + d + e + f
    PROVE  y + g = 1 + a + b + c + d + e + f + g /\ y + g \in Nat
  OBVIOUS

\* The records of a work are as many as it adds to record_count, with one NWR and a
\* record for each publisher, writer and territory.
LEMMA WorkBlock ==
    ASSUME NEW works \in Seq(Work), NEW i \in 1..Len(works)
    PROVE  /\ Part(WorkRecords(i, works[i]), i, works, Counted(works[i]), 1,
                   Len(works[i].publishers), Len(works[i].writers), Len(works[i].territories))
           /\ Counted(works[i]) \in Nat
<1> DEFINE w == works[i]
           pw == Cardinality({x \in DOMAIN w.writers :
                                w.writers[x].controlled /\ w.publishers # <<>>})
           s1 == <<[k |-> "NWR", seq |-> i]>>
           s2 == [j \in 1..Len(w.publishers) |->
                    [k |-> "SPU", seq |-> i, n |-> j, society |-> OptCode(w.publishers[j].society)]]
           s3 == FlattenSeq(Times(Len(w.writers), LAMBDA j : WriterRecords(i, w, j)))
           s4 == [j \in 1..w.titles |-> [k |-> "ALT", seq |-> i]]
           s5 == [j \in 1..w.artists |-> [k |-> "PER", seq |-> i]]
           s6 == IF w.recording THEN <<[k |-> "REC", seq |-> i]>> ELSE <<>>
           s7 == [j \in 1..Len(w.territories) |->
                    [k |-> "ORN", seq |-> i, tis |-> TisCode(w.territories[j]),
                     society |-> CwrCode(w.society)]]
<1>0. WorkRecords(i, w) = s1 \o s2 \o s3 \o s4 \o s5 \o s6 \o s7
  BY DEF WorkRecords, Times
<1>t. /\ i \in Nat /\ w.publishers \in Seq(Publisher) /\ w.territories \in Seq(TerritoryScope)
      /\ w.society \in STRING /\ w.titles \in Nat /\ w.artists \in Nat /\ w.recording \in BOOLEAN
      /\ Len(w.writers) \in Nat /\ Len(w.publishers) \in Nat /\ Len(w.territories) \in Nat
      /\ DOMAIN w.writers = 1..Len(w.writers)
  BY WorkParts
<1>p. pw \in Nat
  <2>1. IsFiniteSet(DOMAIN w.writers)
    <3>1. IsFiniteSet(1..Len(w.writers))
      BY <1>t, FirstNumbers
    <3> QED BY <1>t, <3>1
  <2> DEFINE S == {x \in DOMAIN w.writers : w.writers[x].controlled /\ w.publishers # <<>>}
  <2>2. IsFiniteSet(S)
    BY <2>1, FS_Subset
  <2> HIDE DEF S
  <2>3. Cardinality(S) \in Nat
    BY <2>2, FS_CardinalityType
  <2> QED BY <2>3 DEF S
<1>1. Part(s1, i, works, 1, 1, 0, 0, 0)
  <2>1. [k |-> "NWR", seq |-> i] \in CwrRecord
    BY <1>t DEF CwrRecord
  <2>2. s1 \in Seq(CwrRecord) /\ Len(s1) = 1
        /\ \A p \in 1..Len(s1) : s1[p].k = "NWR" /\ s1[p].seq = i
    BY <2>1
  <2> HIDE DEF s1
  <2>3. "NWR" \in WorkKinds \ {"SWR", "PWR"}
    BY DEF WorkKinds
  <2>4. Part(s1, i, works, Len(s1), IF "NWR" = "NWR" THEN Len(s1) ELSE 0,
             IF "NWR" = "SPU" THEN Len(s1) ELSE 0, 0, IF "NWR" = "ORN" THEN Len(s1) ELSE 0)
    BY <1>t, <2>2, <2>3, UniformPart
  <2> QED BY <2>2, <2>4
<1>2. Part(s2, i, works, Len(w.publishers), 0, Len(w.publishers), 0, 0)
  <2>1. \A j \in 1..Len(w.publishers) :
           s2[j] \in CwrRecord /\ s2[j].k = "SPU" /\ s2[j].seq = i
    <3> SUFFICES ASSUME NEW j \in 1..Len(w.publishers)
                 PROVE  s2[j] \in CwrRecord /\ s2[j].k = "SPU" /\ s2[j].seq = i
      OBVIOUS
    <3>1. w.publishers[j].society \in STRING /\ j \in Nat
      <4>1. w.publishers[j] \in Publisher
        BY <1>t
      <4> QED BY <4>1 DEF Publisher
    <3>2. OptCode(w.publishers[j].society) \in {OptCode(x) : x \in STRING}
      BY <3>1
    <3>3. s2[j] = [k |-> "SPU", seq |-> i, n |-> j, society |-> OptCode(w.publishers[j].society)]
      OBVIOUS
    <3> HIDE DEF s2, w
    <3> QED BY <1>t, <3>1, <3>2, <3>3 DEF CwrRecord
  <2>2. DOMAIN s2 = 1..Len(w.publishers) /\ s2 = [j \in 1..Len(w.publishers) |-> s2[j]]
    OBVIOUS
  <2> HIDE DEF s2, w
  <2>3. "SPU" \in WorkKinds \ {"SWR", "PWR"}
    BY DEF WorkKinds
  <2>4. Part(s2, i, works, Len(w.publishers), IF "SPU" = "NWR" THEN Len(w.publishers) ELSE 0,
             IF "SPU" = "SPU" THEN Len(w.publishers) ELSE 0, 0,
             IF "SPU" = "ORN" THEN Len(w.publishers) ELSE 0)
    BY <1>t, <2>1, <2>2, <2>3, TimesPart
  <2> QED BY <2>4
<1>3. Part(s3, i, works, Len(w.writers) + pw, 0, 0, Len(w.writers), 0)
  BY WritersPart
<1>4. Part(s4, i, works, w.titles, 0, 0, 0, 0)
  <2>1. \A j \in 1..w.titles : s4[j] \in CwrRecord /\ s4[j].k = "ALT" /\ s4[j].seq = i
    BY <1>t DEF CwrRecord
  <2>2. DOMAIN s4 = 1..w.titles /\ s4 = [j \in 1..w.titles |-> s4[j]]
    OBVIOUS
  <2> HIDE DEF s4, w
  <2>3. "ALT" \in WorkKinds \ {"SWR", "PWR"}
    BY DEF WorkKinds
  <2>4. Part(s4, i, works, w.titles, IF "ALT" = "NWR" THEN w.titles ELSE 0,
             IF "ALT" = "SPU" THEN w.titles ELSE 0, 0, IF "ALT" = "ORN" THEN w.titles ELSE 0)
    BY <1>t, <2>1, <2>2, <2>3, TimesPart
  <2> QED BY <2>4
<1>5. Part(s5, i, works, w.artists, 0, 0, 0, 0)
  <2>1. \A j \in 1..w.artists : s5[j] \in CwrRecord /\ s5[j].k = "PER" /\ s5[j].seq = i
    BY <1>t DEF CwrRecord
  <2>2. DOMAIN s5 = 1..w.artists /\ s5 = [j \in 1..w.artists |-> s5[j]]
    OBVIOUS
  <2> HIDE DEF s5, w
  <2>3. "PER" \in WorkKinds \ {"SWR", "PWR"}
    BY DEF WorkKinds
  <2>4. Part(s5, i, works, w.artists, IF "PER" = "NWR" THEN w.artists ELSE 0,
             IF "PER" = "SPU" THEN w.artists ELSE 0, 0, IF "PER" = "ORN" THEN w.artists ELSE 0)
    BY <1>t, <2>1, <2>2, <2>3, TimesPart
  <2> QED BY <2>4
<1>6. Part(s6, i, works, IF w.recording THEN 1 ELSE 0, 0, 0, 0, 0)
  <2>1. [k |-> "REC", seq |-> i] \in CwrRecord
    BY <1>t DEF CwrRecord
  <2>2. s6 \in Seq(CwrRecord) /\ Len(s6) = (IF w.recording THEN 1 ELSE 0)
        /\ \A p \in 1..Len(s6) : s6[p].k = "REC" /\ s6[p].seq = i
    <3> HIDE DEF w
    <3> QED BY <2>1
  <2> HIDE DEF s6, w
  <2>3. "REC" \in WorkKinds \ {"SWR", "PWR"}
    BY DEF WorkKinds
  <2>4. Part(s6, i, works, Len(s6), IF "REC" = "NWR" THEN Len(s6) ELSE 0,
             IF "REC" = "SPU" THEN Len(s6) ELSE 0, 0, IF "REC" = "ORN" THEN Len(s6) ELSE 0)
    BY <1>t, <2>2, <2>3, UniformPart
  <2> QED BY <2>2, <2>4
<1>7. Part(s7, i, works, Len(w.territories), 0, 0, 0, Len(w.territories))
  <2>1. \A j \in 1..Len(w.territories) :
           s7[j] \in CwrRecord /\ s7[j].k = "ORN" /\ s7[j].seq = i
    <3> SUFFICES ASSUME NEW j \in 1..Len(w.territories)
                 PROVE  s7[j] \in CwrRecord /\ s7[j].k = "ORN" /\ s7[j].seq = i
      OBVIOUS
    <3>1. w.territories[j] \in TerritoryScope
      BY <1>t
    <3>2. /\ TisCode(w.territories[j]) \in {TisCode(x) : x \in TerritoryScope}
          /\ CwrCode(w.society) \in {CwrCode(x) : x \in STRING}
      BY <1>t, <3>1
    <3>3. s7[j] = [k |-> "ORN", seq |-> i, tis |-> TisCode(w.territories[j]),
                   society |-> CwrCode(w.society)]
      OBVIOUS
    <3> HIDE DEF s7, w
    <3> QED BY <1>t, <3>2, <3>3 DEF CwrRecord
  <2>2. DOMAIN s7 = 1..Len(w.territories) /\ s7 = [j \in 1..Len(w.territories) |-> s7[j]]
    OBVIOUS
  <2> HIDE DEF s7, w
  <2>3. "ORN" \in WorkKinds \ {"SWR", "PWR"}
    BY DEF WorkKinds
  <2>4. Part(s7, i, works, Len(w.territories), IF "ORN" = "NWR" THEN Len(w.territories) ELSE 0,
             IF "ORN" = "SPU" THEN Len(w.territories) ELSE 0, 0,
             IF "ORN" = "ORN" THEN Len(w.territories) ELSE 0)
    BY <1>t, <2>1, <2>2, <2>3, TimesPart
  <2> QED BY <2>4
<1>c. Counted(w) = 1 + Len(w.publishers) + Len(w.writers) + pw + w.titles + w.artists
                     + (IF w.recording THEN 1 ELSE 0) + Len(w.territories)
  BY DEF Counted
<1> HIDE DEF w, pw, s1, s2, s3, s4, s5, s6, s7
<1>8. Part(s1 \o s2, i, works, 1 + Len(w.publishers), 1, Len(w.publishers), 0, 0)
  <2>1. Part(s1 \o s2, i, works, 1 + Len(w.publishers), 1 + 0, 0 + Len(w.publishers), 0 + 0, 0 + 0)
    BY <1>t, <1>1, <1>2, PartConcat
  <2> QED BY <1>t, <2>1
<1>9. Part(s1 \o s2 \o s3, i, works, 1 + Len(w.publishers) + (Len(w.writers) + pw), 1,
           Len(w.publishers), Len(w.writers), 0)
  <2>1. Part(s1 \o s2 \o s3, i, works, (1 + Len(w.publishers)) + (Len(w.writers) + pw), 1 + 0,
             Len(w.publishers) + 0, 0 + Len(w.writers), 0 + 0)
    BY <1>t, <1>8, <1>3, PartConcat
  <2> QED BY <1>t, <2>1
<1> DEFINE l3 == 1 + Len(w.publishers) + (Len(w.writers) + pw)
<1> HIDE DEF l3
<1>10. Part(s1 \o s2 \o s3 \o s4, i, works, l3 + w.titles, 1,
            Len(w.publishers), Len(w.writers), 0)
  <2>1. Part(s1 \o s2 \o s3 \o s4, i, works, l3 + w.titles, 1 + 0,
             Len(w.publishers) + 0, Len(w.writers) + 0, 0 + 0)
    BY <1>t, <1>9, <1>4, PartConcat DEF l3
  <2> QED BY <1>t, <2>1
<1>11. Part(s1 \o s2 \o s3 \o s4 \o s5, i, works, l3 + w.titles + w.artists, 1,
            Len(w.publishers), Len(w.writers), 0)
  <2>1. Part(s1 \o s2 \o s3 \o s4 \o s5, i, works, l3 + w.titles + w.artists, 1 + 0,
             Len(w.publishers) + 0, Len(w.writers) + 0, 0 + 0)
    BY <1>t, <1>10, <1>5, PartConcat
  <2> QED BY <1>t, <2>1
<1> DEFINE l6 == l3 + w.titles + w.artists + (IF w.recording THEN 1 ELSE 0)
<1> HIDE DEF l6
<1>12. Part(s1 \o s2 \o s3 \o s4 \o s5 \o s6, i, works, l6, 1,
            Len(w.publishers), Len(w.writers), 0)
  <2>1. Part(s1 \o s2 \o s3 \o s4 \o s5 \o s6, i, works,
             (l3 + w.titles + w.artists) + (IF w.recording THEN 1 ELSE 0), 1 + 0,
             Len(w.publishers) + 0, Len(w.writers) + 0, 0 + 0)
    BY <1>t, <1>11, <1>6, PartConcat
  <2> QED BY <1>t, <2>1 DEF l6
<1>13. Part(s1 \o s2 \o s3 \o s4 \o s5 \o s6 \o s7, i, works, l6 + Len(w.territories), 1,
            Len(w.publishers), Len(w.writers), Len(w.territories))
  <2>1. Part(s1 \o s2 \o s3 \o s4 \o s5 \o s6 \o s7, i, works, l6 + Len(w.territories), 1 + 0,
             Len(w.publishers) + 0, Len(w.writers) + 0, 0 + Len(w.territories))
    BY <1>t, <1>12, <1>7, PartConcat
  <2> QED BY <1>t, <2>1
<1>14. Counted(w) = l6 + Len(w.territories) /\ Counted(w) \in Nat
  <2> DEFINE a == Len(w.publishers)
             b == Len(w.writers)
             d == w.titles
             e == w.artists
             f == IF w.recording THEN 1 ELSE 0
             g == Len(w.territories)
  <2>1. l3 = 1 + a + (b + pw) /\ l6 = l3 + d + e + f
    BY DEF l3, l6
  <2>2. Counted(w) = 1 + a + b + pw + d + e + f + g
    BY <1>c
  <2>3. a \in Nat /\ b \in Nat /\ d \in Nat /\ e \in Nat /\ f \in Nat /\ g \in Nat
    BY <1>t
  <2> HIDE DEF a, b, d, e, f, g
  <2>4. l6 + g = 1 + a + b + pw + d + e + f + g /\ l6 + g \in Nat
    BY <1>p, <2>1, <2>3, LengthsAddUp
  <2> QED BY <2>2, <2>4 DEF g
<1> QED BY <1>0, <1>13, <1>14 DEF w

-----------------------------------------------------------------------------
(* The file *)

\* The count kept in the trailers is a sum over the works.
Counts(works) == [i \in DOMAIN works |-> Counted(works[i])]

\* record_count, which the code adds up work by work.
LEMMA CountIsASum ==
    ASSUME NEW works \in Seq(Work)
    PROVE  RecordCount(works) = SumOver(Counts(works), DOMAIN works)
<1> DEFINE D == DOMAIN works
           Body(iter) == [s \in SUBSET D |->
                            IF s = {} THEN 0 ELSE Counted(works[PickOf(s)]) + iter[Rest(s)]]
           h  == [s \in SUBSET D |-> SumIter(Counts(works), D)[s]]
           it == CHOOSE iter : iter = Body(iter)
<1>0. IsFiniteSet(D)
  <2>1. D = 1..Len(works) /\ Len(works) \in Nat
    BY Concat
  <2> HIDE DEF D
  <2> QED BY <2>1, FirstNumbers
<1>1. RecordCount(works) = it[D]
  BY DEF RecordCount, FoldSeq, FoldFunction, FoldFunctionOnSet, MapThenFoldSet, PickOf, Rest
<1>2. Computes(SumIter(Counts(works), D), Counts(works), D)
  <2> HIDE DEF D
  <2> QED BY <1>0, IterationExists
<1>c. \A x \in D : Counts(works)[x] = Counted(works[x])
  BY DEF Counts
<1> HIDE DEF D
<1>3. h = Body(h)
  <2>1. \A s \in SUBSET D :
           h[s] = IF s = {} THEN 0 ELSE Counted(works[PickOf(s)]) + h[Rest(s)]
    <3> SUFFICES ASSUME NEW s \in SUBSET D
                 PROVE  h[s] = IF s = {} THEN 0 ELSE Counted(works[PickOf(s)]) + h[Rest(s)]
      OBVIOUS
    <3>1. s # {} => PickOf(s) \in D /\ Rest(s) \in SUBSET D
      BY PickIsIn DEF Rest
    <3>2. s # {} => Counts(works)[PickOf(s)] = Counted(works[PickOf(s)])
      BY <1>c, <3>1
    <3> QED BY <1>2, <3>1, <3>2 DEF Computes
  <2>2. h = [s \in SUBSET D |-> h[s]]
    OBVIOUS
  <2> HIDE DEF h
  <2> QED BY <2>1, <2>2
<1>4. it = Body(it)
  <2> HIDE DEF h
  <2> QED BY <1>3
<1>5. Computes(it, Counts(works), D)
  <2>1. \A s \in SUBSET D : s # {} => Counts(works)[PickOf(s)] = Counted(works[PickOf(s)])
    BY <1>c, PickIsIn
  <2> HIDE DEF it
  <2>2. \A s \in SUBSET D :
           it[s] = IF s = {} THEN 0 ELSE Counted(works[PickOf(s)]) + it[Rest(s)]
    BY <1>4
  <2> QED BY <2>1, <2>2 DEF Computes
<1> HIDE DEF it
<1>6. it[D] = SumIter(Counts(works), D)[D]
  BY <1>0, <1>2, <1>5, IterationIsUnique
<1> QED BY <1>1, <1>6, SumIsIteration DEF D

\* The records of the first m works.
FirstWorks(s, works, m) ==
    /\ s \in Seq(CwrRecord)
    /\ Len(s) = SumOver(Counts(works), 1..m)
    /\ \A p \in 1..Len(s) : s[p].k \in WorkKinds /\ s[p].seq \in 1..m
    /\ Refers(s, works)
    /\ InOrder(s)
    /\ Count(s, Kind("NWR")) = m
    /\ \A i \in 1..Len(works) :
          /\ Count(s, Own("SPU", i)) = IF i <= m THEN Len(works[i].publishers) ELSE 0
          /\ Count(s, Own("SWR", i)) = IF i <= m THEN Len(works[i].writers) ELSE 0
          /\ Count(s, Own("ORN", i)) = IF i <= m THEN Len(works[i].territories) ELSE 0

\* Before the first work there are no records.
LEMMA NoWorkYet ==
    ASSUME NEW works
    PROVE  FirstWorks(<<>>, works, 0)
<1> DEFINE s == <<>>
<1>1. s \in Seq(CwrRecord) /\ Len(s) = 0 /\ 1..0 = {} /\ DOMAIN s = {}
  OBVIOUS
<1> HIDE DEF s
<1>2. \A K : Count(s, K) = 0
  BY <1>1, CountNone
<1>3. SumOver(Counts(works), 1..0) = 0
  BY <1>1, SumEmpty
<1>4. \A i \in 1..Len(works) : ~ (i <= 0)
  OBVIOUS
<1>5. FirstWorks(s, works, 0)
  BY <1>1, <1>2, <1>3, <1>4 DEF FirstWorks, Refers, InOrder
<1> QED BY <1>5 DEF s

\* What the records of one work add to the records of each.
LEMMA OwnRecords ==
    ASSUME NEW t \in Seq(CwrRecord), NEW j, \A p \in 1..Len(t) : t[p].seq = j,
           NEW i, i # j, NEW x
    PROVE  Count(t, Own(x, i)) = 0
<1>1. \A p \in 1..Len(t) : t[p] \notin Own(x, i)
  BY DEF Own
<1> QED BY <1>1, CountNone

\* The next work's records go after those of the works before.
LEMMA OneMoreWork ==
    ASSUME NEW works \in Seq(Work), NEW m \in 0..(Len(works) - 1),
           NEW s, FirstWorks(s, works, m)
    PROVE  FirstWorks(s \o WorkRecords(m + 1, works[m + 1]), works, m + 1)
<1> DEFINE j == m + 1
           t == WorkRecords(j, works[j])
<1>1. m \in Nat /\ Len(works) \in Nat /\ j \in 1..Len(works) /\ j \in Nat /\ m < j
  OBVIOUS
<1>d. \A i \in 1..Len(works) : (i <= j <=> i <= m \/ i = j) /\ (i = j => ~ (i <= m))
  BY <1>1
<1>j. 1..j = 1..m \cup {j} /\ j \notin 1..m /\ \A n \in 1..m : n \in 1..j /\ n < j
  BY <1>1
<1>v. j = m + 1
  OBVIOUS
<1> HIDE DEF j
<1>2. /\ Part(t, j, works, Counted(works[j]), 1, Len(works[j].publishers),
              Len(works[j].writers), Len(works[j].territories))
      /\ Counted(works[j]) \in Nat
  <2> HIDE DEF t
  <2> QED BY <1>1, WorkBlock DEF t
<1> HIDE DEF t
<1>3. s \in Seq(CwrRecord) /\ t \in Seq(CwrRecord)
  BY <1>2 DEF FirstWorks, Part
<1>4. /\ s \o t \in Seq(CwrRecord)
      /\ Len(s) \in Nat /\ Len(t) \in Nat /\ Len(s \o t) = Len(s) + Len(t)
      /\ \A p \in 1..Len(s) : (s \o t)[p] = s[p]
      /\ \A p \in 1..Len(t) : (s \o t)[Len(s) + p] = t[p]
  BY <1>3, Concat
<1>5. Len(s \o t) = SumOver(Counts(works), 1..j)
  <2>1. IsFiniteSet(1..m)
    BY <1>1, FirstNumbers
  <2>2. \A n \in 1..m \cup {j} : Counts(works)[n] \in Int
    <3>1. \A n \in 1..Len(works) : Counted(works[n]) \in Nat
      BY WorkBlock
    <3>2. 1..m \cup {j} \subseteq 1..Len(works)
      BY <1>1
    <3>3. DOMAIN works = 1..Len(works)
      OBVIOUS
    <3>4. \A n \in 1..Len(works) : Counts(works)[n] = Counted(works[n])
      BY <3>3 DEF Counts
    <3> QED BY <3>1, <3>2, <3>4
  <2>3. SumOver(Counts(works), 1..m \cup {j}) = Counts(works)[j] + SumOver(Counts(works), 1..m)
    BY <1>j, <2>1, <2>2, SumInsert
  <2>4. Counts(works)[j] = Counted(works[j])
    <3>1. j \in DOMAIN works
      BY <1>1, Concat
    <3> QED BY <3>1 DEF Counts
  <2>5. Len(t) = Counted(works[j]) /\ Len(s) = SumOver(Counts(works), 1..m)
    BY <1>2 DEF FirstWorks, Part
  <2>6. Len(s \o t) = Len(s) + Len(t)
    BY <1>4
  <2>7. Len(s) + Len(t) = Len(t) + Len(s)
    BY <1>4
  <2> QED BY <1>j, <2>3, <2>4, <2>5, <2>6, <2>7
<1>6. \A p \in 1..Len(s \o t) : (s \o t)[p].k \in WorkKinds /\ (s \o t)[p].seq \in 1..j
  <2> SUFFICES ASSUME NEW p \in 1..(Len(s) + Len(t))
               PROVE  (s \o t)[p].k \in WorkKinds /\ (s \o t)[p].seq \in 1..j
    BY <1>4
  <2>1. CASE p \in 1..Len(s)
    <3>1. s[p].k \in WorkKinds /\ s[p].seq \in 1..m
      BY <2>1 DEF FirstWorks
    <3> QED BY <1>4, <1>j, <2>1, <3>1
  <2>2. CASE p \notin 1..Len(s)
    <3>1. p - Len(s) \in 1..Len(t) /\ Len(s) + (p - Len(s)) = p
      BY <1>4, <2>2
    <3>2. (s \o t)[p] = t[p - Len(s)]
      BY <1>4, <3>1
    <3>3. t[p - Len(s)].k \in WorkKinds /\ t[p - Len(s)].seq = j
      BY <1>2, <3>1 DEF Part
    <3> QED BY <1>j, <3>2, <3>3
  <2> QED BY <2>1, <2>2
<1>7. Refers(s \o t, works)
  BY <1>2, <1>3, RefersConcat DEF FirstWorks, Part
<1>8. InOrder(s \o t)
  <2>1. \A p \in 1..Len(s), q \in 1..Len(t) : Before(s[p], t[q])
    <3> SUFFICES ASSUME NEW p \in 1..Len(s), NEW q \in 1..Len(t)
                 PROVE  Before(s[p], t[q])
      OBVIOUS
    <3>1. s[p].seq \in 1..m
      BY DEF FirstWorks
    <3>2. t[q].seq = j
      BY <1>2 DEF Part
    <3> QED BY <1>j, <3>1, <3>2 DEF Before
  <2>2. InOrder(s) /\ InOrder(t)
    BY <1>2 DEF FirstWorks, Part
  <2> QED BY <1>3, <2>1, <2>2, InOrderConcat
<1>c. \A K : Count(s \o t, K) = Count(s, K) + Count(t, K) /\ Count(s, K) \in Nat /\ Count(t, K) \in Nat
  BY <1>3, CountConcat
<1>9. Count(s \o t, Kind("NWR")) = j
  <2>1. Count(s, Kind("NWR")) = m /\ Count(t, Kind("NWR")) = 1
    BY <1>2 DEF FirstWorks, Part
  <2> QED BY <1>c, <1>v, <2>1
<1>10. ASSUME NEW i \in 1..Len(works)
       PROVE  /\ Count(s \o t, Own("SPU", i)) = IF i <= j THEN Len(works[i].publishers) ELSE 0
              /\ Count(s \o t, Own("SWR", i)) = IF i <= j THEN Len(works[i].writers) ELSE 0
              /\ Count(s \o t, Own("ORN", i)) = IF i <= j THEN Len(works[i].territories) ELSE 0
  <2> DEFINE a == Len(works[i].publishers)
             b == Len(works[i].writers)
             d == Len(works[i].territories)
  <2>1. /\ Count(s, Own("SPU", i)) = IF i <= m THEN a ELSE 0
        /\ Count(s, Own("SWR", i)) = IF i <= m THEN b ELSE 0
        /\ Count(s, Own("ORN", i)) = IF i <= m THEN d ELSE 0
    BY DEF FirstWorks
  <2>2. CASE i = j
    <3>1. /\ Count(t, Own("SPU", i)) = a /\ Count(t, Own("SWR", i)) = b
          /\ Count(t, Own("ORN", i)) = d
      BY <1>2, <2>2 DEF Part
    <3> HIDE DEF a, b, d
    <3> QED BY <1>c, <1>d, <2>1, <2>2, <3>1 DEF a, b, d
  <2>3. CASE i # j
    <3>1. \A p \in 1..Len(t) : t[p].seq = j
      BY <1>2 DEF Part
    <3>2. \A x : Count(t, Own(x, i)) = 0
      BY <1>3, <2>3, <3>1, OwnRecords
    <3>3. \A x : Count(s \o t, Own(x, i)) = Count(s, Own(x, i))
      BY <1>c, <3>2
    <3>4. i <= j <=> i <= m
      BY <1>d, <2>3
    <3> QED BY <2>1, <3>3, <3>4
  <2> QED BY <2>2, <2>3
<1>11. FirstWorks(s \o t, works, j)
  BY <1>4, <1>5, <1>6, <1>7, <1>8, <1>9, <1>10 DEF FirstWorks
<1> QED BY <1>11 DEF t, j

\* The records of all the works of a batch.
LEMMA AllWorks ==
    ASSUME NEW works \in Seq(Work)
    PROVE  FirstWorks(FlattenSeq(Times(Len(works), LAMBDA i : WorkRecords(i, works[i]))),
                      works, Len(works))
<1> DEFINE n == Len(works)
           seqs == [i \in 1..n |-> WorkRecords(i, works[i])]
<1>1. n \in Nat
  OBVIOUS
<1>2. \A i \in 1..n : WorkRecords(i, works[i]) \in Seq(CwrRecord)
  BY WorkBlock DEF Part
<1>3. seqs \in Seq(Seq(CwrRecord)) /\ Len(seqs) = n
      /\ \A i \in 1..n : seqs[i] = WorkRecords(i, works[i])
  <2> HIDE DEF n
  <2>1. seqs \in [1..n -> Seq(CwrRecord)]
    BY <1>2
  <2>2. \A i \in 1..n : seqs[i] = WorkRecords(i, works[i])
    OBVIOUS
  <2> HIDE DEF seqs
  <2> QED BY <1>1, <2>1, <2>2, Listed
<1> HIDE DEF seqs
<1>4. PICK pre : Assembled(pre, seqs, CwrRecord)
  BY <1>3, PrefixesExist
<1> DEFINE Good == {m \in 0..n : FirstWorks(pre[m], works, m)}
<1>5. 0 \in Good
  BY <1>1, <1>4, NoWorkYet DEF Assembled
<1>6. \A m \in 0..(n - 1) : m \in Good => m + 1 \in Good
  <2> SUFFICES ASSUME NEW m \in 0..(n - 1), m \in Good
               PROVE  m + 1 \in Good
    OBVIOUS
  <2>1. FirstWorks(pre[m], works, m)
    OBVIOUS
  <2>2. FirstWorks(pre[m] \o WorkRecords(m + 1, works[m + 1]), works, m + 1)
    BY <2>1, OneMoreWork
  <2>3. m + 1 \in 1..n /\ (m + 1) - 1 = m /\ m + 1 \in 0..n
    BY <1>1
  <2>4. pre[m + 1] = pre[m] \o WorkRecords(m + 1, works[m + 1])
    <3> HIDE DEF n
    <3> QED BY <1>3, <1>4, <2>3 DEF Assembled
  <2> QED BY <2>2, <2>3, <2>4
<1>7. n \in Good
  <2> HIDE DEF Good, n
  <2>1. \A m \in 0..n : m \in Good
    BY <1>1, <1>5, <1>6, UpTo
  <2> QED BY <1>1, <2>1
<1>8. FlattenSeq(seqs) = pre[n]
  <2> HIDE DEF n
  <2> QED BY <1>3, <1>4, Flattened
<1> QED BY <1>7, <1>8 DEF Times, seqs

\* A file has a record for each publisher, writer and territory of each work.
OwnCounts(file, works) ==
    \A i \in 1..Len(works) :
       /\ Count(file, Own("SPU", i)) = Len(works[i].publishers)
       /\ Count(file, Own("SWR", i)) = Len(works[i].writers)
       /\ Count(file, Own("ORN", i)) = Len(works[i].territories)

\* What a file holds.
LEMMA CwrFile ==
    ASSUME NEW works \in Seq(Work), NEW file, file = GenerateCwr(works, "02.20")
    PROVE  /\ file \in Seq(CwrRecord)
           /\ RecordCount(works) \in Nat /\ Len(file) = RecordCount(works) + 4
           /\ file[Len(file)] = [k |-> "TRL", txns |-> Len(works), recs |-> RecordCount(works) + 4]
           /\ file[Len(file) - 1] = [k |-> "GRT", txns |-> Len(works), recs |-> RecordCount(works) + 2]
           /\ Refers(file, works) /\ InOrder(file)
           /\ Count(file, Kind("NWR")) = Len(works)
           /\ OwnCounts(file, works)
<1> DEFINE n == RecordCount(works)
           hdr == [k |-> "HDR", version |-> "02.20"]
           grh == [k |-> "GRH", version |-> "02.20"]
           grt == [k |-> "GRT", txns |-> Len(works), recs |-> n + 2]
           trl == [k |-> "TRL", txns |-> Len(works), recs |-> n + 4]
           head == <<hdr, grh>>
           body == FlattenSeq(Times(Len(works), LAMBDA i : WorkRecords(i, works[i])))
           tail == <<grt, trl>>
<1>1. file = (head \o body) \o tail
  BY DEF GenerateCwr
<1>2. FirstWorks(body, works, Len(works))
  BY AllWorks
<1>l. Len(works) \in Nat /\ DOMAIN works = 1..Len(works)
  OBVIOUS
<1> HIDE DEF body
<1>3. n = Len(body) /\ n \in Nat
  <2>1. body \in Seq(CwrRecord) /\ Len(body) = SumOver(Counts(works), 1..Len(works))
    BY <1>2 DEF FirstWorks
  <2>2. Len(body) \in Nat
    BY <2>1
  <2> QED BY <1>l, <2>1, <2>2, CountIsASum
<1> HIDE DEF n
<1>4. hdr \in CwrRecord /\ grh \in CwrRecord /\ grt \in CwrRecord /\ trl \in CwrRecord
  <2>1. hdr \in CwrRecord /\ grh \in CwrRecord
    BY DEF CwrRecord
  <2>2. grt \in CwrRecord /\ trl \in CwrRecord
    BY <1>3, <1>l DEF CwrRecord
  <2> QED BY <2>1, <2>2
<1>5. hdr.k = "HDR" /\ grh.k = "GRH" /\ grt.k = "GRT" /\ trl.k = "TRL"
  OBVIOUS
<1> HIDE DEF hdr, grh, grt, trl
<1>6. /\ head \in Seq(CwrRecord) /\ Len(head) = 2 /\ tail \in Seq(CwrRecord) /\ Len(tail) = 2
      /\ \A p \in 1..Len(head) : head[p].k \in {"HDR", "GRH"}
      /\ \A p \in 1..Len(tail) : tail[p].k \in {"GRT", "TRL"}
      /\ tail[1] = grt /\ tail[2] = trl
  BY <1>4, <1>5
<1> HIDE DEF head, tail
<1>7. body \in Seq(CwrRecord)
  BY <1>2 DEF FirstWorks
<1>8. /\ Refers(head, works) /\ InOrder(head) /\ Refers(tail, works) /\ InOrder(tail)
  BY <1>6 DEF Refers, InOrder
<1>9. /\ head \o body \in Seq(CwrRecord) /\ Len(head \o body) = 2 + n
      /\ Refers(head \o body, works) /\ InOrder(head \o body)
  <2>1. head \o body \in Seq(CwrRecord) /\ Len(head \o body) = Len(head) + Len(body)
    <3>1. head \in Seq(CwrRecord)
      BY <1>6
    <3> QED BY <1>7, <3>1, Concat
  <2>2. Refers(head \o body, works)
    BY <1>2, <1>6, <1>7, <1>8, RefersConcat DEF FirstWorks
  <2>3. InOrder(head \o body)
    <3>1. InOrder(body)
      BY <1>2 DEF FirstWorks
    <3>2. \A p \in 1..Len(head) : head[p].k # "SWR"
      BY <1>6
    <3> QED BY <1>6, <1>7, <1>8, <3>1, <3>2, InOrderConcat
  <2> QED BY <1>3, <1>6, <2>1, <2>2, <2>3
<1>10. /\ file \in Seq(CwrRecord) /\ Len(file) = n + 4
       /\ file[n + 3] = grt /\ file[n + 4] = trl
       /\ Refers(file, works) /\ InOrder(file)
  <2>1. /\ file \in Seq(CwrRecord) /\ Len(file) = Len(head \o body) + Len(tail)
        /\ \A p \in 1..Len(tail) : file[Len(head \o body) + p] = tail[p]
    <3>1. head \o body \in Seq(CwrRecord) /\ tail \in Seq(CwrRecord)
      BY <1>6, <1>9
    <3> DEFINE z == head \o body
    <3> HIDE DEF z
    <3>2. file = z \o tail /\ z \in Seq(CwrRecord)
      BY <1>1, <3>1 DEF z
    <3>c. /\ z \o tail \in Seq(CwrRecord) /\ Len(z \o tail) = Len(z) + Len(tail)
          /\ \A p \in 1..Len(tail) : (z \o tail)[Len(z) + p] = tail[p]
      BY <3>1, <3>2, Concat
    <3>3. /\ file \in Seq(CwrRecord) /\ Len(file) = Len(z) + Len(tail)
          /\ \A p \in 1..Len(tail) : file[Len(z) + p] = tail[p]
      BY <3>2, <3>c
    <3> QED BY <3>3 DEF z
  <2>2. 1 \in 1..Len(tail) /\ 2 \in 1..Len(tail)
    BY <1>6
  <2>3. file[Len(head \o body) + 1] = grt /\ file[Len(head \o body) + 2] = trl
    BY <1>6, <2>1, <2>2
  <2>4. Len(head \o body) + 1 = n + 3 /\ Len(head \o body) + 2 = n + 4
        /\ Len(head \o body) + Len(tail) = n + 4
    BY <1>3, <1>6, <1>9
  <2>5. Refers(file, works)
    BY <1>1, <1>6, <1>8, <1>9, RefersConcat
  <2>6. InOrder(file)
    <3>1. \A p \in 1..Len(tail) : tail[p].k # "SWR"
      BY <1>6
    <3> QED BY <1>1, <1>6, <1>8, <1>9, <3>1, InOrderConcat
  <2> QED BY <2>1, <2>3, <2>4, <2>5, <2>6
<1>11. ASSUME NEW K, \A r \in K : r.k \in {"NWR", "SPU", "SWR", "ORN"}
       PROVE  Count(file, K) = Count(body, K)
  <2>1. Count(head, K) = 0 /\ Count(tail, K) = 0
    <3>1. \A p \in 1..Len(head) : head[p] \notin K
      BY <1>6, <1>11
    <3>2. \A p \in 1..Len(tail) : tail[p] \notin K
      BY <1>6, <1>11
    <3> QED BY <1>6, <3>1, <3>2, CountNone
  <2>2. Count(head \o body, K) = Count(head, K) + Count(body, K) /\ Count(body, K) \in Nat
    BY <1>6, <1>7, CountConcat
  <2>3. Count(file, K) = Count(head \o body, K) + Count(tail, K)
    <3>1. head \o body \in Seq(CwrRecord) /\ tail \in Seq(CwrRecord)
      BY <1>6, <1>9
    <3> DEFINE z == head \o body
    <3> HIDE DEF z
    <3>2. file = z \o tail /\ z \in Seq(CwrRecord)
      BY <1>1, <3>1 DEF z
    <3>3. Count(z \o tail, K) = Count(z, K) + Count(tail, K)
      <4>1. z \in Seq(CwrRecord) /\ tail \in Seq(CwrRecord)
        BY <3>1, <3>2
      <4> HIDE <3>1, <3>2
      <4> QED BY <4>1, CountConcat
    <3> QED BY <3>2, <3>3 DEF z
  <2> QED BY <2>1, <2>2, <2>3
<1>12. Count(file, Kind("NWR")) = Len(works)
  <2>1. \A r \in Kind("NWR") : r.k \in {"NWR", "SPU", "SWR", "ORN"}
    BY DEF Kind
  <2>2. Count(body, Kind("NWR")) = Len(works)
    BY <1>2 DEF FirstWorks
  <2> QED BY <1>11, <2>1, <2>2
<1>13. ASSUME NEW i \in 1..Len(works)
       PROVE  /\ Count(file, Own("SPU", i)) = Len(works[i].publishers)
              /\ Count(file, Own("SWR", i)) = Len(works[i].writers)
              /\ Count(file, Own("ORN", i)) = Len(works[i].territories)
  <2>1. \A x \in {"SPU", "SWR", "ORN"} :
           \A r \in Own(x, i) : r.k \in {"NWR", "SPU", "SWR", "ORN"}
    BY DEF Own
  <2>2. \A x \in {"SPU", "SWR", "ORN"} : Count(file, Own(x, i)) = Count(body, Own(x, i))
    BY <1>11, <2>1
  <2>3. i <= Len(works)
    BY <1>l
  <2>4. /\ Count(body, Own("SPU", i)) = Len(works[i].publishers)
        /\ Count(body, Own("SWR", i)) = Len(works[i].writers)
        /\ Count(body, Own("ORN", i)) = Len(works[i].territories)
    BY <1>2, <2>3 DEF FirstWorks
  <2> QED BY <2>2, <2>4
<1>14. file[Len(file)] = trl /\ file[Len(file) - 1] = grt
  <2>1. Len(file) = n + 4 /\ Len(file) - 1 = n + 3
    BY <1>3, <1>10
  <2> QED BY <1>10, <2>1
<1>15. Len(file) = n + 4 /\ n \in Nat
  BY <1>3, <1>10
<1>16. OwnCounts(file, works)
  BY <1>13 DEF OwnCounts
<1> QED BY <1>10, <1>12, <1>14, <1>15, <1>16 DEF n, trl, grt

\* In particular, the records of one work.
LEMMA CwrCounts ==
    ASSUME NEW works \in Seq(Work), NEW file, file = GenerateCwr(works, "02.20"),
           NEW i \in 1..Len(works)
    PROVE  /\ Count(file, Own("SPU", i)) = Len(works[i].publishers)
           /\ Count(file, Own("SWR", i)) = Len(works[i].writers)
           /\ Count(file, Own("ORN", i)) = Len(works[i].territories)
<1>1. OwnCounts(file, works)
  BY CwrFile
<1> QED BY <1>1 DEF OwnCounts

\* Indices of records of a kind are what Count counts.
LEMMA KindsAreCounted ==
    ASSUME NEW file \in Seq(CwrRecord), NEW x, NEW i
    PROVE  /\ Cardinality(OfKind(file, x)) = Count(file, Kind(x))
           /\ Cardinality(OwnOf(file, x, i)) = Count(file, Own(x, i))
<1>1. \A p \in DOMAIN file : file[p] \in CwrRecord
  OBVIOUS
<1>2. OfKind(file, x) = {p \in DOMAIN file : file[p] \in Kind(x)}
  BY <1>1 DEF OfKind, Kind
<1>3. OwnOf(file, x, i) = {p \in DOMAIN file : file[p] \in Own(x, i)}
  BY <1>1 DEF OfKind, OwnOf, Own
<1> QED BY <1>2, <1>3 DEF Count

\* The trailers of a CWR file count what is in it.
LEMMA TrailersAddUp ==
    ASSUME NEW works \in Seq(Work), NEW file, file = GenerateCwr(works, "02.20")
    PROVE  TrailersCountTheRecords(file, works)
<1>1. /\ file \in Seq(CwrRecord)
      /\ RecordCount(works) \in Nat /\ Len(file) = RecordCount(works) + 4
      /\ file[Len(file)] = [k |-> "TRL", txns |-> Len(works), recs |-> RecordCount(works) + 4]
      /\ file[Len(file) - 1] = [k |-> "GRT", txns |-> Len(works), recs |-> RecordCount(works) + 2]
      /\ Refers(file, works) /\ Count(file, Kind("NWR")) = Len(works)
  BY CwrFile
<1>2. Cardinality(OfKind(file, "NWR")) = Len(works)
  BY <1>1, KindsAreCounted
<1>3. file[Len(file) - 1].recs = Len(file) - 2
  <2>1. file[Len(file) - 1].recs = RecordCount(works) + 2
    BY <1>1
  <2>2. RecordCount(works) + 2 = Len(file) - 2
    BY <1>1
  <2> QED BY <2>1, <2>2
<1>4. ASSUME NEW p \in OfKind(file, "PWR")
      PROVE  /\ file[p - 1].k = "SWR" /\ file[p - 1].n = file[p].n /\ file[p - 1].seq = file[p].seq
             /\ works[file[p].seq].writers[file[p].n].controlled
  <2>1. p \in 1..Len(file) /\ file[p].k = "PWR"
    BY <1>1 DEF OfKind
  <2> QED BY <1>1, <2>1 DEF Refers
<1>5. file[Len(file)]
        = [k |-> "TRL", txns |-> Cardinality(OfKind(file, "NWR")), recs |-> Len(file)]
  BY <1>1, <1>2
<1> QED BY <1>3, <1>4, <1>5 DEF TrailersCountTheRecords

\* A tuple of five is a sequence of them.
LEMMA FiveOfThem ==
    ASSUME NEW S, NEW a \in S, NEW b \in S, NEW c \in S, NEW d \in S, NEW e \in S
    PROVE  <<a, b, c, d, e>> \in Seq(S)
OBVIOUS

\* The territories of the Nordic file.
LEMMA FiveCountries == Nordic \in Seq(TerritoryScope)
<1>1. /\ "SE" \in TerritoryScope /\ "NO" \in TerritoryScope /\ "DK" \in TerritoryScope
      /\ "FI" \in TerritoryScope /\ "IS" \in TerritoryScope
  BY IsoAssumption DEF TerritoryScope
<1>2. <<"SE", "NO", "DK", "FI", "IS">> \in Seq(TerritoryScope)
  BY <1>1, FiveOfThem
<1> QED BY <1>2 DEF Nordic

\* So do those of the two CWR files that generate_all_submissions makes: the Nordic
\* one has other territories and the same writers.
LEMMA FilesAddUp ==
    ASSUME NEW works \in Seq(Work), NEW f \in GenerateAllSubmissions(works),
           f.format \in {"Cwr22", "NordicBlock"}
    PROVE  TrailersCountTheRecords(f.payload, works)
<1>1. \/ f.payload = GenerateCwr(works, "02.20")
      \/ f.payload = NordicBlock(works)
  BY DEF GenerateAllSubmissions
<1>2. CASE f.payload = GenerateCwr(works, "02.20")
  BY <1>2, TrailersAddUp
<1>3. CASE f.payload = NordicBlock(works)
  <2> DEFINE nordic == [i \in DOMAIN works |-> [works[i] EXCEPT !.territories = Nordic]]
  <2>1. DOMAIN works = 1..Len(works) /\ Len(works) \in Nat
    OBVIOUS
  <2>n. Nordic \in Seq(TerritoryScope)
    BY FiveCountries
  <2>2. ASSUME NEW i \in 1..Len(works)
        PROVE  nordic[i] \in Work /\ nordic[i].writers = works[i].writers
    <3>1. works[i] \in Work
      OBVIOUS
    <3>3. nordic[i] = [works[i] EXCEPT !.territories = Nordic]
      BY <2>1
    <3> HIDE DEF nordic
    <3> QED BY <2>n, <3>1, <3>3 DEF Work
  <2>3. nordic \in Seq(Work) /\ Len(nordic) = Len(works)
    <3>1. nordic = [i \in 1..Len(works) |-> nordic[i]]
      BY <2>1
    <3> HIDE DEF nordic
    <3>2. nordic \in [1..Len(works) -> Work]
      BY <2>2, <3>1
    <3> QED BY <2>1, <3>2, Listed
  <2>4. f.payload = GenerateCwr(nordic, "02.20")
    BY <1>3 DEF NordicBlock
  <2> HIDE DEF nordic
  <2> DEFINE file == f.payload
  <2>5. TrailersCountTheRecords(file, nordic) /\ Refers(file, nordic) /\ file \in Seq(CwrRecord)
    BY <2>3, <2>4, TrailersAddUp, CwrFile
  <2> HIDE DEF file
  <2>6. ASSUME NEW p \in OfKind(file, "PWR")
        PROVE  works[file[p].seq].writers[file[p].n].controlled
    <3>1. p \in 1..Len(file) /\ file[p].k = "PWR"
      BY <2>5 DEF OfKind
    <3>2. /\ p - 1 \in 1..Len(file) /\ file[p - 1].k = "SWR"
          /\ file[p - 1].seq = file[p].seq
          /\ nordic[file[p].seq].writers[file[p].n].controlled
      BY <2>5, <3>1 DEF Refers
    <3>3. file[p].seq \in 1..Len(works)
      BY <2>3, <2>5, <3>2 DEF Refers
    <3> QED BY <2>2, <3>2, <3>3
  <2>7. TrailersCountTheRecords(file, works)
    BY <2>5, <2>6 DEF TrailersCountTheRecords
  <2> QED BY <2>7 DEF file
<1> QED BY <1>1, <1>2, <1>3

\* An honest answer about a batch has the property.
LEMMA HonestFilesAddUp == ASSUME Honest PROVE CwrFilesAddUp
<1> SUFFICES ASSUME answer.asked = "submit", NEW f \in answer.files,
                    f.format \in {"Cwr22", "NordicBlock"}
             PROVE  TrailersCountTheRecords(f.payload, answer.works)
  BY DEF CwrFilesAddUp
<1>1. PICK works \in Batches :
         answer = [asked |-> "submit", works |-> works, files |-> GenerateAllSubmissions(works)]
  BY DEF Honest
<1>2. answer.works = works /\ f \in GenerateAllSubmissions(works) /\ works \in Seq(Work)
  BY <1>1, DeskAssumption
<1> QED BY <1>2, FilesAddUp

\* For every batch of works, the transaction and record counts in the trailers of
\* the CWR files, kept in counters beside the records, are those of the file, and a
\* publisher's record follows the controlled writer it refers to.
THEOREM TrailersCountTheFiles == DeskSpec => []CwrFilesAddUp
<1> QED BY AnswersAreHonest, HonestFilesAddUp, PTL

-----------------------------------------------------------------------------
(* The XML *)

\* What a style sheet gives back is the XML of the works.
LEMMA TransformedIsCanonical ==
    ASSUME NEW slug, NEW works, TransformSubmission(slug, works).status = "ok"
    PROVE  TransformSubmission(slug, works).xml = ToCanonicalXml(works)
<1> DEFINE sheet == ResolveSociety(slug)
           xml   == ToCanonicalXml(works)
           out   == ApplyXslt(xml, sheet)
<1> HIDE DEF sheet, xml
<1>1. TransformSubmission(slug, works)
        = CASE sheet = None -> [status |-> "not_found", xml |-> <<>>]
            [] sheet # None /\ ~ out.ok -> [status |-> "internal_error", xml |-> <<>>]
            [] OTHER -> [status |-> "ok", xml |-> out.xml]
  BY DEF TransformSubmission, sheet, xml
<1>2. out.ok => out.xml = xml
  BY DEF ApplyXslt
<1> HIDE DEF out
<1>3. TransformSubmission(slug, works).xml = xml
  BY <1>1, <1>2
<1> QED BY <1>3 DEF xml

\* The CWR records of a work and its XML.
LEMMA XmlIsOfTheWorks ==
    ASSUME NEW works \in Seq(Work), NEW i \in DOMAIN works,
           NEW file, file = GenerateCwr(works, "02.20"),
           NEW xml, xml = ToCanonicalXml(works)[i]
    PROVE  /\ SameWriters(file, i, xml.writers)
           /\ Cardinality(OwnOf(file, "SPU", i)) = Len(xml.publishers)
           /\ Cardinality(OwnOf(file, "ORN", i)) = Len(xml.territories)
<1> DEFINE w == works[i]
<1>1. i \in 1..Len(works)
  OBVIOUS
<1>2. xml = XmlWork(w)
  BY DEF ToCanonicalXml
<1>3. /\ w.writers \in Seq(Writer) /\ w.publishers \in Seq(Publisher)
      /\ w.territories \in Seq(TerritoryScope)
      /\ Len(w.writers) \in Nat /\ Len(w.publishers) \in Nat /\ Len(w.territories) \in Nat
  BY <1>1, WorkParts
<1>4. /\ file \in Seq(CwrRecord) /\ Refers(file, works) /\ InOrder(file)
      /\ Count(file, Own("SPU", i)) = Len(w.publishers)
      /\ Count(file, Own("SWR", i)) = Len(w.writers)
      /\ Count(file, Own("ORN", i)) = Len(w.territories)
  <2>1. file \in Seq(CwrRecord) /\ Refers(file, works) /\ InOrder(file)
    BY CwrFile
  <2>2. /\ Count(file, Own("SPU", i)) = Len(works[i].publishers)
        /\ Count(file, Own("SWR", i)) = Len(works[i].writers)
        /\ Count(file, Own("ORN", i)) = Len(works[i].territories)
    BY <1>1, CwrCounts
  <2> QED BY <2>1, <2>2
<1> HIDE DEF w
<1>d. /\ DOMAIN w.writers = 1..Len(w.writers) /\ DOMAIN w.publishers = 1..Len(w.publishers)
      /\ DOMAIN w.territories = 1..Len(w.territories)
  BY <1>3
<1>5. /\ xml.writers = [j \in 1..Len(w.writers) |-> XmlWriter(w, w.writers[j])]
      /\ xml.publishers = [j \in 1..Len(w.publishers) |-> XmlPublisher(w.publishers[j])]
      /\ xml.territories = [j \in 1..Len(w.territories) |-> TisCode(w.territories[j])]
  BY <1>2, <1>d DEF XmlWork
<1>6. /\ Len(xml.writers) = Len(w.writers) /\ DOMAIN xml.writers = 1..Len(w.writers)
      /\ Len(xml.publishers) = Len(w.publishers)
      /\ Len(xml.territories) = Len(w.territories)
  BY <1>3, <1>5
<1>7. ASSUME NEW p \in OwnOf(file, "SWR", i)
      PROVE  /\ file[p].n \in DOMAIN xml.writers
             /\ xml.writers[file[p].n] = [role |-> file[p].role, society |-> file[p].society,
                                          controlled |-> file[p].controlled]
             /\ \A q \in OwnOf(file, "SWR", i) : p < q => file[p].n < file[q].n
  <2>1. \A q \in OwnOf(file, "SWR", i) :
           q \in 1..Len(file) /\ file[q].k = "SWR" /\ file[q].seq = i
    BY <1>4 DEF OwnOf, OfKind
  <2>2. /\ file[p].n \in 1..Len(w.writers)
        /\ file[p].role = RoleCode(w.writers[file[p].n].role)
        /\ file[p].society = OptCode(w.writers[file[p].n].society)
        /\ file[p].controlled = w.writers[file[p].n].controlled
    <3>1. p \in 1..Len(file) /\ file[p].k = "SWR" /\ file[p].seq = i
      BY <2>1
    <3>2. Refers(file, works)
      BY <1>4
    <3> QED BY <3>1, <3>2 DEF Refers, w
  <2>3. xml.writers[file[p].n] = XmlWriter(w, w.writers[file[p].n])
    BY <1>5, <2>2
  <2>4. xml.writers[file[p].n] = [role |-> file[p].role, society |-> file[p].society,
                                  controlled |-> file[p].controlled]
    BY <2>2, <2>3 DEF XmlWriter
  <2>5. ASSUME NEW q \in OwnOf(file, "SWR", i), p < q PROVE file[p].n < file[q].n
    <3>1. Before(file[p], file[q])
      BY <1>4, <2>1, <2>5 DEF InOrder
    <3>2. file[p].seq = file[q].seq /\ file[p].seq \in Nat
      BY <1>1, <2>1
    <3> QED BY <3>1, <3>2 DEF Before
  <2> QED BY <1>6, <2>2, <2>4, <2>5
<1>8. Cardinality(OwnOf(file, "SWR", i)) = Len(xml.writers)
  BY <1>4, <1>6, KindsAreCounted
<1>9. SameWriters(file, i, xml.writers)
  BY <1>7, <1>8 DEF SameWriters
<1> QED BY <1>4, <1>6, <1>9, KindsAreCounted

\* An honest answer about a transformation has the property.
LEMMA HonestXmlAgrees == ASSUME Honest PROVE XmlAgreesWithCwr
<1> SUFFICES ASSUME answer.asked = "xslt", answer.out.status = "ok",
                    NEW i \in DOMAIN answer.works
             PROVE  LET file == GenerateCwr(answer.works, "02.20")
                        xml  == answer.out.xml[i]
                    IN  /\ SameWriters(file, i, xml.writers)
                        /\ Cardinality(OwnOf(file, "SPU", i)) = Len(xml.publishers)
                        /\ Cardinality(OwnOf(file, "ORN", i)) = Len(xml.territories)
  BY DEF XmlAgreesWithCwr
<1>1. PICK slug \in Slugs, works \in Batches :
         answer = [asked |-> "xslt", works |-> works, out |-> TransformSubmission(slug, works),
                   log |-> IF TransformSubmission(slug, works).status = "ok"
                           THEN "XSLT_TRANSFORM" ELSE "none"]
  BY DEF Honest
<1>2. answer.works = works /\ answer.out = TransformSubmission(slug, works)
  BY <1>1
<1>3. answer.out.xml = ToCanonicalXml(works)
  BY <1>2, TransformedIsCanonical
<1>4. works \in Seq(Work) /\ i \in DOMAIN works
  BY <1>2, DeskAssumption
<1> DEFINE file == GenerateCwr(works, "02.20")
           xml == ToCanonicalXml(works)[i]
<1>5. /\ SameWriters(file, i, xml.writers)
      /\ Cardinality(OwnOf(file, "SPU", i)) = Len(xml.publishers)
      /\ Cardinality(OwnOf(file, "ORN", i)) = Len(xml.territories)
  <2> HIDE DEF file, xml
  <2> QED BY <1>4, XmlIsOfTheWorks DEF file, xml
<1> QED BY <1>2, <1>3, <1>5

\* For every batch of works, generate_cwr and to_canonical_xml, two serialisers,
\* name the same writers in the same order, roles and societies, and as many
\* publishers and territories.
THEOREM FormatsAgree == DeskSpec => []XmlAgreesWithCwr
<1> QED BY AnswersAreHonest, HonestXmlAgrees, PTL
=============================================================================
