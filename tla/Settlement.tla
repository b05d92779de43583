----------------------------- MODULE Settlement -----------------------------
(***************************************************************************)
(* What the royalty distributor promises, with the token, the proofs, the  *)
(* reentrancy lock and the individual transfers abstracted away: a CID is  *)
(* settled at most once; an amount of at most Cap may be settled at once;  *)
(* a larger amount is settled only after it has stood on notice, unchanged *)
(* and not withdrawn, for the whole Delay.                                 *)
(***************************************************************************)
EXTENDS Integers

CONSTANTS CIDs,     \* content identifiers
          Cap,      \* largest amount settled without notice
          Delay,    \* how long a notice stands before it may be settled
          NoNotice  \* the absence of a notice

VARIABLES settled,  \* settled[c]: amount paid for c, 0 while unpaid
          notice,   \* notice[c]: NoNotice or [amount, since]
          now

vars == <<settled, notice, now>>

Notice == [amount : Nat, since : Int]

TypeOK == /\ settled \in [CIDs -> Nat]
          /\ notice \in [CIDs -> Notice \cup {NoNotice}]
          /\ now \in Nat

Init == /\ settled = [c \in CIDs |-> 0]
        /\ notice = [c \in CIDs |-> NoNotice]
        /\ now \in Nat

GiveNotice(c) ==
    /\ settled[c] = 0
    /\ notice'[c] \in [amount : Nat, since : {now}]
    /\ notice'[c].amount > Cap
    /\ notice' = [notice EXCEPT ![c] = notice'[c]]
    /\ UNCHANGED <<settled, now>>

WithdrawNotice(c) ==
    /\ notice[c] # NoNotice
    /\ notice' = [notice EXCEPT ![c] = NoNotice]
    /\ UNCHANGED <<settled, now>>

SettleSmall(c) ==
    /\ settled[c] = 0
    /\ settled'[c] \in 1..Cap
    /\ settled' = [settled EXCEPT ![c] = settled'[c]]
    /\ UNCHANGED <<notice, now>>

SettleNoticed(c) ==
    /\ settled[c] = 0
    /\ notice[c] # NoNotice
    /\ now >= notice[c].since + Delay
    /\ settled' = [settled EXCEPT ![c] = notice[c].amount]
    /\ notice' = [notice EXCEPT ![c] = NoNotice]
    /\ UNCHANGED now

Tick == /\ now' \in Nat
        /\ now' > now
        /\ UNCHANGED <<settled, notice>>

Next == \/ Tick
        \/ \E c \in CIDs : \/ GiveNotice(c)
                           \/ WithdrawNotice(c)
                           \/ SettleSmall(c)
                           \/ SettleNoticed(c)

Spec == Init /\ [][Next]_vars
=============================================================================
