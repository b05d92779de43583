---------------------- MODULE StreamingRoyaltiesProofs ----------------------
(***************************************************************************)
(* The larger distributor keeps its books: with any accounts, splits, host *)
(* lists and amounts, every wei that streams, settlements and cash-outs    *)
(* credit or pay is in exactly one of the records (libs/contracts/src/     *)
(* RoyaltyDistributor.sol, lines 489-925), and a pause stops every payout  *)
(* but the admin's.                                                        *)
(*                                                                         *)
(* The invariant is the four balances of BooksBalance, that a registered   *)
(* split adds up to 10000 basis points and that no session ends before it  *)
(* starts. The sums are those of SumTheorems: a stream adds one entry to   *)
(* the fees and royalties owed and spreads the same amounts over the hosts *)
(* and the artists, a cash-out takes from one artist what it adds to the   *)
(* list of cash-outs.                                                      *)
(***************************************************************************)
EXTENDS StreamingRoyalties, SumTheorems

-----------------------------------------------------------------------------
(* Sums *)

Payees == Seq([to : Accounts, amount : Nat])

LEMMA FoldsAreSums == \A f : F!SumFunction(f) = SumOf(f)
BY DEF F!SumFunction, F!SumFunctionOnSet, F!FoldFunctionOnSet, F!MapThenFoldSet,
       SumOf, SumOver, Fn!SumFunctionOnSet, Fn!FoldFunctionOnSet, Fn!MapThenFoldSet

\* Lists have finitely many entries.
LEMMA ListsAreFinite ==
    ASSUME NEW S, NEW s \in Seq(S)
    PROVE  /\ Len(s) \in Nat /\ DOMAIN s = 1..Len(s) /\ IsFiniteSet(DOMAIN s)
           /\ \A i \in DOMAIN s : s[i] \in S
<1>1. Len(s) \in Nat /\ DOMAIN s = 1..Len(s) /\ \A i \in DOMAIN s : s[i] \in S
  OBVIOUS
<1> QED BY <1>1, FS_Interval

-----------------------------------------------------------------------------
(* Fees *)

\* A fee is a part of the amount it is taken of.
LEMMA FeeIsPart ==
    ASSUME NEW amount \in Nat
    PROVE  NetworkFee(amount) \in Nat /\ NetworkFee(amount) <= amount
BY DEF NetworkFee, NETWORK_FEE_BPS, BASIS_POINTS

\* What the hosts and the platform get of a fee is the fee.
LEMMA FeeIsShared ==
    ASSUME NEW fee \in Nat, NEW hosts, Len(hosts) \in Nat \ {0}
    PROVE  /\ FeePerHost(fee, hosts) \in Nat /\ PlatformShare(fee, hosts) \in Nat
           /\ FeePerHost(fee, hosts) * Len(hosts) \in Nat
           /\ FeePerHost(fee, hosts) * Len(hosts) + PlatformShare(fee, hosts) = fee
<1> DEFINE h == HostNodesShare(fee)
           n == Len(hosts)
           q == FeePerHost(fee, hosts)
<1>1. h \in Nat /\ h <= fee
  BY DEF HostNodesShare, HOSTS_BPS, BASIS_POINTS
<1>2. n \in Nat /\ n > 0 /\ q = h \div n
  BY DEF FeePerHost
<1>3. PlatformShare(fee, hosts) = (fee - h) + (h - q * n)
  BY DEF PlatformShare
<1> HIDE DEF h, n, q
<1>4. q \in Nat /\ q * n <= h /\ q * n \in Nat
  BY <1>1, <1>2
<1> QED BY <1>1, <1>2, <1>3, <1>4 DEF n, q

-----------------------------------------------------------------------------
(* Payments *)

LEMMA ReceivedIsNat ==
    ASSUME NEW ps \in Payees
    PROVE  /\ \A a : ReceivedBy(a, ps) \in Nat
           /\ SumOf([i \in DOMAIN ps |-> ps[i].amount]) \in Nat
           /\ SumOf([a \in Accounts |-> ReceivedBy(a, ps)])
                = SumOf([i \in DOMAIN ps |-> ps[i].amount])
<1> DEFINE I == DOMAIN ps
           amount == [i \in I |-> ps[i].amount]
           owner == [i \in I |-> ps[i].to]
           share == [a \in Accounts |-> [i \in I |-> IF ps[i].to = a THEN ps[i].amount ELSE 0]]
           total == [a \in Accounts |-> ReceivedBy(a, ps)]
<1>1. IsFiniteSet(I) /\ \A i \in I : ps[i] \in [to : Accounts, amount : Nat]
  BY ListsAreFinite DEF Payees
<1>2. IsFiniteSet(Accounts)
  BY StreamingAssumption
<1>3. \A i \in I : amount[i] \in Nat /\ amount[i] \in Int /\ owner[i] \in Accounts
  BY <1>1
<1>4. ASSUME NEW a
      PROVE  ReceivedBy(a, ps) \in Nat
  <2> DEFINE mine == [i \in I |-> IF ps[i].to = a THEN ps[i].amount ELSE 0]
  <2>1. DOMAIN mine = I /\ \A i \in I : mine[i] \in Nat
    BY <1>1
  <2> HIDE DEF mine
  <2>2. SumOf(mine) \in Nat
    BY <1>1, <2>1, SumOfIsNat
  <2> QED BY <2>2, FoldsAreSums DEF ReceivedBy, mine
<1>5. \A a \in Accounts, i \in I : share[a][i] = IF owner[i] = a THEN amount[i] ELSE 0
  OBVIOUS
<1>6. ASSUME NEW a \in Accounts
      PROVE  total[a] = SumOver(share[a], I)
  <2>1. total[a] = SumOf(share[a])
    BY FoldsAreSums DEF ReceivedBy
  <2>2. DOMAIN share[a] = I
    OBVIOUS
  <2> HIDE DEF share
  <2> QED BY <2>1, <2>2 DEF SumOf
<1>7. DOMAIN amount = I /\ DOMAIN total = Accounts
  OBVIOUS
<1> HIDE DEF amount, owner, share, total, I
<1>8. SumOver(total, Accounts) = SumOver(amount, I)
  <2>1. IsFiniteSet(I) /\ (\A i \in I : owner[i] \in Accounts) /\ \A i \in I : amount[i] \in Int
    BY <1>1, <1>3
  <2> QED BY <1>2, <1>5, <1>6, <2>1, SumByOwner
<1>9. SumOf(amount) \in Nat
  BY <1>1, <1>3, <1>7, SumOfIsNat
<1> QED BY <1>4, <1>7, <1>8, <1>9 DEF SumOf, amount, total, I

LEMMA HostPaymentsOK ==
    ASSUME NEW fee \in Nat, NEW hosts \in HostLists, Len(hosts) > 0,
           \A i \in DOMAIN hosts : hosts[i] # ZeroAddress
    PROVE  /\ HostPayments(fee, hosts) \in Payees
           /\ SumOf([a \in Accounts |-> ReceivedBy(a, HostPayments(fee, hosts))])
                + PlatformShare(fee, hosts) = fee
           /\ PlatformShare(fee, hosts) \in Nat
<1> DEFINE q == FeePerHost(fee, hosts)
           ps == HostPayments(fee, hosts)
<1>1. hosts \in Seq(Accounts \cup {ZeroAddress})
  BY StreamingAssumption
<1>2. /\ Len(hosts) \in Nat \ {0} /\ DOMAIN hosts = 1..Len(hosts) /\ IsFiniteSet(DOMAIN hosts)
      /\ \A i \in DOMAIN hosts : hosts[i] \in Accounts
  BY <1>1, ListsAreFinite
<1>3. /\ q \in Nat /\ PlatformShare(fee, hosts) \in Nat
      /\ q * Len(hosts) + PlatformShare(fee, hosts) = fee
  BY <1>2, FeeIsShared
<1> HIDE DEF q
<1>4. ps = [i \in 1..Len(hosts) |-> [to |-> hosts[i], amount |-> q]]
  BY <1>2 DEF HostPayments, q
<1> HIDE DEF ps
<1>5. ps \in Payees
  BY <1>2, <1>3, <1>4 DEF Payees
<1> DEFINE f == [i \in DOMAIN ps |-> ps[i].amount]
<1>6. DOMAIN f = 1..Len(hosts) /\ \A i \in 1..Len(hosts) : f[i] = q
  BY <1>4
<1> HIDE DEF f
<1>7. SumOf(f) = q * Len(hosts)
  <2>1. IsFiniteSet(1..Len(hosts)) /\ Cardinality(1..Len(hosts)) = Len(hosts)
    BY <1>2, FS_Interval
  <2>2. SumOver(f, 1..Len(hosts)) = q * Cardinality(1..Len(hosts))
    BY <1>3, <1>6, <2>1, SumOfSame
  <2> QED BY <1>6, <2>1, <2>2 DEF SumOf
<1>8. SumOf([a \in Accounts |-> ReceivedBy(a, ps)]) = SumOf(f)
  BY <1>5, ReceivedIsNat DEF f
<1> QED BY <1>3, <1>5, <1>7, <1>8 DEF ps

\* A cash-out pays its recipient and then the hosts.
LEMMA ReceivedInAll ==
    ASSUME NEW ps \in Payees, NEW to \in Accounts, NEW amount \in Nat
    PROVE  /\ <<[to |-> to, amount |-> amount]>> \o ps \in Payees
           /\ \A a : ReceivedBy(a, <<[to |-> to, amount |-> amount]>> \o ps)
                       = (IF a = to THEN amount ELSE 0) + ReceivedBy(a, ps)
<1> DEFINE all == <<[to |-> to, amount |-> amount]>> \o ps
           n == Len(ps)
<1>1. /\ n \in Nat /\ DOMAIN ps = 1..n
      /\ \A i \in 1..n : ps[i] \in [to : Accounts, amount : Nat]
  BY ListsAreFinite DEF Payees
<1>2. /\ all \in Payees /\ DOMAIN all = 1..(n + 1) /\ all[1] = [to |-> to, amount |-> amount]
      /\ \A i \in 1..n : all[i + 1] = ps[i]
  BY DEF Payees
<1> HIDE DEF all, n
<1>3. ASSUME NEW a
      PROVE  ReceivedBy(a, all) = (IF a = to THEN amount ELSE 0) + ReceivedBy(a, ps)
  <2> DEFINE f == [i \in DOMAIN ps |-> IF ps[i].to = a THEN ps[i].amount ELSE 0]
             g == [i \in DOMAIN all |-> IF all[i].to = a THEN all[i].amount ELSE 0]
             p == IF a = to THEN amount ELSE 0
  <2>1. DOMAIN f = 1..n /\ \A i \in 1..n : f[i] \in Int
    BY <1>1
  <2>2. DOMAIN g = 1..(n + 1) /\ g[1] = p /\ p \in Int
    BY <1>1, <1>2
  <2>3. \A i \in 1..n : g[i + 1] = f[i]
    <3>1. \A i \in 1..n : i + 1 \in 1..(n + 1)
      BY <1>1
    <3> QED BY <1>1, <1>2, <3>1
  <2> HIDE DEF f, g, p
  <2>4. SumOf(g) = p + SumOf(f)
    <3>1. n \in Nat
      BY <1>1
    <3> QED BY <2>1, <2>2, <2>3, <3>1, SumOfConcat
  <2> QED BY <2>4, FoldsAreSums DEF ReceivedBy, f, g, p
<1> QED BY <1>2, <1>3 DEF all

LEMMA SinglePayment ==
    ASSUME NEW to \in Accounts, NEW amount \in Nat
    PROVE  /\ <<[to |-> to, amount |-> amount]>> \in Payees
           /\ \A a : ReceivedBy(a, <<[to |-> to, amount |-> amount]>>)
                       = IF a = to THEN amount ELSE 0
<1> DEFINE ps == <<[to |-> to, amount |-> amount]>>
<1>1. ps \in Payees /\ DOMAIN ps = {1} /\ ps[1] = [to |-> to, amount |-> amount]
  BY DEF Payees
<1> HIDE DEF ps
<1>2. ASSUME NEW a
      PROVE  ReceivedBy(a, ps) = IF a = to THEN amount ELSE 0
  <2> DEFINE f == [i \in DOMAIN ps |-> IF ps[i].to = a THEN ps[i].amount ELSE 0]
  <2>1. DOMAIN f = {1} /\ f[1] = (IF a = to THEN amount ELSE 0) /\ f[1] \in Int
    BY <1>1
  <2> HIDE DEF f
  <2>2. SumOver(f, {1}) = f[1]
    BY <2>1, SumSingleton
  <2> QED BY <2>1, <2>2, FoldsAreSums DEF ReceivedBy, SumOf, f
<1> QED BY <1>1, <1>2 DEF ps

-----------------------------------------------------------------------------
(* Royalties *)

\* A factor may be taken out of a division that rounds down.
LEMMA PartsAreSmall ==
    ASSUME NEW r \in Nat, NEW b \in Nat
    PROVE  /\ (r * b) \div BASIS_POINTS \in Nat
           /\ BASIS_POINTS * ((r * b) \div BASIS_POINTS) <= r * b
<1>1. r * b \in Nat
  OBVIOUS
<1>2. \A m \in Nat : m \div 10000 \in Nat /\ 10000 * (m \div 10000) <= m
  OBVIOUS
<1> QED BY <1>1, <1>2 DEF BASIS_POINTS

\* The parties of a valid split, and Admin for the rest, get all of a stream's
\* royalty.
LEMMA RoyaltiesAddUp ==
    ASSUME NEW value \in Nat, NEW split \in Splits, ValidSplit(split)
    PROVE  /\ \A a : Royalties(a, value, split) \in Nat
           /\ ArtistRoyalty(value) \in Nat
           /\ SumOf([a \in Accounts |-> Royalties(a, value, split)]) = ArtistRoyalty(value)
<1> DEFINE I == DOMAIN split.wallets
           R == ArtistRoyalty(value)
           part == [i \in I |-> PartOf(value, split, i)]
           dust == ArtistDust(value, split)
<1>1. /\ split.wallets \in Seq(Accounts \cup {ZeroAddress}) /\ split.bps \in Seq(Nat)
      /\ Len(split.wallets) = Len(split.bps)
      /\ \A i \in DOMAIN split.wallets : split.wallets[i] # ZeroAddress
  BY StreamingAssumption DEF ValidSplit
<1>2. /\ IsFiniteSet(I) /\ DOMAIN split.bps = I
      /\ \A i \in I : split.wallets[i] \in Accounts /\ split.bps[i] \in Nat
  BY <1>1, ListsAreFinite
<1>3. R \in Nat
  BY FeeIsPart DEF ArtistRoyalty
<1>4. \A i \in I : /\ part[i] \in Nat
                   /\ BASIS_POINTS * part[i] <= R * split.bps[i]
  BY <1>2, <1>3, PartsAreSmall DEF PartOf
<1>5. SumOf(split.bps) = BASIS_POINTS
  BY FoldsAreSums DEF ValidSplit
<1>6. DOMAIN part = I
  OBVIOUS
<1>7. dust = R - SumOf(part)
  BY FoldsAreSums DEF ArtistDust
<1>8. SumOf(part) \in Nat /\ SumOf(part) <= R
  <2> DEFINE scaled == [i \in I |-> BASIS_POINTS * part[i]]
             weighted == [i \in I |-> R * split.bps[i]]
  <2> HIDE DEF I, R, part
  <2>1. BASIS_POINTS \in Int /\ \A i \in I : part[i] \in Int /\ split.bps[i] \in Int
    BY <1>2, <1>4 DEF BASIS_POINTS
  <2>2. \A i \in I : /\ scaled[i] = BASIS_POINTS * part[i] /\ scaled[i] \in Int
                     /\ weighted[i] = R * split.bps[i] /\ weighted[i] \in Int
                     /\ scaled[i] <= weighted[i]
    BY <1>2, <1>3, <1>4, <2>1
  <2> HIDE DEF scaled, weighted
  <2>3. SumOver(scaled, I) = BASIS_POINTS * SumOver(part, I)
    BY <1>2, <2>1, <2>2, SumScale
  <2>4. SumOver(weighted, I) = R * SumOver(split.bps, I)
    BY <1>2, <1>3, <2>1, <2>2, SumScale
  <2>5. SumOver(scaled, I) <= SumOver(weighted, I)
    BY <1>2, <2>2, SumMonotone
  <2>6. SumOver(part, I) \in Nat
    BY <1>2, <1>4, SumIsNat
  <2>7. SumOver(split.bps, I) = 10000
    BY <1>2, <1>5 DEF SumOf, BASIS_POINTS
  <2>8. 10000 * SumOver(part, I) <= R * 10000
    BY <2>3, <2>4, <2>5, <2>7 DEF BASIS_POINTS
  <2> QED BY <1>3, <1>6, <2>6, <2>8 DEF SumOf
<1>9. dust \in Nat
  BY <1>3, <1>7, <1>8
<1> DEFINE owner == split.wallets
           share == [a \in Accounts |-> [i \in I |-> IF owner[i] = a THEN part[i] ELSE 0]]
           total == [a \in Accounts |-> SumOver(share[a], I)]
           rest == [a \in Accounts |-> IF a = Admin THEN dust ELSE 0]
           all == [a \in Accounts |-> Royalties(a, value, split)]
<1>10. ASSUME NEW a
       PROVE  Royalties(a, value, split) \in Nat
  <2> DEFINE mine == [i \in I |-> IF owner[i] = a THEN PartOf(value, split, i) ELSE 0]
  <2>1. DOMAIN mine = I /\ \A i \in I : mine[i] \in Nat
    BY <1>4
  <2> HIDE DEF mine, dust
  <2>2. SumOf(mine) \in Nat
    BY <1>2, <2>1, SumOfIsNat
  <2>3. Royalties(a, value, split) = SumOf(mine) + (IF a = Admin THEN dust ELSE 0)
    BY FoldsAreSums DEF Royalties, mine, dust
  <2> QED BY <1>9, <2>2, <2>3
<1>11. \A a \in Accounts, i \in I : /\ share[a][i] = IF owner[i] = a THEN part[i] ELSE 0
                                   /\ DOMAIN share[a] = I
  OBVIOUS
<1>12. ASSUME NEW a \in Accounts
       PROVE  all[a] = total[a] + rest[a]
  <2> DEFINE mine == [i \in I |-> IF owner[i] = a THEN PartOf(value, split, i) ELSE 0]
  <2>1. mine = share[a]
    OBVIOUS
  <2>2. DOMAIN mine = I
    OBVIOUS
  <2> HIDE DEF mine, share, dust
  <2>3. Royalties(a, value, split) = SumOf(mine) + (IF a = Admin THEN dust ELSE 0)
    BY FoldsAreSums DEF Royalties, mine, dust
  <2> QED BY <2>1, <2>2, <2>3 DEF SumOf
<1>13. DOMAIN all = Accounts /\ IsFiniteSet(Accounts) /\ Admin \in Accounts
  BY StreamingAssumption
<1>14. rest[Admin] = dust /\ \A a \in Accounts \ {Admin} : rest[a] = 0
  BY <1>13
<1>15. \A a \in Accounts : total[a] = SumOver(share[a], I)
  OBVIOUS
<1>16. \A a \in Accounts : rest[a] \in Int
  BY <1>9
<1> HIDE DEF share, total, rest, all, part, dust, I, R
<1>17. SumOver(total, Accounts) = SumOver(part, I)
  <2>1. (\A i \in I : owner[i] \in Accounts) /\ \A i \in I : part[i] \in Int
    BY <1>2, <1>4
  <2>2. \A a \in Accounts, i \in I : share[a][i] = IF owner[i] = a THEN part[i] ELSE 0
    BY <1>11
  <2> HIDE DEF owner
  <2> QED BY <1>2, <1>13, <1>15, <2>1, <2>2, SumByOwner
<1>18. SumOver(rest, Accounts) = dust
  BY <1>9, <1>13, <1>14, SumAtOne
<1>19. \A a \in Accounts : total[a] \in Int
  <2>1. \A a \in Accounts, i \in I : share[a][i] \in Int
    BY <1>4, <1>11
  <2> QED BY <1>2, <1>15, <2>1, SumIsInt
<1>20. SumOver(all, Accounts) = SumOver(total, Accounts) + SumOver(rest, Accounts)
  BY <1>12, <1>13, <1>16, <1>19, SumPlus
<1>21. SumOf(all) = R
  BY <1>3, <1>6, <1>7, <1>8, <1>13, <1>17, <1>18, <1>20 DEF SumOf
<1> QED BY <1>3, <1>10, <1>21 DEF all, R

-----------------------------------------------------------------------------
(* The invariant *)

Credited == {x \in TxIds : streamingTransactions[x] # NoStream}
Executed == {x \in CashoutIds : cashoutRequests[x].executed}

\* What the books add up, as functions.
Earned     == [a \in Accounts |-> artistEarnings[a].totalEarned]
FeesEarned == [a \in Accounts |-> hostReputation[a].totalFeesEarned]
RoyaltyOf  == [x \in Credited |-> ArtistRoyalty(streamingTransactions[x].streamValue)]
StreamFee  == [x \in Credited |-> NetworkFee(streamingTransactions[x].streamValue)]
CashedOut  == [x \in Executed |-> cashoutRequests[x].amount]
CashoutFee == [x \in Executed |-> NetworkFee(cashoutRequests[x].amount)]
SettledFor(a) == [i \in DOMAIN settlements[a] |-> settlements[a][i].amount]
Settled    == [a \in Artists |-> SumOf(SettledFor(a))]

EarningsBalance == SumOf(Earned) = SumOf(RoyaltyOf) + SumOf(Settled) - SumOf(CashedOut)

FeesBalance ==
    SumOf(StreamFee) + SumOf(CashoutFee)
      = SumOf(FeesEarned) + platformFeesAccumulated + seedingRewardsPool + withdrawnFees

SplitsOK == \A t \in Tracks : trackIPISplits[t] # NoSplit => ValidSplit(trackIPISplits[t])

SessionsOK ==
    \A s \in SeedingIds : seedingSessions[s] # NoSession =>
        seedingSessions[s].start <= seedingSessions[s].end

Rewarded(n) == {s \in SeedingIds : /\ seedingSessions[s].rewarded
                                   /\ seedingSessions[s].seeder = n}
RewardsOf(n) == [s \in Rewarded(n) |-> Reward(seedingSessions[s])]

SeedingBalance ==
    \A n \in Nodes :
       /\ hostReputation[n].seedingRewardsEarned = SumOf(RewardsOf(n))
       /\ \A s \in Rewarded(n) : seedingSessions[s].end <= now

Balances == /\ EarningsBalance
            /\ FeesBalance
            /\ HoldingsMatchRecords
            /\ SeedingBalance

IInv == /\ TypeOK
        /\ SplitsOK
        /\ SessionsOK
        /\ Balances

LEMMA BooksInSums == BooksBalance <=> Balances
<1>1. \A f : F!SumFunction(f) = SumOf(f)
  BY FoldsAreSums
<1>2. [a \in Artists |-> F!SumFunction([i \in DOMAIN settlements[a] |-> settlements[a][i].amount])]
        = Settled
  BY <1>1 DEF Settled, SettledFor
<1>3. EarningsAddUp <=> EarningsBalance
  BY <1>1, <1>2 DEF EarningsAddUp, EarningsBalance, Earned, RoyaltyOf, CashedOut, Credited, Executed
<1>4. FeesAddUp <=> FeesBalance
  BY <1>1 DEF FeesAddUp, FeesBalance, FeesEarned, StreamFee, CashoutFee, Credited, Executed
<1>5. SessionsArePaidOnce <=> SeedingBalance
  BY <1>1 DEF SessionsArePaidOnce, SeedingBalance, RewardsOf, Rewarded
<1> QED BY <1>3, <1>4, <1>5 DEF BooksBalance, Balances

LEMMA Finite ==
    /\ IsFiniteSet(Accounts) /\ IsFiniteSet(Artists)
    /\ IsFiniteSet(Credited) /\ IsFiniteSet(Executed)
<1>1. Credited \in SUBSET TxIds /\ Executed \in SUBSET CashoutIds /\ Artists \in SUBSET Accounts
  BY StreamingAssumption DEF Credited, Executed
<1> QED BY <1>1, StreamingAssumption, FS_Subset

\* Every entry of the books is a natural number.
LEMMA EntriesAreNats ==
    ASSUME TypeOK
    PROVE  /\ DOMAIN Earned = Accounts /\ \A a \in Accounts : Earned[a] \in Nat
           /\ DOMAIN FeesEarned = Accounts /\ \A a \in Accounts : FeesEarned[a] \in Nat
           /\ DOMAIN RoyaltyOf = Credited /\ \A x \in Credited : RoyaltyOf[x] \in Nat
           /\ DOMAIN StreamFee = Credited /\ \A x \in Credited : StreamFee[x] \in Nat
           /\ DOMAIN CashedOut = Executed /\ \A x \in Executed : CashedOut[x] \in Nat
           /\ DOMAIN CashoutFee = Executed /\ \A x \in Executed : CashoutFee[x] \in Nat
           /\ DOMAIN Settled = Artists /\ \A a \in Artists : Settled[a] \in Nat
<1>1. \A x \in Credited : streamingTransactions[x].streamValue \in Nat
  BY StreamingAssumption DEF TypeOK, Credited
<1>2. \A x \in Executed : cashoutRequests[x].amount \in Nat
  BY StreamingAssumption DEF TypeOK, Executed, NoCashout
<1>3. \A a \in Artists : SumOf(SettledFor(a)) \in Nat
  <2> SUFFICES ASSUME NEW a \in Artists PROVE SumOf(SettledFor(a)) \in Nat
    OBVIOUS
  <2>1. settlements[a] \in Seq([amount : ExternalAmounts, at : Times, cycle : Nat])
    BY DEF TypeOK
  <2>2. /\ IsFiniteSet(DOMAIN settlements[a])
        /\ \A i \in DOMAIN settlements[a] :
              settlements[a][i] \in [amount : ExternalAmounts, at : Times, cycle : Nat]
    BY <2>1, ListsAreFinite
  <2>4. \A i \in DOMAIN settlements[a] : settlements[a][i].amount \in Nat
    BY <2>2, StreamingAssumption
  <2>3. DOMAIN SettledFor(a) = DOMAIN settlements[a]
        /\ \A i \in DOMAIN settlements[a] : SettledFor(a)[i] \in Nat
    BY <2>4 DEF SettledFor
  <2> QED BY <2>2, <2>3, SumOfIsNat
<1>4. \A a \in Accounts : Earned[a] \in Nat /\ FeesEarned[a] \in Nat
  BY DEF TypeOK, Earned, FeesEarned
<1>5. \A x \in Credited : RoyaltyOf[x] \in Nat /\ StreamFee[x] \in Nat
  BY <1>1, FeeIsPart DEF RoyaltyOf, StreamFee, ArtistRoyalty
<1>6. \A x \in Executed : CashedOut[x] \in Nat /\ CashoutFee[x] \in Nat
  BY <1>2, FeeIsPart DEF CashedOut, CashoutFee
<1>7. \A a \in Artists : Settled[a] \in Nat
  BY <1>3 DEF Settled
<1> QED BY <1>4, <1>5, <1>6, <1>7
        DEF Earned, FeesEarned, RoyaltyOf, StreamFee, CashedOut, CashoutFee, Settled

LEMMA SumsAreNats ==
    ASSUME TypeOK
    PROVE  /\ SumOf(Earned) \in Nat /\ SumOf(FeesEarned) \in Nat
           /\ SumOf(RoyaltyOf) \in Nat /\ SumOf(StreamFee) \in Nat
           /\ SumOf(CashedOut) \in Nat /\ SumOf(CashoutFee) \in Nat
           /\ SumOf(Settled) \in Nat
BY EntriesAreNats, Finite, SumOfIsNat

-----------------------------------------------------------------------------
(* How the sums change *)

LEMMA PayOK ==
    ASSUME TypeOK, NEW ps \in Payees, Pay(ps)
    PROVE  /\ balance' \in [Accounts \cup {Self} -> Nat]
           /\ \A a \in Accounts : balance'[a] = balance[a] + ReceivedBy(a, ps)
<1>1. balance \in [Accounts \cup {Self} -> Nat] /\ Self \notin Accounts
  BY StreamingAssumption DEF TypeOK
<1> DEFINE total == SumOf([i \in DOMAIN ps |-> ps[i].amount])
<1>2. total \in Nat /\ \A a : ReceivedBy(a, ps) \in Nat
  BY ReceivedIsNat
<1>3. /\ total <= balance[Self]
      /\ balance' = [a \in Accounts \cup {Self} |->
                       IF a = Self THEN balance[a] - total ELSE balance[a] + ReceivedBy(a, ps)]
  BY FoldsAreSums DEF Pay
<1> HIDE DEF total
<1> QED BY <1>1, <1>2, <1>3

LEMMA StreamsGrow ==
    ASSUME TypeOK, NEW tx \in TxIds, NEW t \in Tracks, NEW v \in Nat \ {0},
           streamingTransactions[tx] = NoStream,
           streamingTransactions' =
              [streamingTransactions EXCEPT ![tx] = [streamValue |-> v, track |-> t]]
    PROVE  /\ SumOf(RoyaltyOf') = SumOf(RoyaltyOf) + ArtistRoyalty(v)
           /\ SumOf(StreamFee') = SumOf(StreamFee) + NetworkFee(v)
<1>1. DOMAIN streamingTransactions = TxIds
  BY DEF TypeOK
<1>2. Credited' = Credited \cup {tx} /\ tx \notin Credited
  BY <1>1 DEF Credited, NoStream
<1>3. NetworkFee(v) \in Nat /\ ArtistRoyalty(v) \in Nat
  BY FeeIsPart DEF ArtistRoyalty
<1>4. /\ DOMAIN RoyaltyOf = Credited /\ DOMAIN StreamFee = Credited
      /\ DOMAIN RoyaltyOf' = Credited' /\ DOMAIN StreamFee' = Credited'
  BY DEF RoyaltyOf, StreamFee
<1>5. \A x \in Credited : streamingTransactions'[x] = streamingTransactions[x]
  BY <1>1, <1>2 DEF Credited
<1>6. /\ \A x \in Credited : RoyaltyOf[x] \in Int /\ RoyaltyOf'[x] = RoyaltyOf[x]
      /\ \A x \in Credited : StreamFee[x] \in Int /\ StreamFee'[x] = StreamFee[x]
  BY <1>2, <1>5, EntriesAreNats DEF RoyaltyOf, StreamFee
<1>7. RoyaltyOf'[tx] = ArtistRoyalty(v) /\ StreamFee'[tx] = NetworkFee(v)
  BY <1>1, <1>2 DEF RoyaltyOf, StreamFee
<1> QED BY <1>2, <1>3, <1>4, <1>6, <1>7, Finite, SumGrows

LEMMA CashoutsGrow ==
    ASSUME TypeOK, NEW id \in CashoutIds, cashoutRequests[id] # NoCashout,
           ~cashoutRequests[id].executed,
           cashoutRequests' = [cashoutRequests EXCEPT ![id].executed = TRUE]
    PROVE  /\ SumOf(CashedOut') = SumOf(CashedOut) + cashoutRequests[id].amount
           /\ SumOf(CashoutFee') = SumOf(CashoutFee) + NetworkFee(cashoutRequests[id].amount)
<1> DEFINE amount == cashoutRequests[id].amount
<1>1. /\ DOMAIN cashoutRequests = CashoutIds
      /\ cashoutRequests[id] \in [recipient : Accounts, amount : CashoutAmounts, executed : BOOLEAN]
  BY DEF TypeOK
<1>2. /\ cashoutRequests'[id].amount = amount /\ cashoutRequests'[id].executed
      /\ \A x \in CashoutIds \ {id} : cashoutRequests'[x] = cashoutRequests[x]
  BY <1>1
<1>3. Executed' = Executed \cup {id} /\ id \notin Executed
  BY <1>2 DEF Executed
<1>4. amount \in Nat /\ NetworkFee(amount) \in Nat
  BY <1>1, StreamingAssumption, FeeIsPart
<1>5. /\ DOMAIN CashedOut = Executed /\ DOMAIN CashoutFee = Executed
      /\ DOMAIN CashedOut' = Executed' /\ DOMAIN CashoutFee' = Executed'
  BY DEF CashedOut, CashoutFee
<1>6. \A x \in Executed : cashoutRequests'[x] = cashoutRequests[x]
  BY <1>2, <1>3 DEF Executed
<1>7. /\ \A x \in Executed : CashedOut[x] \in Int /\ CashedOut'[x] = CashedOut[x]
      /\ \A x \in Executed : CashoutFee[x] \in Int /\ CashoutFee'[x] = CashoutFee[x]
  BY <1>3, <1>6, EntriesAreNats DEF CashedOut, CashoutFee
<1>8. CashedOut'[id] = amount /\ CashoutFee'[id] = NetworkFee(amount)
  BY <1>2, <1>3 DEF CashedOut, CashoutFee
<1> HIDE DEF amount
<1>9. /\ SumOf(CashedOut') = SumOf(CashedOut) + amount
      /\ SumOf(CashoutFee') = SumOf(CashoutFee) + NetworkFee(amount)
  BY <1>3, <1>4, <1>5, <1>7, <1>8, Finite, SumGrows
<1> QED BY <1>9 DEF amount

LEMMA SettlementsGrow ==
    ASSUME TypeOK, NEW a \in Artists, NEW amount \in ExternalAmounts, NEW at \in Times, NEW c \in Nat,
           settlements' = [settlements EXCEPT
              ![a] = Append(@, [amount |-> amount, at |-> at, cycle |-> c])]
    PROVE  SumOf(Settled') = SumOf(Settled) + amount
<1> DEFINE old == settlements[a]
           new == settlements'[a]
           n == Len(old)
<1>1. /\ settlements \in [Artists -> Seq([amount : ExternalAmounts, at : Times, cycle : Nat])]
      /\ amount \in Nat
  BY StreamingAssumption DEF TypeOK
<1>2. /\ old \in Seq([amount : ExternalAmounts, at : Times, cycle : Nat])
      /\ new = Append(old, [amount |-> amount, at |-> at, cycle |-> c])
  BY <1>1
<1>3. n \in Nat /\ DOMAIN old = 1..n /\ IsFiniteSet(DOMAIN old)
      /\ \A i \in DOMAIN old : old[i].amount \in Nat
  <2> HIDE DEF old
  <2>1. \A i \in DOMAIN old : old[i] \in [amount : ExternalAmounts, at : Times, cycle : Nat]
    BY <1>2, ListsAreFinite
  <2>2. \A i \in DOMAIN old : old[i].amount \in Nat
    BY <2>1, StreamingAssumption
  <2> QED BY <1>2, <2>2, ListsAreFinite
<1>4. /\ DOMAIN new = DOMAIN old \cup {n + 1} /\ n + 1 \notin DOMAIN old
      /\ new[n + 1].amount = amount /\ \A i \in DOMAIN old : new[i] = old[i]
  <2> HIDE DEF old, new
  <2>1. n + 1 \notin 1..n /\ 1..(n + 1) = 1..n \cup {n + 1}
    BY <1>3
  <2> QED BY <1>2, <1>3, <2>1
<1> DEFINE f == SettledFor(a)
           g == [i \in DOMAIN new |-> new[i].amount]
<1>5. SumOf(g) = SumOf(f) + amount
  <2> DEFINE next == n + 1
  <2>1. DOMAIN f = DOMAIN old /\ DOMAIN g = DOMAIN new
        /\ (\A i \in DOMAIN old : f[i] \in Int /\ g[i] = f[i]) /\ g[next] = amount
    BY <1>3, <1>4 DEF SettledFor
  <2>2. DOMAIN new = DOMAIN old \cup {next} /\ next \notin DOMAIN old
    BY <1>4
  <2> HIDE DEF f, g, old, new, n, next
  <2>3. IsFiniteSet(DOMAIN f) /\ next \notin DOMAIN f /\ DOMAIN g = DOMAIN f \cup {next}
    BY <1>3, <2>1, <2>2
  <2>4. (\A i \in DOMAIN f : f[i] \in Int /\ g[i] = f[i]) /\ g[next] \in Int
    BY <1>1, <2>1
  <2>5. SumOf(g) = SumOf(f) + g[next]
    BY <2>3, <2>4, SumGrows
  <2> QED BY <2>1, <2>5
<1>6. Settled'[a] = SumOf(g) /\ Settled[a] = SumOf(f)
  BY DEF Settled, SettledFor
<1>7. \A b \in Artists \ {a} : Settled'[b] = Settled[b]
  BY <1>1 DEF Settled, SettledFor
<1>8. /\ DOMAIN Settled = Artists /\ DOMAIN Settled' = Artists
      /\ \A b \in Artists : Settled[b] \in Int
  BY EntriesAreNats DEF Settled
<1> HIDE DEF f, g
<1>9. Settled'[a] = Settled[a] + amount /\ Settled'[a] \in Int
  BY <1>1, <1>5, <1>6, <1>8
<1>10. SumOf(Settled') = SumOf(Settled) - Settled[a] + Settled'[a]
  BY <1>7, <1>8, <1>9, Finite, SumChanges
<1>11. SumOf(Settled) \in Int
  BY SumsAreNats
<1> QED BY <1>1, <1>8, <1>9, <1>10, <1>11

-----------------------------------------------------------------------------
(* The steps *)

LEMMA SumsStay ==
    /\ artistEarnings' = artistEarnings => Earned' = Earned
    /\ hostReputation' = hostReputation => FeesEarned' = FeesEarned
    /\ streamingTransactions' = streamingTransactions =>
         RoyaltyOf' = RoyaltyOf /\ StreamFee' = StreamFee
    /\ cashoutRequests' = cashoutRequests =>
         CashedOut' = CashedOut /\ CashoutFee' = CashoutFee
    /\ settlements' = settlements => Settled' = Settled
BY DEF Earned, FeesEarned, RoyaltyOf, StreamFee, Credited, CashedOut, CashoutFee,
       Executed, Settled, SettledFor

LEMMA BalancesNext ==
    /\ EarningsBalance' <=>
          SumOf(Earned') = SumOf(RoyaltyOf') + SumOf(Settled') - SumOf(CashedOut')
    /\ FeesBalance' <=>
          SumOf(StreamFee') + SumOf(CashoutFee')
            = SumOf(FeesEarned') + platformFeesAccumulated' + seedingRewardsPool' + withdrawnFees'
BY DEF EarningsBalance, FeesBalance

\* Steps that start or pay no session.
LEMMA SeedingStays ==
    ASSUME TypeOK, SeedingBalance, seedingSessions' = seedingSessions,
           now' \in Times, now' >= now,
           \A n \in Nodes : hostReputation'[n].seedingRewardsEarned
                              = hostReputation[n].seedingRewardsEarned
    PROVE  SeedingBalance'
<1> SUFFICES ASSUME NEW n \in Nodes
             PROVE  /\ hostReputation'[n].seedingRewardsEarned = SumOf(RewardsOf(n)')
                    /\ \A s \in Rewarded(n)' : seedingSessions'[s].end <= now'
  BY DEF SeedingBalance
<1>1. Rewarded(n)' = Rewarded(n) /\ RewardsOf(n)' = RewardsOf(n)
  BY DEF Rewarded, RewardsOf
<1>2. \A s \in Rewarded(n) : seedingSessions[s].end \in Nat
  BY StreamingAssumption DEF Rewarded, TypeOK, NoSession
<1>3. now \in Nat /\ now' \in Nat
  BY StreamingAssumption DEF TypeOK, Times
<1> QED BY <1>1, <1>2, <1>3 DEF SeedingBalance

\* Steps that leave the books alone.
LEMMA BooksStay ==
    ASSUME IInv, UNCHANGED <<books, streamingTransactions, settlements, seedingSessions>>,
           now' \in Times, now' >= now,
           \A a \in Accounts : balance'[a] = balance[a]
    PROVE  SessionsOK' /\ Balances'
<1>1. SessionsOK'
  BY DEF IInv, SessionsOK
<1>2. EarningsBalance'
  BY SumsStay, BalancesNext DEF IInv, Balances, EarningsBalance, books
<1>3. FeesBalance'
  BY SumsStay, BalancesNext DEF IInv, Balances, FeesBalance, books
<1>4. HoldingsMatchRecords'
  BY DEF IInv, Balances, HoldingsMatchRecords, books
<1>5. SeedingBalance'
  BY SeedingStays DEF IInv, Balances, books
<1> QED BY <1>1, <1>2, <1>3, <1>4, <1>5 DEF Balances

LEMMA SettingsKeep ==
    ASSUME IInv,
           \/ SetAuthorizedBackend \/ SetTrustedOracle
           \/ \E on \in BOOLEAN : SetPaused(on)
    PROVE  IInv'
<1>1. /\ UNCHANGED <<books, trackIPISplits, streamingTransactions, seedingSessions,
                     externalEarnings, balance, now, settlements>>
      /\ configured' \in [backend : BOOLEAN, oracle : BOOLEAN] /\ paused' \in BOOLEAN
  BY DEF IInv, TypeOK, SetAuthorizedBackend, SetTrustedOracle, SetPaused
<1>2. TypeOK'
  BY <1>1 DEF IInv, TypeOK, books, Times
<1>3. SplitsOK'
  BY <1>1 DEF IInv, SplitsOK
<1>4. now \in Times /\ now >= now
  BY StreamingAssumption DEF IInv, TypeOK, Times
<1>5. SessionsOK' /\ Balances'
  BY <1>1, <1>4, BooksStay
<1> QED BY <1>2, <1>3, <1>5 DEF IInv

LEMMA RegisterKeeps ==
    ASSUME IInv, NEW t \in Tracks, NEW split \in Splits, RegisterIPISplit(t, split)
    PROVE  IInv'
<1>1. TypeOK'
  BY DEF IInv, TypeOK, RegisterIPISplit, books, Times
<1>2. SplitsOK'
  <2>1. ValidSplit(split)' <=> ValidSplit(split)
    BY DEF ValidSplit
  <2>2. \A u \in Tracks : trackIPISplits'[u] = IF u = t THEN split ELSE trackIPISplits[u]
    BY DEF IInv, TypeOK, RegisterIPISplit
  <2> SUFFICES ASSUME NEW u \in Tracks, trackIPISplits'[u] # NoSplit
               PROVE  ValidSplit(trackIPISplits'[u])
    BY DEF SplitsOK
  <2> QED BY <2>2 DEF IInv, SplitsOK, RegisterIPISplit
<1>3. now \in Times /\ now >= now
  BY StreamingAssumption DEF IInv, TypeOK, Times
<1>4. SessionsOK' /\ Balances'
  BY <1>3, BooksStay DEF RegisterIPISplit
<1> QED BY <1>1, <1>2, <1>4 DEF IInv

LEMMA DepositKeeps ==
    ASSUME IInv, Deposit \/ Tick
    PROVE  IInv'
<1>1. /\ UNCHANGED <<books, trackIPISplits, streamingTransactions, seedingSessions,
                     externalEarnings, settlements, configured, paused>>
      /\ now' \in Times /\ now' >= now
      /\ balance' \in [Accounts \cup {Self} -> Nat]
      /\ \A a \in Accounts : balance'[a] = balance[a]
  <2>1. /\ now \in Times /\ balance \in [Accounts \cup {Self} -> Nat] /\ Self \notin Accounts
        /\ Funding \in Nat /\ MaxTime \in Nat
    BY StreamingAssumption DEF IInv, TypeOK
  <2>2. CASE Deposit
    BY <2>1, <2>2 DEF Deposit, Times
  <2>3. CASE Tick
    BY <2>1, <2>3 DEF Tick, Times
  <2> QED BY <2>2, <2>3
<1>2. TypeOK'
  BY <1>1 DEF IInv, TypeOK, books
<1>3. SplitsOK'
  BY <1>1 DEF IInv, SplitsOK
<1>4. SessionsOK' /\ Balances'
  BY <1>1, BooksStay
<1> QED BY <1>2, <1>3, <1>4 DEF IInv

LEMMA ExternalKeeps ==
    ASSUME IInv, NEW a \in Artists,
           \/ \E total \in ExternalAmounts : RecordExternalStreamEarnings(a, total)
           \/ ResetExternalEarnings(a)
    PROVE  IInv'
<1>1. /\ UNCHANGED <<books, trackIPISplits, streamingTransactions, seedingSessions,
                     configured, paused, balance, now, settlements>>
      /\ externalEarnings' \in
           [Artists -> [total : ExternalAmounts \cup {0}, settled : BOOLEAN, cycle : Nat]]
  <2>1. /\ externalEarnings \in
            [Artists -> [total : ExternalAmounts \cup {0}, settled : BOOLEAN, cycle : Nat]]
        /\ externalEarnings[a].cycle + 1 \in Nat
    BY DEF IInv, TypeOK
  <2>2. CASE \E total \in ExternalAmounts : RecordExternalStreamEarnings(a, total)
    BY <2>1, <2>2 DEF RecordExternalStreamEarnings
  <2>3. CASE ResetExternalEarnings(a)
    BY <2>1, <2>3 DEF ResetExternalEarnings
  <2> QED BY <2>2, <2>3
<1>2. TypeOK'
  BY <1>1 DEF IInv, TypeOK, books, Times
<1>3. SplitsOK'
  BY <1>1 DEF IInv, SplitsOK
<1>4. now \in Times /\ now >= now
  BY StreamingAssumption DEF IInv, TypeOK, Times
<1>5. SessionsOK' /\ Balances'
  BY <1>1, <1>4, BooksStay
<1> QED BY <1>2, <1>3, <1>5 DEF IInv

\* The hosts are credited with what they are paid: with the platform's share
\* that is the fee.
LEMMA HostsAreCredited ==
    ASSUME IInv, NEW fee \in Nat, NEW hosts \in HostLists, Len(hosts) > 0,
           \A i \in DOMAIN hosts : hosts[i] # ZeroAddress,
           hostReputation' = CreditHosts(fee, hosts)
    PROVE  /\ hostReputation' \in
                [Accounts -> [tier : 0..4, uptime : 0..BASIS_POINTS,
                              totalFeesEarned : Nat, seedingRewardsEarned : Nat]]
           /\ \A a \in Accounts :
                /\ hostReputation'[a].totalFeesEarned
                     = hostReputation[a].totalFeesEarned
                       + ReceivedBy(a, HostPayments(fee, hosts))
                /\ hostReputation'[a].seedingRewardsEarned = hostReputation[a].seedingRewardsEarned
           /\ SumOf(FeesEarned') + PlatformShare(fee, hosts) = SumOf(FeesEarned) + fee
<1> DEFINE got == [a \in Accounts |-> ReceivedBy(a, HostPayments(fee, hosts))]
<1>1. /\ HostPayments(fee, hosts) \in Payees
      /\ SumOf(got) + PlatformShare(fee, hosts) = fee
      /\ PlatformShare(fee, hosts) \in Nat
  BY HostPaymentsOK
<1>2. /\ DOMAIN got = Accounts
      /\ \A a \in Accounts : /\ got[a] = ReceivedBy(a, HostPayments(fee, hosts))
                             /\ got[a] \in Nat
  BY <1>1, ReceivedIsNat
<1> HIDE DEF got
<1>3. hostReputation' =
        [a \in Accounts |-> [hostReputation[a] EXCEPT !.totalFeesEarned = @ + got[a]]]
  BY <1>2 DEF CreditHosts
<1>4. hostReputation \in
         [Accounts -> [tier : 0..4, uptime : 0..BASIS_POINTS,
                       totalFeesEarned : Nat, seedingRewardsEarned : Nat]]
  BY DEF IInv, TypeOK
<1>5. \A a \in Accounts :
        /\ hostReputation'[a] \in [tier : 0..4, uptime : 0..BASIS_POINTS,
                                   totalFeesEarned : Nat, seedingRewardsEarned : Nat]
        /\ hostReputation'[a].totalFeesEarned = hostReputation[a].totalFeesEarned + got[a]
        /\ hostReputation'[a].seedingRewardsEarned = hostReputation[a].seedingRewardsEarned
  <2> TAKE a \in Accounts
  <2> DEFINE r == hostReputation[a]
  <2>1. /\ r \in [tier : 0..4, uptime : 0..BASIS_POINTS,
                  totalFeesEarned : Nat, seedingRewardsEarned : Nat]
        /\ r.totalFeesEarned + got[a] \in Nat
    BY <1>2, <1>4
  <2>2. hostReputation'[a] = [r EXCEPT !.totalFeesEarned = r.totalFeesEarned + got[a]]
    BY <1>3
  <2> HIDE DEF r
  <2>3. /\ hostReputation'[a] \in [tier : 0..4, uptime : 0..BASIS_POINTS,
                                   totalFeesEarned : Nat, seedingRewardsEarned : Nat]
        /\ hostReputation'[a].totalFeesEarned = r.totalFeesEarned + got[a]
        /\ hostReputation'[a].seedingRewardsEarned = r.seedingRewardsEarned
    BY <2>1, <2>2
  <2> QED BY <2>3 DEF r
<1>6. hostReputation' \in
         [Accounts -> [tier : 0..4, uptime : 0..BASIS_POINTS,
                       totalFeesEarned : Nat, seedingRewardsEarned : Nat]]
  BY <1>3, <1>5
<1>7. SumOf(FeesEarned') = SumOf(FeesEarned) + SumOf(got)
  <2>1. /\ DOMAIN FeesEarned = Accounts /\ DOMAIN FeesEarned' = Accounts
        /\ \A a \in Accounts : /\ FeesEarned[a] \in Int /\ got[a] \in Int
                               /\ FeesEarned'[a] = FeesEarned[a] + got[a]
    BY <1>2, <1>5, EntriesAreNats DEF FeesEarned, IInv
  <2> QED BY <1>2, <2>1, Finite, SumAdds
<1>8. SumOf(FeesEarned) \in Nat /\ SumOf(got) \in Nat
  BY <1>2, Finite, SumsAreNats, SumOfIsNat DEF IInv
<1> QED BY <1>1, <1>2, <1>5, <1>6, <1>7, <1>8

LEMMA RecordKeeps ==
    ASSUME IInv, NEW tx \in TxIds, NEW t \in Tracks, NEW hosts \in HostLists,
           NEW v \in StreamValues, RecordStreamingTransaction(tx, t, hosts, v)
    PROVE  IInv'
<1> DEFINE fee == NetworkFee(v)
           split == trackIPISplits[t]
           ps == HostPayments(fee, hosts)
           share == PlatformShare(fee, hosts)
<1>1. /\ Len(hosts) \in 1..MAX_ARTISTS
      /\ v >= MIN_STREAM_VALUE
      /\ streamingTransactions[tx] = NoStream
      /\ split # NoSplit
      /\ streamingTransactions' =
           [streamingTransactions EXCEPT ![tx] = [streamValue |-> v, track |-> t]]
      /\ Pay(ps)
      /\ hostReputation' = CreditHosts(fee, hosts)
      /\ platformFeesAccumulated' = platformFeesAccumulated + share
      /\ artistEarnings' = [a \in Accounts |->
            [artistEarnings[a] EXCEPT !.totalEarned = @ + Royalties(a, v, split)]]
      /\ UNCHANGED <<cashoutRequests, seedingRewardsPool, withdrawnFees, trackIPISplits,
                     seedingSessions, externalEarnings, configured, paused, now, settlements>>
  BY DEF RecordStreamingTransaction
<1>2. v \in Nat /\ v \in Nat \ {0} /\ fee \in Nat /\ Len(hosts) > 0
  <2>1. v \in Nat /\ v # 0
    BY <1>1, StreamingAssumption
  <2>2. fee \in Nat
    BY <2>1, FeeIsPart
  <2> DEFINE n == Len(hosts)
  <2>3. n \in 1..16
    BY <1>1 DEF MAX_ARTISTS
  <2> HIDE DEF fee, n
  <2>4. n > 0
    BY <2>3
  <2> USE DEF n
  <2> QED BY <2>1, <2>2, <2>4
<1>3. \A i \in DOMAIN hosts : hosts[i] # ZeroAddress
  BY <1>1 DEF Pay, HostPayments
<1>4. TypeOK /\ Balances /\ SplitsOK /\ SessionsOK
  BY DEF IInv
<1>5. /\ ps \in Payees /\ SumOf([a \in Accounts |-> ReceivedBy(a, ps)]) + share = fee
      /\ share \in Nat
  BY <1>2, <1>3, HostPaymentsOK
<1>6. /\ balance' \in [Accounts \cup {Self} -> Nat]
      /\ \A a \in Accounts : balance'[a] = balance[a] + ReceivedBy(a, ps)
  BY <1>1, <1>4, <1>5, PayOK
<1>7. /\ hostReputation' \in
           [Accounts -> [tier : 0..4, uptime : 0..BASIS_POINTS,
                         totalFeesEarned : Nat, seedingRewardsEarned : Nat]]
      /\ \A a \in Accounts :
           /\ hostReputation'[a].totalFeesEarned
                = hostReputation[a].totalFeesEarned + ReceivedBy(a, ps)
           /\ hostReputation'[a].seedingRewardsEarned = hostReputation[a].seedingRewardsEarned
      /\ SumOf(FeesEarned') + share = SumOf(FeesEarned) + fee
  BY <1>1, <1>2, <1>3, HostsAreCredited
<1>8. split \in Splits /\ ValidSplit(split)
  BY <1>1, <1>4 DEF TypeOK, SplitsOK
<1> DEFINE got == [a \in Accounts |-> Royalties(a, v, split)]
<1>9. /\ \A a \in Accounts : Royalties(a, v, split) \in Nat
      /\ ArtistRoyalty(v) \in Nat /\ SumOf(got) = ArtistRoyalty(v)
  BY <1>2, <1>8, RoyaltiesAddUp
<1>10. DOMAIN got = Accounts
       /\ \A a \in Accounts : got[a] = Royalties(a, v, split) /\ got[a] \in Nat
  BY <1>9
<1> HIDE DEF got, split, fee, ps, share
<1>11. /\ artistEarnings' \in [Accounts -> [totalEarned : Nat, totalWithdrawn : Nat]]
       /\ \A a \in Accounts :
            /\ artistEarnings'[a].totalEarned = artistEarnings[a].totalEarned + got[a]
            /\ artistEarnings'[a].totalWithdrawn = artistEarnings[a].totalWithdrawn
  <2>1. artistEarnings' = [a \in Accounts |->
            [artistEarnings[a] EXCEPT !.totalEarned = @ + got[a]]]
    BY <1>1, <1>10 DEF split
  <2>2. artistEarnings \in [Accounts -> [totalEarned : Nat, totalWithdrawn : Nat]]
    BY <1>4 DEF TypeOK
  <2>3. \A a \in Accounts :
            /\ artistEarnings'[a] \in [totalEarned : Nat, totalWithdrawn : Nat]
            /\ artistEarnings'[a].totalEarned = artistEarnings[a].totalEarned + got[a]
            /\ artistEarnings'[a].totalWithdrawn = artistEarnings[a].totalWithdrawn
    BY <1>10, <2>1, <2>2
  <2> QED BY <2>1, <2>3
<1>12. TypeOK'
  <2>1. streamingTransactions' \in
         [TxIds -> [streamValue : StreamValues, track : Tracks] \cup {NoStream}]
    BY <1>1, <1>4 DEF TypeOK
  <2>2. platformFeesAccumulated' \in Nat
    BY <1>1, <1>4, <1>5 DEF TypeOK
  <2> QED BY <1>1, <1>4, <1>6, <1>7, <1>11, <2>1, <2>2 DEF TypeOK, Times
<1>13. SplitsOK' /\ SessionsOK'
  BY <1>1, <1>4 DEF SplitsOK, SessionsOK
<1>14. /\ SumOf(RoyaltyOf') = SumOf(RoyaltyOf) + ArtistRoyalty(v)
       /\ SumOf(StreamFee') = SumOf(StreamFee) + fee
  BY <1>1, <1>2, <1>4, StreamsGrow DEF fee
<1>15. SumOf(Earned') = SumOf(Earned) + SumOf(got)
  <2>1. /\ DOMAIN Earned = Accounts /\ DOMAIN Earned' = Accounts
        /\ \A a \in Accounts : /\ Earned[a] \in Int /\ got[a] \in Int
                               /\ Earned'[a] = Earned[a] + got[a]
    BY <1>4, <1>10, <1>11, EntriesAreNats DEF Earned
  <2> QED BY <1>10, <2>1, Finite, SumAdds
<1>16. EarningsBalance'
  <2>1. SumOf(Earned) = SumOf(RoyaltyOf) + SumOf(Settled) - SumOf(CashedOut)
    BY <1>4 DEF Balances, EarningsBalance
  <2>2. Settled' = Settled /\ CashedOut' = CashedOut
    BY <1>1, SumsStay
  <2> QED BY <1>4, <1>9, <1>14, <1>15, <2>1, <2>2, SumsAreNats, BalancesNext
<1>17. FeesBalance'
  <2>1. SumOf(StreamFee) + SumOf(CashoutFee)
          = SumOf(FeesEarned) + platformFeesAccumulated + seedingRewardsPool + withdrawnFees
    BY <1>4 DEF Balances, FeesBalance
  <2>2. CashoutFee' = CashoutFee
    BY <1>1, SumsStay
  <2>3. platformFeesAccumulated \in Nat /\ seedingRewardsPool \in Nat /\ withdrawnFees \in Nat
    BY <1>4 DEF TypeOK
  <2>4. SumOf(FeesEarned') \in Nat
    <3>1. \A a \in Accounts : FeesEarned'[a] \in Nat
      BY <1>7 DEF FeesEarned
    <3>2. DOMAIN FeesEarned' = Accounts
      BY DEF FeesEarned
    <3> QED BY <3>1, <3>2, Finite, SumOfIsNat
  <2>5. /\ SumOf(StreamFee') = SumOf(StreamFee) + fee /\ SumOf(CashoutFee') = SumOf(CashoutFee)
        /\ SumOf(FeesEarned') + share = SumOf(FeesEarned) + fee
        /\ platformFeesAccumulated' = platformFeesAccumulated + share
        /\ seedingRewardsPool' = seedingRewardsPool /\ withdrawnFees' = withdrawnFees
    BY <1>1, <1>7, <1>14, <2>2
  <2>6. /\ SumOf(StreamFee) \in Nat /\ SumOf(CashoutFee) \in Nat /\ SumOf(FeesEarned) \in Nat
        /\ fee \in Nat /\ share \in Nat
    BY <1>2, <1>4, <1>5, SumsAreNats
  <2>7. SumOf(StreamFee') + SumOf(CashoutFee')
          = SumOf(FeesEarned') + platformFeesAccumulated' + seedingRewardsPool' + withdrawnFees'
    BY <2>1, <2>3, <2>4, <2>5, <2>6
  <2> QED BY <2>7, BalancesNext
<1>18. HoldingsMatchRecords'
  <2>1. ASSUME NEW a \in Accounts
        PROVE  balance'[a] = artistEarnings'[a].totalWithdrawn
                    + hostReputation'[a].totalFeesEarned
                    + (IF a = Admin THEN withdrawnFees' ELSE 0)
    <3>1. /\ balance[a] = artistEarnings[a].totalWithdrawn
                    + hostReputation[a].totalFeesEarned
                    + (IF a = Admin THEN withdrawnFees ELSE 0)
          /\ balance[a] \in Nat /\ artistEarnings[a].totalWithdrawn \in Nat
          /\ hostReputation[a].totalFeesEarned \in Nat /\ withdrawnFees \in Nat
      BY <1>4 DEF Balances, HoldingsMatchRecords, TypeOK
    <3>2. ReceivedBy(a, ps) \in Nat
      BY <1>5, ReceivedIsNat
    <3>3. /\ balance'[a] = balance[a] + ReceivedBy(a, ps)
          /\ hostReputation'[a].totalFeesEarned
               = hostReputation[a].totalFeesEarned + ReceivedBy(a, ps)
          /\ artistEarnings'[a].totalWithdrawn = artistEarnings[a].totalWithdrawn
          /\ withdrawnFees' = withdrawnFees
      BY <1>1, <1>6, <1>7, <1>11
    <3> QED BY <3>1, <3>2, <3>3
  <2> QED BY <2>1 DEF HoldingsMatchRecords
<1>19. SeedingBalance'
  <2>1. now' \in Times /\ now' >= now
    BY <1>1, <1>4, StreamingAssumption DEF TypeOK, Times
  <2> QED BY <1>1, <1>4, <1>7, <2>1, StreamingAssumption, SeedingStays DEF Balances
<1> QED BY <1>12, <1>13, <1>16, <1>17, <1>18, <1>19 DEF IInv, Balances

LEMMA RequestKeeps ==
    ASSUME IInv, NEW a \in Accounts, NEW id \in CashoutIds, NEW amount \in CashoutAmounts,
           RequestCashout(a, id, amount)
    PROVE  IInv'
<1>1. /\ cashoutRequests[id] = NoCashout
      /\ cashoutRequests' = [cashoutRequests EXCEPT
            ![id] = [recipient |-> a, amount |-> amount, executed |-> FALSE]]
      /\ UNCHANGED <<artistEarnings, hostReputation, platformFeesAccumulated,
                     seedingRewardsPool, withdrawnFees, trackIPISplits,
                     streamingTransactions, seedingSessions, externalEarnings,
                     configured, paused, balance, now, settlements>>
  BY DEF RequestCashout
<1>2. TypeOK /\ Balances /\ SplitsOK /\ SessionsOK
  BY DEF IInv
<1>3. cashoutRequests' \in
         [CashoutIds -> [recipient : Accounts, amount : CashoutAmounts,
                         executed : BOOLEAN] \cup {NoCashout}]
  BY <1>1, <1>2 DEF TypeOK
<1>4. TypeOK'
  BY <1>1, <1>2, <1>3 DEF TypeOK, Times
<1>5. SplitsOK' /\ SessionsOK'
  BY <1>1, <1>2 DEF SplitsOK, SessionsOK
<1>6. CashedOut' = CashedOut /\ CashoutFee' = CashoutFee
  <2>1. DOMAIN cashoutRequests = CashoutIds
    BY <1>2 DEF TypeOK
  <2>2. Executed' = Executed /\ id \notin Executed
    BY <1>1, <2>1 DEF Executed, NoCashout
  <2>3. \A x \in Executed : cashoutRequests'[x] = cashoutRequests[x]
    BY <1>1, <2>1, <2>2 DEF Executed
  <2> QED BY <2>2, <2>3 DEF CashedOut, CashoutFee
<1>7. EarningsBalance' /\ FeesBalance'
  BY <1>1, <1>2, <1>6, SumsStay, BalancesNext DEF Balances, EarningsBalance, FeesBalance
<1>8. HoldingsMatchRecords'
  BY <1>1, <1>2 DEF Balances, HoldingsMatchRecords
<1>9. SeedingBalance'
  <2>1. now' \in Times /\ now' >= now
    BY <1>1, <1>2, StreamingAssumption DEF TypeOK, Times
  <2> QED BY <1>1, <1>2, <2>1, SeedingStays DEF Balances
<1> QED BY <1>4, <1>5, <1>7, <1>8, <1>9 DEF IInv, Balances

\* A list with a new head.
LEMMA HeadIsAdded ==
    ASSUME NEW S, NEW list \in Seq(S), NEW head \in S
    PROVE  /\ DOMAIN (<<head>> \o list) = 1..(Len(list) + 1)
           /\ \A i \in 1..Len(list) : (<<head>> \o list)[i + 1] = list[i]
OBVIOUS

LEMMA ExecuteKeeps ==
    ASSUME IInv, NEW id \in CashoutIds, NEW hosts \in HostLists, ExecuteCashout(id, hosts)
    PROVE  IInv'
<1> DEFINE co == cashoutRequests[id]
           a == co.recipient
           fee == NetworkFee(co.amount)
           ps == HostPayments(fee, hosts)
           share == PlatformShare(fee, hosts)
           net == co.amount - fee
           all == <<[to |-> a, amount |-> net]>> \o ps
<1>1. /\ co # NoCashout /\ ~co.executed
      /\ Len(hosts) > 0
      /\ artistEarnings[a].totalEarned >= co.amount
      /\ cashoutRequests' = [cashoutRequests EXCEPT ![id].executed = TRUE]
      /\ artistEarnings' = [artistEarnings EXCEPT
            ![a] = [totalEarned |-> @.totalEarned - co.amount,
                    totalWithdrawn |-> @.totalWithdrawn + net]]
      /\ Pay(all)
      /\ hostReputation' = CreditHosts(fee, hosts)
      /\ platformFeesAccumulated' = platformFeesAccumulated + share
      /\ UNCHANGED <<seedingRewardsPool, withdrawnFees, trackIPISplits, streamingTransactions,
                     seedingSessions, externalEarnings, configured, paused, now, settlements>>
  BY DEF ExecuteCashout, Covered, Withdrawn, NetAmount
<1>2. TypeOK /\ Balances /\ SplitsOK /\ SessionsOK
  BY DEF IInv
<1>3. /\ co \in [recipient : Accounts, amount : CashoutAmounts, executed : BOOLEAN]
      /\ a \in Accounts /\ co.amount \in Nat
  BY <1>1, <1>2, StreamingAssumption DEF TypeOK
<1>4. fee \in Nat /\ net \in Nat /\ net + fee = co.amount
  <2> DEFINE m == co.amount
  <2>1. m \in Nat /\ NetworkFee(m) \in Nat /\ NetworkFee(m) <= m
    BY <1>3, FeeIsPart
  <2> HIDE DEF m
  <2>2. m - NetworkFee(m) \in Nat /\ (m - NetworkFee(m)) + NetworkFee(m) = m
    BY <2>1
  <2> QED BY <2>1, <2>2 DEF m
<1>5. \A i \in DOMAIN hosts : hosts[i] # ZeroAddress
  <2> SUFFICES ASSUME NEW i \in DOMAIN hosts PROVE hosts[i] # ZeroAddress
    OBVIOUS
  <2>1. hosts \in Seq(Accounts \cup {ZeroAddress})
    BY StreamingAssumption
  <2> DEFINE q == FeePerHost(fee, hosts)
  <2>2. /\ ps = [j \in 1..Len(hosts) |-> [to |-> hosts[j], amount |-> q]]
        /\ Len(hosts) \in Nat /\ DOMAIN hosts = 1..Len(hosts)
    BY <2>1 DEF HostPayments
  <2>3. ps \in Seq([to : Accounts \cup {ZeroAddress}, amount : {q, net}])
    <3> HIDE DEF q, ps, net
    <3> QED BY <2>1, <2>2
  <2> DEFINE one == <<[to |-> a, amount |-> net]>>
  <2> HIDE DEF ps, one, q, net
  <2>7. /\ ps \in Seq([to : Accounts \cup {ZeroAddress}, amount : {q, net}]) /\ Len(ps) = Len(hosts)
        /\ i \in 1..Len(ps) /\ ps[i].to = hosts[i]
    BY <2>2, <2>3
  <2> DEFINE S == [to : Accounts \cup {ZeroAddress}, amount : {q, net}]
  <2> HIDE DEF S
  <2>9. ps \in Seq(S)
    BY <2>3 DEF S
  <2> DEFINE head == [to |-> a, amount |-> net]
  <2>10. head \in S /\ one = <<head>>
    <3> HIDE DEF net, a, q
    <3> QED BY <1>3 DEF S, one
  <2> HIDE DEF head
  <2>11. /\ DOMAIN (<<head>> \o ps) = 1..(Len(ps) + 1)
         /\ \A j \in 1..Len(ps) : (<<head>> \o ps)[j + 1] = ps[j]
    BY <2>9, <2>10, HeadIsAdded
  <2>12. Len(ps) \in Nat
    BY <2>9
  <2>5. i + 1 \in DOMAIN (one \o ps) /\ (one \o ps)[i + 1] = ps[i]
    BY <2>7, <2>10, <2>11, <2>12
  <2>6. all = one \o ps
    BY DEF one, ps
  <2> HIDE DEF all
  <2> QED BY <1>1, <2>5, <2>6, <2>7 DEF Pay
<1>6. /\ ps \in Payees /\ SumOf([b \in Accounts |-> ReceivedBy(b, ps)]) + share = fee
      /\ share \in Nat
  BY <1>1, <1>4, <1>5, HostPaymentsOK
<1>7. /\ all \in Payees
      /\ \A b : ReceivedBy(b, all) = (IF b = a THEN net ELSE 0) + ReceivedBy(b, ps)
  <2> HIDE DEF ps, a, net
  <2> QED BY <1>3, <1>4, <1>6, ReceivedInAll
<1>8. /\ hostReputation' \in
           [Accounts -> [tier : 0..4, uptime : 0..BASIS_POINTS,
                         totalFeesEarned : Nat, seedingRewardsEarned : Nat]]
      /\ \A b \in Accounts :
           /\ hostReputation'[b].totalFeesEarned
                = hostReputation[b].totalFeesEarned + ReceivedBy(b, ps)
           /\ hostReputation'[b].seedingRewardsEarned = hostReputation[b].seedingRewardsEarned
      /\ SumOf(FeesEarned') + share = SumOf(FeesEarned) + fee
  BY <1>1, <1>4, <1>5, HostsAreCredited
<1>9. /\ SumOf(CashedOut') = SumOf(CashedOut) + co.amount
      /\ SumOf(CashoutFee') = SumOf(CashoutFee) + fee
  BY <1>1, <1>2, CashoutsGrow
<1>10. /\ balance' \in [Accounts \cup {Self} -> Nat]
       /\ \A b \in Accounts : balance'[b] = balance[b] + ReceivedBy(b, all)
  <2> HIDE DEF all
  <2> QED BY <1>1, <1>2, <1>7, PayOK
<1>11. cashoutRequests' \in
         [CashoutIds -> [recipient : Accounts, amount : CashoutAmounts,
                         executed : BOOLEAN] \cup {NoCashout}]
  <2>1. [co EXCEPT !.executed = TRUE]
           \in [recipient : Accounts, amount : CashoutAmounts, executed : BOOLEAN]
    BY <1>3
  <2> QED BY <1>1, <1>2, <2>1 DEF TypeOK
<1> DEFINE amount == co.amount
<1> HIDE DEF all, ps, share, fee, net, co, a, amount
<1>12. /\ artistEarnings' \in [Accounts -> [totalEarned : Nat, totalWithdrawn : Nat]]
       /\ artistEarnings'[a].totalEarned = artistEarnings[a].totalEarned - amount
       /\ artistEarnings'[a].totalWithdrawn = artistEarnings[a].totalWithdrawn + net
       /\ \A b \in Accounts \ {a} : artistEarnings'[b] = artistEarnings[b]
       /\ artistEarnings[a].totalEarned \in Nat /\ artistEarnings[a].totalWithdrawn \in Nat
  <2>1. /\ artistEarnings \in [Accounts -> [totalEarned : Nat, totalWithdrawn : Nat]]
        /\ artistEarnings[a].totalEarned \in Nat /\ artistEarnings[a].totalWithdrawn \in Nat
    BY <1>2, <1>3 DEF TypeOK
  <2> DEFINE new == [totalEarned |-> artistEarnings[a].totalEarned - amount,
                     totalWithdrawn |-> artistEarnings[a].totalWithdrawn + net]
  <2>2. new \in [totalEarned : Nat, totalWithdrawn : Nat]
    <3>1. /\ artistEarnings[a].totalEarned - amount \in Nat
          /\ artistEarnings[a].totalWithdrawn + net \in Nat
      BY <1>1, <1>3, <1>4, <2>1 DEF amount
    <3> QED BY <3>1
  <2>3. artistEarnings' = [artistEarnings EXCEPT ![a] = new]
    BY <1>1, <1>3, <2>1 DEF amount
  <2>4. /\ new.totalEarned = artistEarnings[a].totalEarned - amount
        /\ new.totalWithdrawn = artistEarnings[a].totalWithdrawn + net
    OBVIOUS
  <2> HIDE DEF new
  <2> QED BY <1>3, <2>1, <2>2, <2>3, <2>4
<1>13. TypeOK'
  <2>1. platformFeesAccumulated' \in Nat
    BY <1>1, <1>2, <1>6 DEF TypeOK
  <2> QED BY <1>1, <1>2, <1>8, <1>10, <1>11, <1>12, <2>1 DEF TypeOK, Times
<1>14. SplitsOK' /\ SessionsOK'
  BY <1>1, <1>2 DEF SplitsOK, SessionsOK
<1>15. SumOf(Earned') = SumOf(Earned) - amount
  <2>1. /\ DOMAIN Earned = Accounts /\ DOMAIN Earned' = Accounts
        /\ \A b \in Accounts : Earned[b] \in Int
        /\ \A b \in Accounts \ {a} : Earned'[b] = Earned[b]
        /\ Earned'[a] = Earned[a] - amount /\ Earned'[a] \in Int
    BY <1>2, <1>3, <1>12, EntriesAreNats DEF Earned, amount
  <2>2. SumOf(Earned') = SumOf(Earned) - Earned[a] + Earned'[a]
    <3> a \in DOMAIN Earned
      BY <1>3, <2>1
    <3> QED BY <2>1, Finite, SumChanges
  <2>3. SumOf(Earned) \in Nat
    BY <1>2, SumsAreNats
  <2> QED BY <1>3, <2>1, <2>2, <2>3 DEF amount
<1>16. EarningsBalance'
  <2>1. SumOf(Earned) = SumOf(RoyaltyOf) + SumOf(Settled) - SumOf(CashedOut)
    BY <1>2 DEF Balances, EarningsBalance
  <2>2. Settled' = Settled /\ RoyaltyOf' = RoyaltyOf
    BY <1>1, SumsStay
  <2>3. SumOf(CashedOut') = SumOf(CashedOut) + amount /\ amount \in Nat
    BY <1>3, <1>9 DEF amount
  <2> QED BY <1>2, <1>15, <2>1, <2>2, <2>3, SumsAreNats, BalancesNext
<1>17. FeesBalance'
  <2>1. SumOf(StreamFee) + SumOf(CashoutFee)
          = SumOf(FeesEarned) + platformFeesAccumulated + seedingRewardsPool + withdrawnFees
    BY <1>2 DEF Balances, FeesBalance
  <2>2. StreamFee' = StreamFee
    BY <1>1, SumsStay
  <2>3. platformFeesAccumulated \in Nat /\ seedingRewardsPool \in Nat /\ withdrawnFees \in Nat
    BY <1>2 DEF TypeOK
  <2>4. SumOf(FeesEarned') \in Nat
    <3>1. \A b \in Accounts : FeesEarned'[b] \in Nat
      BY <1>8 DEF FeesEarned
    <3>2. DOMAIN FeesEarned' = Accounts
      BY DEF FeesEarned
    <3> QED BY <3>1, <3>2, Finite, SumOfIsNat
  <2>5. /\ SumOf(StreamFee') = SumOf(StreamFee) /\ SumOf(CashoutFee') = SumOf(CashoutFee) + fee
        /\ SumOf(FeesEarned') + share = SumOf(FeesEarned) + fee
        /\ platformFeesAccumulated' = platformFeesAccumulated + share
        /\ seedingRewardsPool' = seedingRewardsPool /\ withdrawnFees' = withdrawnFees
    BY <1>1, <1>8, <1>9, <2>2
  <2>6. /\ SumOf(StreamFee) \in Nat /\ SumOf(CashoutFee) \in Nat /\ SumOf(FeesEarned) \in Nat
        /\ fee \in Nat /\ share \in Nat
    BY <1>2, <1>4, <1>6, SumsAreNats
  <2>7. SumOf(StreamFee') + SumOf(CashoutFee')
          = SumOf(FeesEarned') + platformFeesAccumulated' + seedingRewardsPool' + withdrawnFees'
    BY <2>1, <2>3, <2>4, <2>5, <2>6
  <2> QED BY <2>7, BalancesNext
<1>18. HoldingsMatchRecords'
  <2>1. ASSUME NEW b \in Accounts
        PROVE  balance'[b] = artistEarnings'[b].totalWithdrawn
                    + hostReputation'[b].totalFeesEarned
                    + (IF b = Admin THEN withdrawnFees' ELSE 0)
    <3>1. /\ balance[b] = artistEarnings[b].totalWithdrawn
                    + hostReputation[b].totalFeesEarned
                    + (IF b = Admin THEN withdrawnFees ELSE 0)
          /\ balance[b] \in Nat /\ artistEarnings[b].totalWithdrawn \in Nat
          /\ hostReputation[b].totalFeesEarned \in Nat /\ withdrawnFees \in Nat
      BY <1>2 DEF Balances, HoldingsMatchRecords, TypeOK
    <3>2. ReceivedBy(b, ps) \in Nat
      BY <1>6, ReceivedIsNat
    <3>3. /\ balance'[b] = balance[b] + ((IF b = a THEN net ELSE 0) + ReceivedBy(b, ps))
          /\ hostReputation'[b].totalFeesEarned
               = hostReputation[b].totalFeesEarned + ReceivedBy(b, ps)
          /\ artistEarnings'[b].totalWithdrawn
               = artistEarnings[b].totalWithdrawn + (IF b = a THEN net ELSE 0)
          /\ withdrawnFees' = withdrawnFees
      <4>1. b # a => artistEarnings[b].totalWithdrawn + 0 = artistEarnings[b].totalWithdrawn
        BY <3>1
      <4>2. artistEarnings'[b].totalWithdrawn
               = artistEarnings[b].totalWithdrawn + (IF b = a THEN net ELSE 0)
        BY <1>12, <4>1
      <4> QED BY <1>1, <1>7, <1>8, <1>10, <4>2
    <3> QED BY <1>4, <3>1, <3>2, <3>3
  <2> QED BY <2>1 DEF HoldingsMatchRecords
<1>19. SeedingBalance'
  <2>1. now' \in Times /\ now' >= now
    BY <1>1, <1>2, StreamingAssumption DEF TypeOK, Times
  <2> QED BY <1>1, <1>2, <1>8, <2>1, StreamingAssumption, SeedingStays DEF Balances
<1> QED BY <1>13, <1>14, <1>16, <1>17, <1>18, <1>19 DEF IInv, Balances

LEMMA AllocateKeeps ==
    ASSUME IInv, NEW amount \in PoolAmounts, AllocateToSeedingPool(amount)
    PROVE  IInv'
<1>1. TypeOK /\ Balances /\ SplitsOK /\ SessionsOK
  BY DEF IInv
<1>2. /\ amount <= platformFeesAccumulated
      /\ platformFeesAccumulated' = platformFeesAccumulated - amount
      /\ seedingRewardsPool' = seedingRewardsPool + amount
      /\ UNCHANGED <<artistEarnings, cashoutRequests, hostReputation, withdrawnFees,
                     trackIPISplits, streamingTransactions, seedingSessions,
                     externalEarnings, configured, paused, balance, now, settlements>>
  BY DEF AllocateToSeedingPool
<1>3. /\ amount \in Nat /\ platformFeesAccumulated \in Nat /\ seedingRewardsPool \in Nat
      /\ platformFeesAccumulated' \in Nat /\ seedingRewardsPool' \in Nat
  BY <1>1, <1>2, StreamingAssumption DEF TypeOK
<1>4. TypeOK'
  BY <1>1, <1>2, <1>3 DEF TypeOK, Times
<1>5. SplitsOK' /\ SessionsOK'
  BY <1>1, <1>2 DEF SplitsOK, SessionsOK
<1>6. EarningsBalance'
  BY <1>1, <1>2, SumsStay, BalancesNext DEF Balances, EarningsBalance
<1>7. FeesBalance'
  <2>1. /\ SumOf(StreamFee) + SumOf(CashoutFee)
             = SumOf(FeesEarned) + platformFeesAccumulated + seedingRewardsPool + withdrawnFees
        /\ withdrawnFees \in Nat
    BY <1>1 DEF Balances, FeesBalance, TypeOK
  <2>2. SumOf(StreamFee) + SumOf(CashoutFee)
          = SumOf(FeesEarned) + platformFeesAccumulated' + seedingRewardsPool' + withdrawnFees'
    BY <1>1, <1>2, <1>3, <2>1, SumsAreNats
  <2> QED BY <1>2, <2>2, SumsStay, BalancesNext
<1>8. HoldingsMatchRecords'
  BY <1>1, <1>2 DEF Balances, HoldingsMatchRecords
<1>9. SeedingBalance'
  <2>1. now' \in Times /\ now' >= now
    BY <1>1, <1>2, StreamingAssumption DEF TypeOK, Times
  <2> QED BY <1>1, <1>2, <2>1, SeedingStays DEF Balances
<1> QED BY <1>4, <1>5, <1>6, <1>7, <1>8, <1>9 DEF IInv, Balances

LEMMA WithdrawKeeps ==
    ASSUME IInv, NEW amount \in PoolAmounts, WithdrawPlatformFees(amount)
    PROVE  IInv'
<1> DEFINE ps == <<[to |-> Admin, amount |-> amount]>>
<1>1. TypeOK /\ Balances /\ SplitsOK /\ SessionsOK
  BY DEF IInv
<1>2. /\ amount <= platformFeesAccumulated
      /\ platformFeesAccumulated' = platformFeesAccumulated - amount
      /\ Pay(ps)
      /\ withdrawnFees' = withdrawnFees + amount
      /\ UNCHANGED <<artistEarnings, cashoutRequests, hostReputation,
                     seedingRewardsPool, trackIPISplits, streamingTransactions,
                     seedingSessions, externalEarnings, configured, paused, now,
                     settlements>>
  BY DEF WithdrawPlatformFees
<1>3. /\ amount \in Nat /\ platformFeesAccumulated \in Nat /\ withdrawnFees \in Nat
      /\ platformFeesAccumulated' \in Nat /\ withdrawnFees' \in Nat
  BY <1>1, <1>2, StreamingAssumption DEF TypeOK
<1>4. ps \in Payees /\ \A a : ReceivedBy(a, ps) = IF a = Admin THEN amount ELSE 0
  BY <1>3, StreamingAssumption, SinglePayment
<1> HIDE DEF ps
<1>5. /\ balance' \in [Accounts \cup {Self} -> Nat]
      /\ \A a \in Accounts : balance'[a] = balance[a] + (IF a = Admin THEN amount ELSE 0)
  BY <1>1, <1>2, <1>4, PayOK
<1>6. TypeOK'
  BY <1>1, <1>2, <1>3, <1>5 DEF TypeOK, Times
<1>7. SplitsOK' /\ SessionsOK'
  BY <1>1, <1>2 DEF SplitsOK, SessionsOK
<1>8. EarningsBalance'
  BY <1>1, <1>2, SumsStay, BalancesNext DEF Balances, EarningsBalance
<1>9. FeesBalance'
  <2>1. /\ SumOf(StreamFee) + SumOf(CashoutFee)
             = SumOf(FeesEarned) + platformFeesAccumulated + seedingRewardsPool + withdrawnFees
        /\ seedingRewardsPool \in Nat
    BY <1>1 DEF Balances, FeesBalance, TypeOK
  <2>2. SumOf(StreamFee) + SumOf(CashoutFee)
          = SumOf(FeesEarned) + platformFeesAccumulated' + seedingRewardsPool + withdrawnFees'
    BY <1>1, <1>2, <1>3, <2>1, SumsAreNats
  <2> QED BY <1>2, <2>2, SumsStay, BalancesNext
<1>10. HoldingsMatchRecords'
  <2> SUFFICES ASSUME NEW a \in Accounts
               PROVE  balance'[a] = artistEarnings[a].totalWithdrawn
                        + hostReputation[a].totalFeesEarned
                        + (IF a = Admin THEN withdrawnFees' ELSE 0)
    BY <1>2 DEF HoldingsMatchRecords
  <2>1. /\ balance[a] = artistEarnings[a].totalWithdrawn
                  + hostReputation[a].totalFeesEarned
                  + (IF a = Admin THEN withdrawnFees ELSE 0)
        /\ artistEarnings[a].totalWithdrawn \in Nat /\ hostReputation[a].totalFeesEarned \in Nat
    BY <1>1 DEF Balances, HoldingsMatchRecords, TypeOK
  <2> QED BY <1>2, <1>3, <1>5, <2>1
<1>11. SeedingBalance'
  <2>1. now' \in Times /\ now' >= now
    BY <1>1, <1>2, StreamingAssumption DEF TypeOK, Times
  <2> QED BY <1>1, <1>2, <2>1, SeedingStays DEF Balances
<1> QED BY <1>6, <1>7, <1>8, <1>9, <1>10, <1>11 DEF IInv, Balances

LEMMA StartKeeps ==
    ASSUME IInv, NEW n \in Nodes, NEW id \in SeedingIds, NEW days \in SeedDays,
           StartSeedingSession(n, id, days)
    PROVE  IInv'
<1> DEFINE perDay == (BASE_REWARD * TierRewardMultiplier(hostReputation[n].tier)) \div BASIS_POINTS
           end == now + days * Day
           new == [seeder |-> n, start |-> now, end |-> end, rewardPerDay |-> perDay,
                   rewarded |-> FALSE]
<1>1. TypeOK /\ Balances /\ SplitsOK /\ SessionsOK
  BY DEF IInv
<1>2. /\ seedingSessions[id] = NoSession
      /\ seedingSessions' = [seedingSessions EXCEPT ![id] = new]
      /\ UNCHANGED <<books, trackIPISplits, streamingTransactions, externalEarnings,
                     configured, paused, balance, now, settlements>>
  BY DEF StartSeedingSession
<1>3. perDay \in Nat
  <2>1. TierRewardMultiplier(hostReputation[n].tier) \in Nat
    BY DEF TierRewardMultiplier, BASIS_POINTS
  <2>2. \A m \in Nat : m \div 10000 \in Nat
    OBVIOUS
  <2>3. BASE_REWARD * TierRewardMultiplier(hostReputation[n].tier) \in Nat
    BY <2>1, StreamingAssumption
  <2> QED BY <2>2, <2>3 DEF BASIS_POINTS
<1>4. end \in Nat /\ end >= now /\ now \in Times /\ now \in Nat
  <2>1. days \in Nat /\ Day \in Nat /\ now \in Nat /\ now \in Times
    <3>1. days \in 1..365 /\ Day \in Nat
      BY StreamingAssumption
    <3>2. now \in Times /\ MaxTime \in Nat
      BY <1>1, StreamingAssumption DEF TypeOK
    <3>3. now \in Nat
      BY <3>2 DEF Times
    <3> QED BY <3>1, <3>2, <3>3
  <2>2. days * Day \in Nat
    BY <2>1
  <2> QED BY <2>1, <2>2
<1> HIDE DEF perDay, end
<1>5. /\ new \in [seeder : Nodes, start : Times, end : Nat, rewardPerDay : Nat,
                  rewarded : BOOLEAN]
      /\ new.seeder = n /\ new.rewarded = FALSE /\ new.start = now /\ new.end = end
  BY <1>3, <1>4
<1> HIDE DEF new
<1>6. /\ DOMAIN seedingSessions = SeedingIds /\ seedingSessions'[id] = new
      /\ \A s \in SeedingIds \ {id} : seedingSessions'[s] = seedingSessions[s]
  BY <1>1, <1>2 DEF TypeOK
<1>7. TypeOK'
  <2>1. seedingSessions' \in
         [SeedingIds -> [seeder : Nodes, start : Times, end : Nat,
                         rewardPerDay : Nat, rewarded : BOOLEAN] \cup {NoSession}]
    BY <1>1, <1>2, <1>5 DEF TypeOK
  <2> QED BY <1>1, <1>2, <2>1 DEF TypeOK, Times, books
<1>8. SplitsOK'
  BY <1>1, <1>2 DEF SplitsOK
<1>9. SessionsOK'
  BY <1>1, <1>4, <1>5, <1>6 DEF SessionsOK
<1>10. EarningsBalance' /\ FeesBalance'
  BY <1>1, <1>2, SumsStay, BalancesNext DEF Balances, EarningsBalance, FeesBalance, books
<1>11. HoldingsMatchRecords'
  BY <1>1, <1>2 DEF Balances, HoldingsMatchRecords, books
<1>12. SeedingBalance'
  <2> SUFFICES ASSUME NEW m \in Nodes
               PROVE  /\ hostReputation'[m].seedingRewardsEarned = SumOf(RewardsOf(m)')
                      /\ \A s \in Rewarded(m)' : seedingSessions'[s].end <= now'
    BY DEF SeedingBalance
  <2>1. Rewarded(m)' = Rewarded(m) /\ id \notin Rewarded(m)
    BY <1>2, <1>5, <1>6 DEF Rewarded, NoSession
  <2>2. \A s \in Rewarded(m) : seedingSessions'[s] = seedingSessions[s]
    BY <1>6, <2>1 DEF Rewarded
  <2>3. RewardsOf(m)' = RewardsOf(m)
    BY <2>1, <2>2 DEF RewardsOf, Reward
  <2> QED BY <1>1, <1>2, <2>1, <2>2, <2>3 DEF Balances, SeedingBalance, books
<1> QED BY <1>7, <1>8, <1>9, <1>10, <1>11, <1>12 DEF IInv, Balances

LEMMA PromoteKeeps ==
    ASSUME IInv, NEW n \in Nodes, NEW tier \in Tiers, NEW u \in Uptimes,
           PromoteNodeTier(n, tier, u)
    PROVE  IInv'
<1> DEFINE rep == hostReputation[n]
           new == [rep EXCEPT !.tier = tier, !.uptime = u]
<1>1. TypeOK /\ Balances /\ SplitsOK /\ SessionsOK
  BY DEF IInv
<1>2. /\ hostReputation \in
           [Accounts -> [tier : 0..4, uptime : 0..BASIS_POINTS,
                         totalFeesEarned : Nat, seedingRewardsEarned : Nat]]
      /\ n \in Accounts /\ tier \in 0..4 /\ u \in 0..BASIS_POINTS
      /\ rep \in [tier : 0..4, uptime : 0..BASIS_POINTS,
                  totalFeesEarned : Nat, seedingRewardsEarned : Nat]
  BY <1>1, StreamingAssumption DEF TypeOK
<1>3. /\ hostReputation' = [hostReputation EXCEPT ![n] = new]
      /\ UNCHANGED <<artistEarnings, cashoutRequests, platformFeesAccumulated,
                     seedingRewardsPool, withdrawnFees, trackIPISplits,
                     streamingTransactions, seedingSessions, externalEarnings,
                     configured, paused, balance, now, settlements>>
  BY <1>2 DEF PromoteNodeTier
<1>4. /\ new \in [tier : 0..4, uptime : 0..BASIS_POINTS,
                  totalFeesEarned : Nat, seedingRewardsEarned : Nat]
      /\ new.totalFeesEarned = rep.totalFeesEarned
      /\ new.seedingRewardsEarned = rep.seedingRewardsEarned
  <2> HIDE DEF rep
  <2> QED BY <1>2
<1> HIDE DEF new
<1>5. \A a \in Accounts :
        /\ hostReputation'[a].totalFeesEarned = hostReputation[a].totalFeesEarned
        /\ hostReputation'[a].seedingRewardsEarned = hostReputation[a].seedingRewardsEarned
  BY <1>2, <1>3, <1>4
<1>6. TypeOK'
  <2>1. hostReputation' \in
           [Accounts -> [tier : 0..4, uptime : 0..BASIS_POINTS,
                         totalFeesEarned : Nat, seedingRewardsEarned : Nat]]
    BY <1>2, <1>3, <1>4
  <2> QED BY <1>1, <1>3, <2>1 DEF TypeOK, Times
<1>7. SplitsOK' /\ SessionsOK'
  BY <1>1, <1>3 DEF SplitsOK, SessionsOK
<1>8. FeesEarned' = FeesEarned
  BY <1>5 DEF FeesEarned
<1>9. EarningsBalance' /\ FeesBalance'
  BY <1>1, <1>3, <1>8, SumsStay, BalancesNext DEF Balances, EarningsBalance, FeesBalance
<1>10. HoldingsMatchRecords'
  BY <1>1, <1>3, <1>5 DEF Balances, HoldingsMatchRecords
<1>11. SeedingBalance'
  <2>1. now' \in Times /\ now' >= now
    BY <1>1, <1>3, StreamingAssumption DEF TypeOK, Times
  <2> QED BY <1>1, <1>3, <1>5, <2>1, StreamingAssumption, SeedingStays DEF Balances
<1> QED BY <1>6, <1>7, <1>9, <1>10, <1>11 DEF IInv, Balances

LEMMA SettleKeeps ==
    ASSUME IInv, NEW a \in Artists, SettleExternalEarnings(a)
    PROVE  IInv'
<1> DEFINE ext == externalEarnings[a]
           amount == ext.total
           e == artistEarnings[a]
           new == [e EXCEPT !.totalEarned = e.totalEarned + amount]
<1>1. TypeOK /\ Balances /\ SplitsOK /\ SessionsOK
  BY DEF IInv
<1>2. /\ ext \in [total : ExternalAmounts \cup {0}, settled : BOOLEAN, cycle : Nat]
      /\ e \in [totalEarned : Nat, totalWithdrawn : Nat]
      /\ artistEarnings \in [Accounts -> [totalEarned : Nat, totalWithdrawn : Nat]]
      /\ a \in Accounts
  BY <1>1, StreamingAssumption DEF TypeOK
<1>3. /\ amount > 0
      /\ externalEarnings' = [externalEarnings EXCEPT ![a].settled = TRUE]
      /\ artistEarnings' = [artistEarnings EXCEPT ![a] = new]
      /\ settlements' = [settlements EXCEPT
              ![a] = Append(@, [amount |-> amount, at |-> now, cycle |-> ext.cycle])]
      /\ UNCHANGED <<cashoutRequests, hostReputation, platformFeesAccumulated,
                     seedingRewardsPool, withdrawnFees, trackIPISplits,
                     streamingTransactions, seedingSessions, configured, paused,
                     balance, now>>
  BY <1>2 DEF SettleExternalEarnings
<1>4. amount \in ExternalAmounts /\ amount \in Nat /\ ext.cycle \in Nat /\ now \in Times
  <2>1. now \in Times
    BY <1>1 DEF TypeOK
  <2>2. amount \in ExternalAmounts \cup {0} /\ ext.cycle \in Nat
    <3> HIDE DEF ext
    <3> QED BY <1>2
  <2>3. amount # 0
    BY <1>3, <2>2, StreamingAssumption
  <2> HIDE DEF amount
  <2> QED BY <2>1, <2>2, <2>3, StreamingAssumption
<1>5. /\ new \in [totalEarned : Nat, totalWithdrawn : Nat]
      /\ new.totalEarned = e.totalEarned + amount /\ new.totalWithdrawn = e.totalWithdrawn
  <2> HIDE DEF e, amount
  <2> QED BY <1>2, <1>4
<1> HIDE DEF new, amount
<1>6. /\ artistEarnings' \in [Accounts -> [totalEarned : Nat, totalWithdrawn : Nat]]
      /\ artistEarnings'[a] = new
      /\ \A b \in Accounts \ {a} : artistEarnings'[b] = artistEarnings[b]
  <2> HIDE DEF e
  <2> QED BY <1>2, <1>3, <1>5
<1>7. TypeOK'
  <2>1. externalEarnings' \in
         [Artists -> [total : ExternalAmounts \cup {0}, settled : BOOLEAN, cycle : Nat]]
    BY <1>1, <1>3 DEF TypeOK
  <2>2. settlements' \in
         [Artists -> Seq([amount : ExternalAmounts, at : Times, cycle : Nat])]
    <3> DEFINE entry == [amount |-> amount, at |-> now, cycle |-> ext.cycle]
    <3>1. entry \in [amount : ExternalAmounts, at : Times, cycle : Nat]
      BY <1>4
    <3>2. settlements[a] \in Seq([amount : ExternalAmounts, at : Times, cycle : Nat])
      BY <1>1 DEF TypeOK
    <3> HIDE DEF entry
    <3>3. Append(settlements[a], entry) \in Seq([amount : ExternalAmounts, at : Times, cycle : Nat])
      BY <3>1, <3>2
    <3>4. settlements' = [settlements EXCEPT ![a] = Append(settlements[a], entry)]
      BY <1>1, <1>3 DEF TypeOK, entry
    <3> QED BY <1>1, <3>3, <3>4 DEF TypeOK
  <2> QED BY <1>1, <1>3, <1>6, <2>1, <2>2 DEF TypeOK, Times
<1>8. SplitsOK' /\ SessionsOK'
  BY <1>1, <1>3 DEF SplitsOK, SessionsOK
<1>9. SumOf(Settled') = SumOf(Settled) + amount
  <2> DEFINE c == ext.cycle
  <2> HIDE DEF c
  <2>1. c \in Nat /\ settlements' = [settlements EXCEPT
              ![a] = Append(@, [amount |-> amount, at |-> now, cycle |-> c])]
    BY <1>3, <1>4 DEF c
  <2> QED BY <1>1, <1>4, <2>1, SettlementsGrow
<1>10. SumOf(Earned') = SumOf(Earned) + amount
  <2>1. /\ DOMAIN Earned = Accounts /\ DOMAIN Earned' = Accounts
        /\ \A b \in Accounts : Earned[b] \in Int
        /\ \A b \in Accounts \ {a} : Earned'[b] = Earned[b]
        /\ Earned'[a] = Earned[a] + amount /\ Earned'[a] \in Int
    BY <1>1, <1>2, <1>4, <1>5, <1>6, EntriesAreNats DEF Earned
  <2>2. SumOf(Earned') = SumOf(Earned) - Earned[a] + Earned'[a]
    <3> a \in DOMAIN Earned
      BY <1>2, <2>1
    <3> QED BY <2>1, Finite, SumChanges
  <2>3. SumOf(Earned) \in Nat
    BY <1>1, SumsAreNats
  <2> QED BY <1>2, <1>4, <2>1, <2>2, <2>3
<1>11. EarningsBalance'
  <2>1. SumOf(Earned) = SumOf(RoyaltyOf) + SumOf(Settled) - SumOf(CashedOut)
    BY <1>1 DEF Balances, EarningsBalance
  <2>2. CashedOut' = CashedOut /\ RoyaltyOf' = RoyaltyOf
    BY <1>3, SumsStay
  <2> QED BY <1>1, <1>4, <1>9, <1>10, <2>1, <2>2, SumsAreNats, BalancesNext
<1>12. FeesBalance'
  BY <1>1, <1>3, SumsStay, BalancesNext DEF Balances, FeesBalance
<1>13. HoldingsMatchRecords'
  <2>1. \A b \in Accounts : artistEarnings'[b].totalWithdrawn = artistEarnings[b].totalWithdrawn
    BY <1>5, <1>6
  <2> QED BY <1>1, <1>3, <2>1 DEF Balances, HoldingsMatchRecords
<1>14. SeedingBalance'
  <2>1. now' \in Times /\ now' >= now
    BY <1>1, <1>3, StreamingAssumption DEF TypeOK, Times
  <2> QED BY <1>1, <1>3, <2>1, SeedingStays DEF Balances
<1> QED BY <1>7, <1>8, <1>11, <1>12, <1>13, <1>14 DEF IInv, Balances

LEMMA ClaimKeeps ==
    ASSUME IInv, NEW id \in SeedingIds, ClaimSeedingReward(id)
    PROVE  IInv'
<1> DEFINE session == seedingSessions[id]
           n == session.seeder
           reward == Reward(session)
           rep == hostReputation[n]
           new == [rep EXCEPT !.totalFeesEarned = @ + reward,
                              !.seedingRewardsEarned = @ + reward,
                              !.tier = Promoted(rep)]
           ps == <<[to |-> n, amount |-> reward]>>
<1>1. TypeOK /\ Balances /\ SplitsOK /\ SessionsOK
  BY DEF IInv
<1>2. /\ session # NoSession /\ ~session.rewarded /\ now >= session.end
      /\ reward <= seedingRewardsPool
      /\ seedingSessions' = [seedingSessions EXCEPT ![id].rewarded = TRUE]
      /\ seedingRewardsPool' = seedingRewardsPool - reward
      /\ hostReputation' = [hostReputation EXCEPT ![n] = new]
      /\ Pay(ps)
      /\ UNCHANGED <<artistEarnings, cashoutRequests, platformFeesAccumulated,
                     withdrawnFees, trackIPISplits, streamingTransactions,
                     externalEarnings, configured, paused, now, settlements>>
  BY DEF ClaimSeedingReward, MayClaim
<1>3. /\ session \in [seeder : Nodes, start : Times, end : Nat, rewardPerDay : Nat,
                      rewarded : BOOLEAN]
      /\ session.start <= session.end
      /\ n \in Nodes /\ n \in Accounts
  BY <1>1, <1>2, StreamingAssumption DEF TypeOK, SessionsOK
<1>4. reward \in Nat
  <2>1. session.start \in Nat /\ session.end \in Nat /\ session.rewardPerDay \in Nat
    <3>1. session.start \in Times /\ MaxTime \in Nat
      BY <1>3, StreamingAssumption
    <3>2. session.start \in Nat
      BY <3>1 DEF Times
    <3> QED BY <1>3, <3>2
  <2>2. session.end - session.start \in Nat
    BY <1>3, <2>1
  <2>3. \A m \in Nat : m \div Day \in Nat
    BY StreamingAssumption
  <2>4. (session.end - session.start) \div Day \in Nat
    BY <2>2, <2>3
  <2> HIDE DEF session
  <2> QED BY <2>1, <2>4 DEF Reward
<1>5. hostReputation \in
         [Accounts -> [tier : 0..4, uptime : 0..BASIS_POINTS,
                       totalFeesEarned : Nat, seedingRewardsEarned : Nat]]
  BY <1>1 DEF TypeOK
<1>6. rep \in [tier : 0..4, uptime : 0..BASIS_POINTS,
               totalFeesEarned : Nat, seedingRewardsEarned : Nat]
  BY <1>3, <1>5
<1>7. ps \in Payees /\ \A a : ReceivedBy(a, ps) = IF a = n THEN reward ELSE 0
  <2> HIDE DEF n, reward
  <2> QED BY <1>3, <1>4, SinglePayment
<1> HIDE DEF ps, n, reward, rep, session
<1>8. /\ balance' \in [Accounts \cup {Self} -> Nat]
      /\ \A a \in Accounts : balance'[a] = balance[a] + (IF a = n THEN reward ELSE 0)
  BY <1>1, <1>2, <1>7, PayOK
<1>9. /\ new \in [tier : 0..4, uptime : 0..BASIS_POINTS,
                  totalFeesEarned : Nat, seedingRewardsEarned : Nat]
      /\ new.totalFeesEarned = rep.totalFeesEarned + reward
      /\ new.seedingRewardsEarned = rep.seedingRewardsEarned + reward
  <2>1. Promoted(rep) \in 0..4
    BY <1>6 DEF Promoted, TierOf
  <2> DEFINE tier == Promoted(rep)
             fees == rep.totalFeesEarned + reward
             rewards == rep.seedingRewardsEarned + reward
  <2>2. tier \in 0..4 /\ fees \in Nat /\ rewards \in Nat
    BY <1>4, <1>6, <2>1
  <2>3. new = [rep EXCEPT !.totalFeesEarned = fees, !.seedingRewardsEarned = rewards,
                          !.tier = tier]
    BY <1>6
  <2> HIDE DEF tier, fees, rewards, new
  <2>4. /\ new \in [tier : 0..4, uptime : 0..BASIS_POINTS,
                    totalFeesEarned : Nat, seedingRewardsEarned : Nat]
        /\ new.totalFeesEarned = fees /\ new.seedingRewardsEarned = rewards
    BY <1>6, <2>2, <2>3
  <2> QED BY <2>4 DEF fees, rewards
<1> HIDE DEF new
<1>10. /\ hostReputation' \in
            [Accounts -> [tier : 0..4, uptime : 0..BASIS_POINTS,
                          totalFeesEarned : Nat, seedingRewardsEarned : Nat]]
       /\ hostReputation'[n].totalFeesEarned = hostReputation[n].totalFeesEarned + reward
       /\ hostReputation'[n].seedingRewardsEarned
            = hostReputation[n].seedingRewardsEarned + reward
       /\ \A a \in Accounts \ {n} : hostReputation'[a] = hostReputation[a]
       /\ hostReputation[n].totalFeesEarned \in Nat /\ hostReputation[n].seedingRewardsEarned \in Nat
  BY <1>2, <1>3, <1>5, <1>9 DEF rep
<1>11. /\ seedingSessions'[id].rewarded /\ seedingSessions'[id].seeder = n
       /\ seedingSessions'[id].start = session.start /\ seedingSessions'[id].end = session.end
       /\ seedingSessions'[id].rewardPerDay = session.rewardPerDay
       /\ \A s \in SeedingIds \ {id} : seedingSessions'[s] = seedingSessions[s]
       /\ DOMAIN seedingSessions' = SeedingIds
       /\ seedingSessions'[id] \in [seeder : Nodes, start : Times, end : Nat, rewardPerDay : Nat,
                                    rewarded : BOOLEAN]
  <2>1. DOMAIN seedingSessions = SeedingIds
    BY <1>1 DEF TypeOK
  <2>2. seedingSessions' = [seedingSessions EXCEPT ![id] = [session EXCEPT !.rewarded = TRUE]]
    BY <1>2 DEF session
  <2> DEFINE next == [session EXCEPT !.rewarded = TRUE]
  <2>3. /\ next.rewarded /\ next.seeder = n /\ next.start = session.start /\ next.end = session.end
        /\ next.rewardPerDay = session.rewardPerDay
        /\ next \in [seeder : Nodes, start : Times, end : Nat, rewardPerDay : Nat,
                     rewarded : BOOLEAN]
    BY <1>3 DEF n
  <2> HIDE DEF next
  <2> QED BY <2>1, <2>2, <2>3 DEF next
<1>12. TypeOK'
  <2>1. seedingSessions' \in
         [SeedingIds -> [seeder : Nodes, start : Times, end : Nat,
                         rewardPerDay : Nat, rewarded : BOOLEAN] \cup {NoSession}]
    BY <1>1, <1>2, <1>11 DEF TypeOK
  <2>2. seedingRewardsPool' \in Nat
    BY <1>1, <1>2, <1>4 DEF TypeOK
  <2> QED BY <1>1, <1>2, <1>8, <1>10, <2>1, <2>2 DEF TypeOK, Times
<1>13. SplitsOK' /\ SessionsOK'
  <2>1. SplitsOK'
    BY <1>1, <1>2 DEF SplitsOK
  <2>2. SessionsOK'
    BY <1>1, <1>3, <1>11 DEF SessionsOK
  <2> QED BY <2>1, <2>2
<1>14. EarningsBalance'
  BY <1>1, <1>2, SumsStay, BalancesNext DEF Balances, EarningsBalance
<1>15. SumOf(FeesEarned') = SumOf(FeesEarned) + reward
  <2>1. /\ DOMAIN FeesEarned = Accounts /\ DOMAIN FeesEarned' = Accounts
        /\ \A b \in Accounts : FeesEarned[b] \in Int
        /\ \A b \in Accounts \ {n} : FeesEarned'[b] = FeesEarned[b]
        /\ FeesEarned'[n] = FeesEarned[n] + reward /\ FeesEarned'[n] \in Int
    BY <1>1, <1>3, <1>4, <1>10, EntriesAreNats DEF FeesEarned
  <2>2. SumOf(FeesEarned') = SumOf(FeesEarned) - FeesEarned[n] + FeesEarned'[n]
    <3> n \in DOMAIN FeesEarned
      BY <1>3, <2>1
    <3> QED BY <2>1, Finite, SumChanges
  <2>3. SumOf(FeesEarned) \in Nat
    BY <1>1, SumsAreNats
  <2> QED BY <1>3, <1>4, <2>1, <2>2, <2>3
<1>16. FeesBalance'
  <2>1. /\ SumOf(StreamFee) + SumOf(CashoutFee)
             = SumOf(FeesEarned) + platformFeesAccumulated + seedingRewardsPool + withdrawnFees
        /\ platformFeesAccumulated \in Nat /\ seedingRewardsPool \in Nat /\ withdrawnFees \in Nat
    BY <1>1 DEF Balances, FeesBalance, TypeOK
  <2>2. StreamFee' = StreamFee /\ CashoutFee' = CashoutFee
    BY <1>2, SumsStay
  <2>3. SumOf(StreamFee) \in Nat /\ SumOf(CashoutFee) \in Nat /\ SumOf(FeesEarned) \in Nat
    BY <1>1, SumsAreNats
  <2>4. SumOf(StreamFee) + SumOf(CashoutFee)
          = SumOf(FeesEarned') + platformFeesAccumulated' + seedingRewardsPool' + withdrawnFees'
    BY <1>2, <1>4, <1>15, <2>1, <2>3
  <2> QED BY <2>2, <2>4, BalancesNext
<1>17. HoldingsMatchRecords'
  <2> SUFFICES ASSUME NEW a \in Accounts
               PROVE  balance'[a] = artistEarnings[a].totalWithdrawn
                        + hostReputation'[a].totalFeesEarned
                        + (IF a = Admin THEN withdrawnFees ELSE 0)
    BY <1>2 DEF HoldingsMatchRecords
  <2>1. /\ balance[a] = artistEarnings[a].totalWithdrawn
                  + hostReputation[a].totalFeesEarned
                  + (IF a = Admin THEN withdrawnFees ELSE 0)
        /\ balance[a] \in Nat /\ withdrawnFees \in Nat
        /\ artistEarnings[a].totalWithdrawn \in Nat /\ hostReputation[a].totalFeesEarned \in Nat
    BY <1>1 DEF Balances, HoldingsMatchRecords, TypeOK
  <2> QED BY <1>4, <1>8, <1>10, <2>1
<1>18. SeedingBalance'
  <2> SUFFICES ASSUME NEW m \in Nodes
               PROVE  /\ hostReputation'[m].seedingRewardsEarned = SumOf(RewardsOf(m)')
                      /\ \A s \in Rewarded(m)' : seedingSessions'[s].end <= now'
    BY DEF SeedingBalance
  <2>1. /\ hostReputation[m].seedingRewardsEarned = SumOf(RewardsOf(m))
        /\ \A s \in Rewarded(m) : seedingSessions[s].end <= now
    BY <1>1 DEF Balances, SeedingBalance
  <2>2. id \notin Rewarded(m)
    BY <1>2 DEF Rewarded, session
  <2>3. Rewarded(m)' = IF m = n THEN Rewarded(m) \cup {id} ELSE Rewarded(m)
    BY <1>11, <2>2 DEF Rewarded
  <2>4. \A s \in Rewarded(m) : seedingSessions'[s] = seedingSessions[s]
    BY <1>11, <2>2 DEF Rewarded
  <2>5. \A s \in Rewarded(m)' : seedingSessions'[s].end <= now'
    BY <1>2, <1>11, <2>1, <2>3, <2>4
  <2>6. CASE m # n
    <3>1. RewardsOf(m)' = RewardsOf(m)
      BY <2>3, <2>4, <2>6 DEF RewardsOf, Reward
    <3>2. hostReputation'[m] = hostReputation[m]
      BY <1>10, <2>6, StreamingAssumption
    <3> QED BY <2>1, <2>5, <3>1, <3>2
  <2>7. CASE m = n
    <3> DEFINE f == RewardsOf(m)
               g == RewardsOf(m)'
    <3>1. DOMAIN f = Rewarded(m) /\ DOMAIN g = Rewarded(m) \cup {id}
      BY <2>3, <2>7 DEF RewardsOf
    <3>2. \A s \in Rewarded(m) : g[s] = f[s]
      BY <2>3, <2>4, <2>7 DEF RewardsOf, Reward
    <3>3. g[id] = reward
      BY <1>11, <2>3, <2>7 DEF RewardsOf, Reward, reward
    <3>4. IsFiniteSet(Rewarded(m))
      <4>1. Rewarded(m) \in SUBSET SeedingIds
        BY DEF Rewarded
      <4> QED BY <4>1, StreamingAssumption, FS_Subset
    <3>5. \A s \in Rewarded(m) : f[s] \in Int
      <4> SUFFICES ASSUME NEW s \in Rewarded(m) PROVE Reward(seedingSessions[s]) \in Int
        BY DEF RewardsOf
      <4> DEFINE q == seedingSessions[s]
      <4>1. /\ q \in [seeder : Nodes, start : Times, end : Nat, rewardPerDay : Nat,
                      rewarded : BOOLEAN]
            /\ q.start <= q.end
        BY <1>1 DEF Rewarded, TypeOK, SessionsOK, NoSession
      <4> HIDE DEF q
      <4>2. q.start \in Nat /\ q.end \in Nat /\ q.rewardPerDay \in Nat
        <5>1. q.start \in Times /\ MaxTime \in Nat
          BY <4>1, StreamingAssumption
        <5>2. q.start \in Nat
          BY <5>1 DEF Times
        <5> QED BY <4>1, <5>2
      <4>3. (q.end - q.start) \div Day \in Nat
        <5>1. \A d \in Nat : d \div Day \in Nat
          BY StreamingAssumption
        <5>2. q.end - q.start \in Nat
          BY <4>1, <4>2
        <5> QED BY <5>1, <5>2
      <4>4. Reward(q) \in Int
        BY <4>2, <4>3 DEF Reward
      <4> QED BY <4>4 DEF q
    <3> HIDE DEF f, g
    <3>6. SumOf(g) = SumOf(f) + g[id]
      <4>1. IsFiniteSet(DOMAIN f) /\ id \notin DOMAIN f /\ DOMAIN g = DOMAIN f \cup {id}
        BY <2>2, <3>1, <3>4
      <4>2. (\A s \in DOMAIN f : f[s] \in Int /\ g[s] = f[s]) /\ g[id] \in Int
        BY <1>4, <3>1, <3>2, <3>3, <3>5
      <4> QED BY <4>1, <4>2, SumGrows
    <3>7. hostReputation'[m].seedingRewardsEarned = SumOf(g)
      BY <1>10, <2>1, <2>7, <3>3, <3>6 DEF f
    <3> QED BY <2>5, <3>7 DEF g
  <2> QED BY <2>6, <2>7
<1> QED BY <1>12, <1>13, <1>14, <1>16, <1>17, <1>18 DEF IInv, Balances

-----------------------------------------------------------------------------
(* The theorems *)

LEMMA InitHolds == Init => IInv
<1> SUFFICES ASSUME Init PROVE IInv
  OBVIOUS
<1>1. TypeOK
  <2>1. /\ 0 \in Nat /\ 0 \in 0..4 /\ 0 \in 0..BASIS_POINTS /\ Day \in Times
        /\ \A S : << >> \in Seq(S)
    BY StreamingAssumption DEF BASIS_POINTS, Times
  <2>2. NoEarnings \in [totalEarned : Nat, totalWithdrawn : Nat]
    BY DEF NoEarnings
  <2>3. NoReputation \in [tier : 0..4, uptime : 0..BASIS_POINTS,
                          totalFeesEarned : Nat, seedingRewardsEarned : Nat]
    BY <2>1 DEF NoReputation
  <2>4. NotRecorded \in [total : ExternalAmounts \cup {0}, settled : BOOLEAN, cycle : Nat]
    BY DEF NotRecorded
  <2> QED BY <2>1, <2>2, <2>3, <2>4 DEF Init, TypeOK
<1>2. SplitsOK /\ SessionsOK
  BY DEF Init, SplitsOK, SessionsOK
<1>3. Credited = {} /\ Executed = {} /\ \A n : Rewarded(n) = {}
  BY DEF Init, Credited, Executed, Rewarded, NoCashout, NoSession
<1>4. \A f : DOMAIN f = {} => SumOf(f) = 0
  BY SumEmpty DEF SumOf
<1>5. \A f : IsFiniteSet(DOMAIN f) /\ (\A x \in DOMAIN f : f[x] = 0) => SumOf(f) = 0
  BY SumOfZeros DEF SumOf
<1>6. /\ SumOf(RoyaltyOf) = 0 /\ SumOf(StreamFee) = 0
      /\ SumOf(CashedOut) = 0 /\ SumOf(CashoutFee) = 0
      /\ \A n : SumOf(RewardsOf(n)) = 0
  <2>1. /\ DOMAIN RoyaltyOf = {} /\ DOMAIN StreamFee = {}
        /\ DOMAIN CashedOut = {} /\ DOMAIN CashoutFee = {}
        /\ \A n : DOMAIN RewardsOf(n) = {}
    BY <1>3 DEF RoyaltyOf, StreamFee, CashedOut, CashoutFee, RewardsOf
  <2> QED BY <1>4, <2>1
<1>7. SumOf(Earned) = 0 /\ SumOf(FeesEarned) = 0 /\ SumOf(Settled) = 0
  <2>1. DOMAIN Earned = Accounts /\ \A a \in Accounts : Earned[a] = 0
    BY DEF Init, Earned, NoEarnings
  <2>2. DOMAIN FeesEarned = Accounts /\ \A a \in Accounts : FeesEarned[a] = 0
    BY DEF Init, FeesEarned, NoReputation
  <2>3. DOMAIN Settled = Artists /\ \A a \in Artists : Settled[a] = 0
    <3>1. \A a \in Artists : DOMAIN SettledFor(a) = {}
      BY DEF Init, SettledFor
    <3> QED BY <1>4, <3>1 DEF Settled
  <2> QED BY <1>5, <2>1, <2>2, <2>3, Finite
<1>8. EarningsBalance /\ FeesBalance
  BY <1>6, <1>7 DEF EarningsBalance, FeesBalance, Init
<1>9. HoldingsMatchRecords
  BY StreamingAssumption DEF Init, HoldingsMatchRecords, NoEarnings, NoReputation
<1>10. SeedingBalance
  BY <1>3, <1>6, StreamingAssumption DEF Init, SeedingBalance, NoReputation
<1> QED BY <1>1, <1>2, <1>8, <1>9, <1>10 DEF IInv, Balances

LEMMA StutterKeeps == ASSUME IInv, UNCHANGED vars PROVE IInv'
<1>1. UNCHANGED <<books, trackIPISplits, streamingTransactions, seedingSessions,
                  externalEarnings, configured, paused, balance, now, settlements>>
  BY DEF vars
<1>2. TypeOK' /\ SplitsOK'
  BY <1>1 DEF IInv, TypeOK, SplitsOK, books, Times
<1>3. now \in Times /\ now >= now
  BY StreamingAssumption DEF IInv, TypeOK, Times
<1>4. SessionsOK' /\ Balances'
  BY <1>1, <1>3, BooksStay
<1> QED BY <1>2, <1>4 DEF IInv

LEMMA NextKeeps == IInv /\ [Next]_vars => IInv'
<1> SUFFICES ASSUME IInv, [Next]_vars PROVE IInv'
  OBVIOUS
<1>1. CASE SetAuthorizedBackend \/ SetTrustedOracle \/ \E on \in BOOLEAN : SetPaused(on)
  BY <1>1, SettingsKeep
<1>2. CASE \E t \in Tracks, split \in Splits : RegisterIPISplit(t, split)
  BY <1>2, RegisterKeeps
<1>3. CASE \E tx \in TxIds, t \in Tracks, hosts \in HostLists, v \in StreamValues :
             RecordStreamingTransaction(tx, t, hosts, v)
  BY <1>3, RecordKeeps
<1>4. CASE \E a \in Accounts, id \in CashoutIds, amount \in CashoutAmounts :
             RequestCashout(a, id, amount)
  BY <1>4, RequestKeeps
<1>5. CASE \E id \in CashoutIds, hosts \in HostLists : ExecuteCashout(id, hosts)
  BY <1>5, ExecuteKeeps
<1>6. CASE \E amount \in PoolAmounts : AllocateToSeedingPool(amount) \/ WithdrawPlatformFees(amount)
  BY <1>6, AllocateKeeps, WithdrawKeeps
<1>7. CASE \E n \in Nodes, id \in SeedingIds, d \in SeedDays : StartSeedingSession(n, id, d)
  BY <1>7, StartKeeps
<1>8. CASE \E id \in SeedingIds : ClaimSeedingReward(id)
  BY <1>8, ClaimKeeps
<1>9. CASE \E n \in Nodes, tier \in Tiers, u \in Uptimes : PromoteNodeTier(n, tier, u)
  BY <1>9, PromoteKeeps
<1>10. CASE \E a \in Artists :
              \/ \E total \in ExternalAmounts : RecordExternalStreamEarnings(a, total)
              \/ SettleExternalEarnings(a) \/ ResetExternalEarnings(a)
  BY <1>10, ExternalKeeps, SettleKeeps
<1>11. CASE Deposit \/ Tick
  BY <1>11, DepositKeeps
<1>12. CASE UNCHANGED vars
  BY <1>12, StutterKeeps
<1> QED BY <1>1, <1>2, <1>3, <1>4, <1>5, <1>6, <1>7, <1>8, <1>9, <1>10, <1>11, <1>12 DEF Next

\* The inductive invariant holds: entries have their types, splits are whole,
\* sessions end after they start, and the books balance.
THEOREM InvariantHolds == Spec => []IInv
BY InitHolds, NextKeeps, PTL DEF Spec

\* Type correctness: no amount goes below zero, although a cash-out request
\* reserves nothing (lines 563-617).
THEOREM TypeCorrect == Spec => []TypeOK
<1>1. IInv => TypeOK
  BY DEF IInv
<1> QED BY <1>1, InvariantHolds, PTL

\* What artists are owed, the fees taken, what accounts hold and what seeders
\* were given agree with what streams, settlements, cash-outs and sessions say,
\* to the wei and for any number of them (lines 489-721, 892-924).
THEOREM BooksAlwaysBalance == Spec => []BooksBalance
<1>1. IInv => BooksBalance
  BY BooksInSums DEF IInv
<1> QED BY <1>1, InvariantHolds, PTL

\* The steps a pause leaves move no money to anybody but the admin.
LEMMA PauseStops ==
    ASSUME IInv, [Next]_vars, paused
    PROVE  /\ \A a \in Accounts \ {Admin} : balance'[a] = balance[a]
           /\ artistEarnings' = artistEarnings
           /\ settlements' = settlements
<1>1. CASE SetAuthorizedBackend \/ SetTrustedOracle \/ \E on \in BOOLEAN : SetPaused(on)
  BY <1>1 DEF SetAuthorizedBackend, SetTrustedOracle, SetPaused, books
<1>2. CASE \E t \in Tracks, split \in Splits : RegisterIPISplit(t, split)
  BY <1>2 DEF RegisterIPISplit, books
<1>3. CASE \E amount \in PoolAmounts : AllocateToSeedingPool(amount)
  BY <1>3 DEF AllocateToSeedingPool
<1>4. CASE \E amount \in PoolAmounts : WithdrawPlatformFees(amount)
  <2> PICK amount \in PoolAmounts : WithdrawPlatformFees(amount)
    BY <1>4
  <2>1. amount \in Nat /\ Admin \in Accounts /\ TypeOK
    BY StreamingAssumption DEF IInv
  <2> DEFINE ps == <<[to |-> Admin, amount |-> amount]>>
  <2>2. ps \in Payees /\ \A a : ReceivedBy(a, ps) = IF a = Admin THEN amount ELSE 0
    BY <2>1, SinglePayment
  <2>3. Pay(ps) /\ UNCHANGED <<artistEarnings, settlements>>
    BY DEF WithdrawPlatformFees
  <2> HIDE DEF ps
  <2>4. \A a \in Accounts : balance'[a] = balance[a] + ReceivedBy(a, ps)
    BY <2>1, <2>2, <2>3, PayOK
  <2>5. \A a \in Accounts : balance[a] \in Nat
    BY <2>1 DEF TypeOK
  <2> QED BY <2>2, <2>3, <2>4, <2>5
<1>5. CASE \E n \in Nodes, tier \in Tiers, u \in Uptimes : PromoteNodeTier(n, tier, u)
  BY <1>5 DEF PromoteNodeTier
<1>6. CASE \E a \in Artists : ResetExternalEarnings(a)
  BY <1>6 DEF ResetExternalEarnings, books
<1>7. CASE Deposit
  <2>1. balance \in [Accounts \cup {Self} -> Nat] /\ Self \notin Accounts
    BY StreamingAssumption DEF IInv, TypeOK
  <2> QED BY <1>7, <2>1 DEF Deposit, books
<1>8. CASE Tick
  BY <1>8 DEF Tick, books
<1>9. CASE UNCHANGED vars
  BY <1>9 DEF vars, books
<1>10. /\ ~\E tx \in TxIds, t \in Tracks, hosts \in HostLists, v \in StreamValues :
               RecordStreamingTransaction(tx, t, hosts, v)
       /\ ~\E a \in Accounts, id \in CashoutIds, amount \in CashoutAmounts :
               RequestCashout(a, id, amount)
       /\ ~\E id \in CashoutIds, hosts \in HostLists : ExecuteCashout(id, hosts)
       /\ ~\E n \in Nodes, id \in SeedingIds, d \in SeedDays : StartSeedingSession(n, id, d)
       /\ ~\E id \in SeedingIds : ClaimSeedingReward(id)
       /\ ~\E a \in Artists : \/ \E total \in ExternalAmounts : RecordExternalStreamEarnings(a, total)
                              \/ SettleExternalEarnings(a)
  BY DEF NotPaused, RecordStreamingTransaction, RequestCashout, ExecuteCashout,
         StartSeedingSession, ClaimSeedingReward, RecordExternalStreamEarnings,
         SettleExternalEarnings
<1> QED BY <1>1, <1>2, <1>3, <1>4, <1>5, <1>6, <1>7, <1>8, <1>9, <1>10 DEF Next

\* While the contract is paused nobody but the admin receives anything and no
\* claim on its money arises (line 1017).
THEOREM PauseHolds == Spec => PauseStopsPayouts
<1>1. IInv /\ [Next]_vars =>
        [paused => /\ \A a \in Accounts \ {Admin} : balance'[a] = balance[a]
                   /\ artistEarnings' = artistEarnings
                   /\ settlements' = settlements]_vars
  BY PauseStops
<1> QED BY <1>1, InvariantHolds, PTL DEF Spec, PauseStopsPayouts
=============================================================================
