------------------------- MODULE StreamingRoyalties -------------------------
(***************************************************************************)
(* libs/contracts/src/RoyaltyDistributor.sol: what this larger variant of  *)
(* the distributor adds to the contract that RoyaltyDistributor models.    *)
(* Streams credit the parties of a track, who cash out later; a fee of     *)
(* every stream and cash-out goes to the hosts and to the platform, part   *)
(* of it to a pool that rewards seeding; earnings of other services are    *)
(* recorded by the admin and credited once per cycle.                      *)
(*                                                                         *)
(* A transaction is one step: BTT is an ERC-20 that runs nobody's code in  *)
(* transfer, which fails exactly when the balance is too small, and a      *)
(* failing transaction changes nothing.                                    *)
(***************************************************************************)
EXTENDS Integers, Sequences, FiniteSets

F == INSTANCE Functions

CONSTANTS Accounts, Admin, Self, ZeroAddress,
          Tracks, TxIds, CashoutIds, SeedingIds,
          Splits,          \* the arguments of registerIPISplit: [wallets, bps]
          HostLists,       \* host lists presented with streams and cash-outs
          StreamValues, CashoutAmounts, ExternalAmounts, PoolAmounts,
          Artists,         \* accounts with earnings at other services
          Nodes,           \* accounts that seed
          SeedDays, Tiers, Uptimes,
          MIN_STREAM_VALUE, BASE_REWARD,
          Day,             \* 24 hours in clock ticks
          Funding, MaxFunds, MaxTime   \* bounds of the model

BASIS_POINTS == 10000
NETWORK_FEE_BPS == 270
HOSTS_BPS == 9000
MAX_ARTISTS == 16

ASSUME StreamingAssumption ==
    /\ Admin \in Accounts /\ Self \notin Accounts /\ ZeroAddress \notin Accounts
    /\ Artists \subseteq Accounts /\ Nodes \subseteq Accounts
    /\ IsFiniteSet(Accounts) /\ IsFiniteSet(TxIds)
    /\ IsFiniteSet(CashoutIds) /\ IsFiniteSet(SeedingIds)
    /\ Splits \subseteq [wallets : Seq(Accounts \cup {ZeroAddress}), bps : Seq(Nat)]
    /\ HostLists \subseteq Seq(Accounts \cup {ZeroAddress})
    /\ \A n \in SeedDays : n \in 1..365
    /\ Tiers \subseteq 0..4 /\ Uptimes \subseteq 0..BASIS_POINTS
    /\ StreamValues \cup CashoutAmounts \cup ExternalAmounts \cup PoolAmounts \subseteq Nat
    /\ MIN_STREAM_VALUE \in Nat \ {0} /\ BASE_REWARD \in Nat /\ Day \in Nat \ {0}
    /\ Funding \in Nat /\ MaxFunds \in Nat /\ MaxTime \in Nat /\ MaxTime >= Day

VARIABLES artistEarnings, trackIPISplits, streamingTransactions, cashoutRequests,
          seedingSessions, hostReputation, externalEarnings,
          platformFeesAccumulated, seedingRewardsPool,
          configured,   \* authorizedBackend and trustedOracle are set
          paused,
          balance,      \* of the token
          now,
          settlements,  \* history: per artist, external earnings credited
          withdrawnFees \* history: platform fees paid out to the admin

books == <<artistEarnings, cashoutRequests, hostReputation,
           platformFeesAccumulated, seedingRewardsPool, withdrawnFees>>
vars == <<books, trackIPISplits, streamingTransactions, seedingSessions,
          externalEarnings, configured, paused, balance, now, settlements>>

NoSplit == [wallets |-> << >>, bps |-> << >>]
NoStream == [streamValue |-> 0, track |-> "none"]
NoCashout == [amount |-> 0, executed |-> FALSE]
NoSession == [seeder |-> ZeroAddress, rewarded |-> FALSE]
NoEarnings == [totalEarned |-> 0, totalWithdrawn |-> 0]
NoReputation == [tier |-> 0, uptime |-> 0, totalFeesEarned |-> 0,
                 seedingRewardsEarned |-> 0]
NotRecorded == [total |-> 0, settled |-> FALSE, cycle |-> 0]

Times == 0..MaxTime

TypeOK ==
    /\ artistEarnings \in [Accounts -> [totalEarned : Nat, totalWithdrawn : Nat]]
    /\ trackIPISplits \in [Tracks -> Splits \cup {NoSplit}]
    /\ streamingTransactions \in
         [TxIds -> [streamValue : StreamValues, track : Tracks] \cup {NoStream}]
    /\ cashoutRequests \in
         [CashoutIds -> [recipient : Accounts, amount : CashoutAmounts,
                         executed : BOOLEAN] \cup {NoCashout}]
    /\ seedingSessions \in
         [SeedingIds -> [seeder : Nodes, start : Times, end : Nat,
                         rewardPerDay : Nat, rewarded : BOOLEAN] \cup {NoSession}]
    /\ hostReputation \in
         [Accounts -> [tier : 0..4, uptime : 0..BASIS_POINTS,
                       totalFeesEarned : Nat, seedingRewardsEarned : Nat]]
    /\ externalEarnings \in
         [Artists -> [total : ExternalAmounts \cup {0}, settled : BOOLEAN, cycle : Nat]]
    /\ platformFeesAccumulated \in Nat /\ seedingRewardsPool \in Nat
    /\ configured \in [backend : BOOLEAN, oracle : BOOLEAN]
    /\ paused \in BOOLEAN
    /\ balance \in [Accounts \cup {Self} -> Nat]
    /\ now \in Times
    /\ settlements \in
         [Artists -> Seq([amount : ExternalAmounts, at : Times, cycle : Nat])]
    /\ withdrawnFees \in Nat

\* Every real time is a day after time 0, which is what lastDDEXSettlementTime
\* holds for an artist never settled.
Init ==
    /\ artistEarnings = [a \in Accounts |-> NoEarnings]
    /\ trackIPISplits = [t \in Tracks |-> NoSplit]
    /\ streamingTransactions = [t \in TxIds |-> NoStream]
    /\ cashoutRequests = [k \in CashoutIds |-> NoCashout]
    /\ seedingSessions = [s \in SeedingIds |-> NoSession]
    /\ hostReputation = [a \in Accounts |-> NoReputation]
    /\ externalEarnings = [a \in Artists |-> NotRecorded]
    /\ platformFeesAccumulated = 0 /\ seedingRewardsPool = 0
    /\ configured = [backend |-> FALSE, oracle |-> FALSE]
    /\ paused = FALSE
    /\ balance = [a \in Accounts \cup {Self} |-> 0]
    /\ now = Day
    /\ settlements = [a \in Artists |-> << >>]
    /\ withdrawnFees = 0

-----------------------------------------------------------------------------
(* Faults: single slips in the code below, for mutation runs *)

ArtistDust_Kept(value, split) == 0
NotPaused_Ignored == TRUE

-----------------------------------------------------------------------------
(* Fees *)

NetworkFee(amount) == (amount * NETWORK_FEE_BPS) \div BASIS_POINTS

HostNodesShare(fee) == (fee * HOSTS_BPS) \div BASIS_POINTS

FeePerHost(fee, hosts) == HostNodesShare(fee) \div Len(hosts)

\* The platform's tenth and what the division among the hosts leaves over.
PlatformShare(fee, hosts) ==
    (fee - HostNodesShare(fee))
    + (HostNodesShare(fee) - FeePerHost(fee, hosts) * Len(hosts))

HostPayments(fee, hosts) ==
    [i \in DOMAIN hosts |-> [to |-> hosts[i], amount |-> FeePerHost(fee, hosts)]]

-----------------------------------------------------------------------------
(* Transfers *)

NotPaused == ~paused

ReceivedBy(a, payments) ==
    F!SumFunction([i \in DOMAIN payments |->
                     IF payments[i].to = a THEN payments[i].amount ELSE 0])

Pay(payments) ==
    LET total == F!SumFunction([i \in DOMAIN payments |-> payments[i].amount])
    IN  /\ total <= balance[Self]
        /\ \A i \in DOMAIN payments : payments[i].to # ZeroAddress
        /\ balance' = [a \in Accounts \cup {Self} |->
                         IF a = Self THEN balance[a] - total
                         ELSE balance[a] + ReceivedBy(a, payments)]

CreditHosts(fee, hosts) ==
    [a \in Accounts |->
        [hostReputation[a] EXCEPT
            !.totalFeesEarned = @ + ReceivedBy(a, HostPayments(fee, hosts))]]

-----------------------------------------------------------------------------
(* The settings of the admin *)

SetAuthorizedBackend ==
    /\ configured' = [configured EXCEPT !.backend = TRUE]
    /\ UNCHANGED <<books, trackIPISplits, streamingTransactions, seedingSessions,
                   externalEarnings, paused, balance, now, settlements>>

SetTrustedOracle ==
    /\ configured' = [configured EXCEPT !.oracle = TRUE]
    /\ UNCHANGED <<books, trackIPISplits, streamingTransactions, seedingSessions,
                   externalEarnings, paused, balance, now, settlements>>

SetPaused(on) ==
    /\ paused' = on
    /\ UNCHANGED <<books, trackIPISplits, streamingTransactions, seedingSessions,
                   externalEarnings, configured, balance, now, settlements>>

-----------------------------------------------------------------------------
(* Streams *)

ValidSplit(split) ==
    /\ Len(split.wallets) \in 1..MAX_ARTISTS
    /\ Len(split.wallets) = Len(split.bps)
    /\ \A i \in DOMAIN split.wallets : split.wallets[i] # ZeroAddress
    /\ F!SumFunction(split.bps) = BASIS_POINTS

RegisterIPISplit(track, split) ==
    /\ trackIPISplits[track] = NoSplit
    /\ ValidSplit(split)
    /\ trackIPISplits' = [trackIPISplits EXCEPT ![track] = split]
    /\ UNCHANGED <<books, streamingTransactions, seedingSessions, externalEarnings,
                   configured, paused, balance, now, settlements>>

\* What a stream leaves to the artists, and what of it party i gets.
ArtistRoyalty(value) == value - NetworkFee(value)

PartOf(value, split, i) == (ArtistRoyalty(value) * split.bps[i]) \div BASIS_POINTS

ArtistDust(value, split) ==
    ArtistRoyalty(value)
    - F!SumFunction([i \in DOMAIN split.wallets |-> PartOf(value, split, i)])

Royalties(a, value, split) ==
    F!SumFunction([i \in DOMAIN split.wallets |->
                     IF split.wallets[i] = a THEN PartOf(value, split, i) ELSE 0])
    + (IF a = Admin THEN ArtistDust(value, split) ELSE 0)

RecordStreamingTransaction(tx, track, hosts, value) ==
    LET fee == NetworkFee(value)
        split == trackIPISplits[track]
    IN  /\ NotPaused /\ configured.backend
        /\ Len(hosts) \in 1..MAX_ARTISTS
        /\ value >= MIN_STREAM_VALUE
        /\ streamingTransactions[tx] = NoStream
        /\ split # NoSplit
        /\ streamingTransactions' = [streamingTransactions EXCEPT
              ![tx] = [streamValue |-> value, track |-> track]]
        /\ Pay(HostPayments(fee, hosts))
        /\ hostReputation' = CreditHosts(fee, hosts)
        /\ platformFeesAccumulated' = platformFeesAccumulated + PlatformShare(fee, hosts)
        /\ artistEarnings' = [a \in Accounts |->
              [artistEarnings[a] EXCEPT !.totalEarned = @ + Royalties(a, value, split)]]
        /\ UNCHANGED <<cashoutRequests, seedingRewardsPool, withdrawnFees,
                       trackIPISplits, seedingSessions, externalEarnings,
                       configured, paused, now, settlements>>

-----------------------------------------------------------------------------
(* Cash-outs *)

\* A request reserves nothing: the same earnings may be requested again.
RequestCashout(a, id, amount) ==
    /\ NotPaused
    /\ amount > 0
    /\ artistEarnings[a].totalEarned >= amount
    /\ cashoutRequests[id] = NoCashout
    /\ cashoutRequests' = [cashoutRequests EXCEPT
          ![id] = [recipient |-> a, amount |-> amount, executed |-> FALSE]]
    /\ UNCHANGED <<artistEarnings, hostReputation, platformFeesAccumulated,
                   seedingRewardsPool, withdrawnFees, trackIPISplits,
                   streamingTransactions, seedingSessions, externalEarnings,
                   configured, paused, balance, now, settlements>>

NetAmount(co) == co.amount - NetworkFee(co.amount)

\* The subtraction in checked arithmetic.
Covered(co) == artistEarnings[co.recipient].totalEarned >= co.amount

\* What is added to totalWithdrawn.
Withdrawn(co) == NetAmount(co)

ExecuteCashout(id, hosts) ==
    LET co == cashoutRequests[id]
        fee == NetworkFee(co.amount)
    IN  /\ NotPaused
        /\ co # NoCashout /\ ~co.executed
        /\ Len(hosts) > 0
        /\ Covered(co)
        /\ cashoutRequests' = [cashoutRequests EXCEPT ![id].executed = TRUE]
        /\ artistEarnings' = [artistEarnings EXCEPT
              ![co.recipient] = [totalEarned |-> @.totalEarned - co.amount,
                                 totalWithdrawn |-> @.totalWithdrawn + Withdrawn(co)]]
        /\ Pay(<<[to |-> co.recipient, amount |-> NetAmount(co)]>>
               \o HostPayments(fee, hosts))
        /\ hostReputation' = CreditHosts(fee, hosts)
        /\ platformFeesAccumulated' = platformFeesAccumulated + PlatformShare(fee, hosts)
        /\ UNCHANGED <<seedingRewardsPool, withdrawnFees, trackIPISplits,
                       streamingTransactions, seedingSessions, externalEarnings,
                       configured, paused, now, settlements>>

-----------------------------------------------------------------------------
(* Platform fees and the seeding pool: not stopped by a pause *)

AllocateToSeedingPool(amount) ==
    /\ amount <= platformFeesAccumulated
    /\ platformFeesAccumulated' = platformFeesAccumulated - amount
    /\ seedingRewardsPool' = seedingRewardsPool + amount
    /\ UNCHANGED <<artistEarnings, cashoutRequests, hostReputation, withdrawnFees,
                   trackIPISplits, streamingTransactions, seedingSessions,
                   externalEarnings, configured, paused, balance, now, settlements>>

WithdrawPlatformFees(amount) ==
    /\ amount <= platformFeesAccumulated
    /\ platformFeesAccumulated' = platformFeesAccumulated - amount
    /\ Pay(<<[to |-> Admin, amount |-> amount]>>)
    /\ withdrawnFees' = withdrawnFees + amount
    /\ UNCHANGED <<artistEarnings, cashoutRequests, hostReputation,
                   seedingRewardsPool, trackIPISplits, streamingTransactions,
                   seedingSessions, externalEarnings, configured, paused, now,
                   settlements>>

-----------------------------------------------------------------------------
(* Seeding *)

TierRewardMultiplier(tier) ==
    CASE tier = 4 -> 15000 [] tier = 3 -> 13500 [] tier = 2 -> 12000
      [] tier = 1 -> 11000 [] OTHER -> BASIS_POINTS

StartSeedingSession(n, id, days) ==
    /\ NotPaused
    /\ seedingSessions[id] = NoSession
    /\ seedingSessions' = [seedingSessions EXCEPT
          ![id] = [seeder |-> n, start |-> now, end |-> now + days * Day,
                   rewardPerDay |->
                     (BASE_REWARD * TierRewardMultiplier(hostReputation[n].tier))
                        \div BASIS_POINTS,
                   rewarded |-> FALSE]]
    /\ UNCHANGED <<books, trackIPISplits, streamingTransactions, externalEarnings,
                   configured, paused, balance, now, settlements>>

Reward(session) == session.rewardPerDay * ((session.end - session.start) \div Day)

\* The tier that the uptime alone would give; a claim raises to it, only the
\* admin lowers.
TierOf(uptime) ==
    CASE uptime >= 9995 -> 4 [] uptime >= 9990 -> 3
      [] uptime >= 9950 -> 2 [] uptime >= 9900 -> 1 [] OTHER -> 0

Promoted(rep) == IF rep.tier < TierOf(rep.uptime) THEN TierOf(rep.uptime) ELSE rep.tier

MayClaim(s) == ~seedingSessions[s].rewarded /\ now >= seedingSessions[s].end

ClaimSeedingReward(id) ==
    LET session == seedingSessions[id]
        reward == Reward(session)
        rep == hostReputation[session.seeder]
    IN  /\ NotPaused
        /\ session # NoSession /\ MayClaim(id)
        /\ reward <= seedingRewardsPool
        /\ seedingSessions' = [seedingSessions EXCEPT ![id].rewarded = TRUE]
        /\ seedingRewardsPool' = seedingRewardsPool - reward
        /\ hostReputation' = [hostReputation EXCEPT
              ![session.seeder] =
                 [rep EXCEPT !.totalFeesEarned = @ + reward,
                             !.seedingRewardsEarned = @ + reward,
                             !.tier = Promoted(rep)]]
        /\ Pay(<<[to |-> session.seeder, amount |-> reward]>>)
        /\ UNCHANGED <<artistEarnings, cashoutRequests, platformFeesAccumulated,
                       withdrawnFees, trackIPISplits, streamingTransactions,
                       externalEarnings, configured, paused, now, settlements>>

PromoteNodeTier(n, tier, uptime) ==
    /\ hostReputation' = [hostReputation EXCEPT ![n].tier = tier, ![n].uptime = uptime]
    /\ UNCHANGED <<artistEarnings, cashoutRequests, platformFeesAccumulated,
                   seedingRewardsPool, withdrawnFees, trackIPISplits,
                   streamingTransactions, seedingSessions, externalEarnings,
                   configured, paused, balance, now, settlements>>

-----------------------------------------------------------------------------
(* Earnings of other services *)

\* With the oracle's signature on the amounts; they replace earlier ones.
RecordExternalStreamEarnings(a, total) ==
    /\ NotPaused /\ configured.oracle
    /\ externalEarnings' = [externalEarnings EXCEPT ![a].total = total]
    /\ UNCHANGED <<books, trackIPISplits, streamingTransactions, seedingSessions,
                   configured, paused, balance, now, settlements>>

\* lastDDEXSettlementTime
LastSettlement(a) ==
    IF settlements[a] = << >> THEN 0 ELSE settlements[a][Len(settlements[a])].at

SettleExternalEarnings(a) ==
    LET ext == externalEarnings[a]
    IN  /\ NotPaused
        /\ ext.total > 0 /\ ~ext.settled
        /\ now >= LastSettlement(a) + Day
        /\ externalEarnings' = [externalEarnings EXCEPT ![a].settled = TRUE]
        /\ artistEarnings' = [artistEarnings EXCEPT ![a].totalEarned = @ + ext.total]
        /\ settlements' = [settlements EXCEPT
              ![a] = Append(@, [amount |-> ext.total, at |-> now, cycle |-> ext.cycle])]
        /\ UNCHANGED <<cashoutRequests, hostReputation, platformFeesAccumulated,
                       seedingRewardsPool, withdrawnFees, trackIPISplits,
                       streamingTransactions, seedingSessions, configured, paused,
                       balance, now>>

ResetExternalEarnings(a) ==
    /\ externalEarnings[a].settled
    /\ externalEarnings' = [externalEarnings EXCEPT
          ![a] = [total |-> 0, settled |-> FALSE, cycle |-> @.cycle + 1]]
    /\ UNCHANGED <<books, trackIPISplits, streamingTransactions, seedingSessions,
                   configured, paused, balance, now, settlements>>

-----------------------------------------------------------------------------

\* Somebody sends BTT to the contract.
Deposit == /\ balance[Self] + Funding <= MaxFunds
           /\ balance' = [balance EXCEPT ![Self] = @ + Funding]
           /\ UNCHANGED <<books, trackIPISplits, streamingTransactions,
                          seedingSessions, externalEarnings, configured, paused,
                          now, settlements>>

Tick == /\ now < MaxTime
        /\ now' = now + 1
        /\ UNCHANGED <<books, trackIPISplits, streamingTransactions,
                       seedingSessions, externalEarnings, configured, paused,
                       balance, settlements>>

Next ==
    \/ SetAuthorizedBackend \/ SetTrustedOracle
    \/ \E on \in BOOLEAN : SetPaused(on)
    \/ \E t \in Tracks, split \in Splits : RegisterIPISplit(t, split)
    \/ \E tx \in TxIds, t \in Tracks, hosts \in HostLists, v \in StreamValues :
          RecordStreamingTransaction(tx, t, hosts, v)
    \/ \E a \in Accounts, id \in CashoutIds, amount \in CashoutAmounts :
          RequestCashout(a, id, amount)
    \/ \E id \in CashoutIds, hosts \in HostLists : ExecuteCashout(id, hosts)
    \/ \E amount \in PoolAmounts : \/ AllocateToSeedingPool(amount)
                                   \/ WithdrawPlatformFees(amount)
    \/ \E n \in Nodes, id \in SeedingIds, d \in SeedDays : StartSeedingSession(n, id, d)
    \/ \E id \in SeedingIds : ClaimSeedingReward(id)
    \/ \E n \in Nodes, tier \in Tiers, u \in Uptimes : PromoteNodeTier(n, tier, u)
    \/ \E a \in Artists :
          \/ \E total \in ExternalAmounts : RecordExternalStreamEarnings(a, total)
          \/ SettleExternalEarnings(a) \/ ResetExternalEarnings(a)
    \/ Deposit \/ Tick

Spec == Init /\ [][Next]_vars

-----------------------------------------------------------------------------
(* Properties *)

\* What artists can still cash out is what streams and settlements credited
\* minus what was cashed out, to the wei: no rounding loses anything, and two
\* requests for the same earnings never take them twice although a request
\* reserves nothing (lines 563-577, 582-617, 897-925).
EarningsAddUp ==
    LET Credited == {x \in TxIds : streamingTransactions[x] # NoStream}
        Executed == {x \in CashoutIds : cashoutRequests[x].executed}
    IN  F!SumFunction([a \in Accounts |-> artistEarnings[a].totalEarned])
        = F!SumFunction([x \in Credited |->
                           ArtistRoyalty(streamingTransactions[x].streamValue)])
          + F!SumFunction([a \in Artists |->
               F!SumFunction([i \in DOMAIN settlements[a] |-> settlements[a][i].amount])])
          - F!SumFunction([x \in Executed |-> cashoutRequests[x].amount])

\* Every fee taken, of streams and of cash-outs, was paid to hosts or seeders,
\* waits with the platform or in the pool, or was withdrawn by the admin.
FeesAddUp ==
    LET Credited == {x \in TxIds : streamingTransactions[x] # NoStream}
        Executed == {x \in CashoutIds : cashoutRequests[x].executed}
    IN  F!SumFunction([x \in Credited |->
                         NetworkFee(streamingTransactions[x].streamValue)])
        + F!SumFunction([x \in Executed |-> NetworkFee(cashoutRequests[x].amount)])
        = F!SumFunction([a \in Accounts |-> hostReputation[a].totalFeesEarned])
          + platformFeesAccumulated + seedingRewardsPool + withdrawnFees

\* What an account holds is what its records say it was paid.
HoldingsMatchRecords ==
    \A a \in Accounts :
       balance[a] = artistEarnings[a].totalWithdrawn
                    + hostReputation[a].totalFeesEarned
                    + (IF a = Admin THEN withdrawnFees ELSE 0)

\* What a seeder was given is the reward of each of its sessions once, none
\* before its last day (lines 693-721).
SessionsArePaidOnce ==
    \A n \in Nodes :
       LET Rewarded == {s \in SeedingIds : /\ seedingSessions[s].rewarded
                                          /\ seedingSessions[s].seeder = n}
       IN  /\ hostReputation[n].seedingRewardsEarned
               = F!SumFunction([s \in Rewarded |-> Reward(seedingSessions[s])])
           /\ \A s \in Rewarded : seedingSessions[s].end <= now

\* The money is accounted for: what artists are owed, what was taken as a fee,
\* what accounts hold and what seeders were given all agree with each other and
\* with what streams, settlements, sessions and cash-outs say (lines 489-721,
\* 892-924).
BooksBalance == /\ EarningsAddUp
                /\ FeesAddUp
                /\ HoldingsMatchRecords
                /\ SessionsArePaidOnce

\* "Emergency pause - halts all distributions" (line 1017): nobody but the
\* admin receives anything while it is on, and no claim on the contract's
\* money arises.
PauseStopsPayouts ==
    [][paused => /\ \A a \in Accounts \ {Admin} : balance'[a] = balance[a]
                 /\ artistEarnings' = artistEarnings
                 /\ settlements' = settlements]_vars

-----------------------------------------------------------------------------
(* What the code's comments say and the code does not do, see README.md *)

\* "User pays streamValue in full" (line 489): what the contract owes, it has.
CreditsAreFunded ==
    F!SumFunction([a \in Accounts |-> artistEarnings[a].totalEarned])
    + platformFeesAccumulated + seedingRewardsPool <= balance[Self]

\* "Transfers accumulated DDEX royalties to artist's earnings balance" (line
\* 894): the amounts a reset clears are those of the settlement before it.
ResetsLoseNothing ==
    [][\A a \in Artists : ResetExternalEarnings(a) =>
         externalEarnings[a].total = settlements[a][Len(settlements[a])].amount]_vars
=============================================================================
