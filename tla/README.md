# Verification of Retrosync

TLA+ models of the parts of Retrosync that keep state: the contracts that
distribute royalties and record publishing agreements, and the parts of the API
server whose handlers share stores, counters, files or outside services. Every
definition is a translation of the source; `PROJECT.json` says which lines it
stands for.

    cd tla
    tlc -workers 2 -config MCRoyaltyDistributor.cfg MCRoyaltyDistributor.tla
    tlapm RoyaltyDistributorProofs.tla

1. The system, 2. The modules, 3. What is checked, 4. Bounds and fairness,
5. What is proved, 6. Where code and documentation disagree, 7. Abstractions,
8. What is not modelled.

## 1. The system

A track is uploaded to the API server (`apps/api-server`), stored on BTFS,
described to the music industry's registries (DDEX, collection societies, ...)
and given a band by the Master Pattern. Its contributors sign a publishing
agreement on chain; the last signature mints a token that cannot be
transferred. Royalties, in BTT, are distributed on chain to the artists once a
zero-knowledge proof of their shares is verified. Sales reports of streaming
services come back through SFTP, payouts in USDC are proposed to a Safe vault,
and postings go to SAP.

| Part | State | Operations | What is hard |
|---|---|---|---|
| `contracts/src/RoyaltyDistributor.sol` | track records, timelock queue, pause flag, reentrancy lock | distribute, executeQueued, cancelQueued, emergencyPause, unpause | calls from inside a transfer, partial failure and revert, two ways to pay one CID, the delay |
| `contracts/src/PublishingAgreement.sol` | agreements, ISRC index, signatures | propose, sign, cancel | call into another contract, an index by ISRC that outlives an agreement, ids made of the block |
| `contracts/src/SoulboundNFT.sol` | owners, tokens, totals, minter | setMinter, mint, burn | a burned token must keep its ISRC |
| `contracts/src/ZKVerifier.sol`, `OracleZKVerifier.sol` | verifying key, published vectors | setVerifyingKey, verifyProof, publish | byte and word counts of the encoding |
| `libs/contracts/src/RoyaltyDistributor.sol` | balances, cash-outs, seeding sessions, external earnings | about twenty entry points | requests that reserve nothing, settlement cycles |
| `persist.rs` | an LMDB environment per store | put, append, update, get | update reads and writes in two transactions; failed writes |
| `takedown.rs`, `moderation.rs` | records in LMDB | submit, counter, resolve | concurrent handlers, ignored write errors, restarts |
| `kyc.rs`, `privacy.rs` | records in LMDB | submit, screen, consent, queue deletion | a record replaced between two reads, failed writes |
| `main.rs` upload, `publishing.rs` and what they call | audit log and counters in memory; files, chain and messages outside | upload, register | failures between the steps, counts in several places |
| `wallet_auth.rs`, `auth.rs` | pending challenges in memory | issue, consume and verify, check of tokens | single use under concurrency, expiry boundaries |
| `rate_limit.rs` | request times per client | check | the clock is read before the lock is taken |
| `ddex_gateway.rs`, `sftp.rs` | event numbers, staging directories, child processes, the stores' directories | push messages, ingest sales reports | shared staging files, processes that fail, hang and outlive their request, deletion before the answer |
| `multisig_vault.rs` | none of its own; the Safe's queue | propose a payout, list, look up | nonces of proposals that are not executed yet |
| `sap.rs` | none of its own; SAP's documents, the audit log | post royalties, send IDocs, synchronise vendors | lost and late calls and answers, retries, a log that a restart empties |
| `gtms.rs` | classifications and screenings behind locks | classify, screen | three steps per request, restarts |
| `collection_societies.rs`, `royalty_reporting.rs`, `xslt.rs`, `dqi.rs`, `bwarm.rs` | none; tables and formats | route, report, score, look at rights | tables of two files that must fit, trailers that count, order of confirmations |
| `shard.rs`, `fraud.rs`, `zk_cache.rs`, other clients and formats | maps in memory or none | | see 8 |
| `libs/shared`, `libs/stego`, `libs/zk-circuits`, `circuits` | none | pure functions, constraint systems | |
| `apps/web-client`, `apps/wasm-frontend`, `tools` | user interface, one-shot programs | | |

Interactions: RoyaltyDistributor calls the verifier and the token;
PublishingAgreement calls SoulboundNFT; the handlers of the API server share the
stores, the rate limiter, the challenge store, the counters and the audit log of
one `AppState`; registration reads the records that KYC submissions replace; the
upload's filter writes into the moderation queue.

What makes each part correct, in a sentence: a CID is paid once, in the right
shares, and large amounts only after notice; a track has one live agreement and
a token exactly when it is fully signed, for ever; a valid proof is accepted;
what a handler answers is what the store holds after any interleaving; a
registration names only contributors who were cleared; an upload that succeeds
took every step; a challenge gives one session to its own wallet; no window
holds more requests than the limit; a sales report is deleted only when read;
a receipt tells what a store holds; two payouts never share a nonce; every
posting of the running server is on record; the tables of different files fit
together. Not all of that is so: 3 says what holds, 6 what does not.

## 2. The modules

### Contracts

**RoyaltyDistributor** (`contracts/src/RoyaltyDistributor.sol`, of `MockBTT.sol`
only `transfer`). State: `trackRecords`, `pending` (the timelock queue),
`paused`, the lock, token balances, the clock, and a stack `calls` of calls in
progress with the state each reverts to. `Distribute` is a call up to its
transfer loop and `QueueDistribution` one that only queues; `ExecuteQueued`
starts the same loop. `PayArtist` is one iteration of it, `PayDustAndReturn`
what follows, `Revert` a transfer that fails, which takes back everything since
the call began. A transfer is where other code runs: while a call is open, any
account may call in again, and `NonReentrant` decides. `CancelQueued`,
`EmergencyPause` and `Unpause` are one action each. A call that is refused
changes nothing and is no step. `Settlement` is the abstract specification: a
CID is settled at most once, and above the cap only after a notice of the full
delay.

**SoulboundNFT** and **PublishingAgreement** (the contracts of the same names).
The token contract is a module of state and operations without a
specification of its own; `PublishingAgreement` EXTENDS it, since `sign()` calls
`mint()` in the same transaction. `SignAndMint` is the last signature with the
mint it needs; it is not enabled when the mint reverts. An agreement's id is the
pair of ISRC and block, as the code hashes them: proposing, cancelling and
proposing in one block meets the same id.

**StreamingRoyalties** (`libs/contracts/src/RoyaltyDistributor.sol`): what this
larger variant adds to the distributor. A stream credits the parties of its
track (`artistEarnings`), a cash-out is requested and later executed by anybody,
every fee is split among hosts and platform, the platform's part feeds a pool
that rewards seeding, and earnings at other services are recorded, settled and
reset in cycles. A transaction is one step here: reentrancy is the subject of
RoyaltyDistributor, and MockBTT's `transfer` runs nobody's code. `Pay` is the
transfers of a transaction together; it is not enabled when the contract holds
too little, in which case the transaction reverts.

**ZKVerifier** (`contracts/src/ZKVerifier.sol`). A proof is its length and the
statement it proves; `Decodes` counts the words that `abi.decode` needs.

### Stores and their handlers

**LmdbStore** (`persist.rs`). A database is a function from keys to values or
`Absent`. `Put` is one transaction; `update()` is `UpdateRead` and
`UpdateWrite`, since it reads in one transaction and writes in another. Handlers
of different requests come between. Used by:

- **Takedown** (`takedown.rs`): a submission adds the notice and then updates its
  status; a counter-notice updates it. `job` is what each handler is doing,
  `copy` what its update has read, `told` what clients were answered.
- **Moderation** (`moderation.rs`, and the upload filter in `main.rs`):
  reports of users with random ids, reports of the filter with the id
  `ART17-<isrc>`, resolutions, and the referral task that is spawned and not
  stored.

Both let any write fail (when `StorageFails`) with the error handling of the
code, which differs from call to call, and have a `Restart` that keeps the
database and nothing else.

**UserRecords** (`kyc.rs`, `privacy.rs`): a KYC record per user, replaced by each
submission whatever it said; a list of consents that is read from its end;
deletion requests. Every operation is one transaction here, `append()` too, and
a failed write is logged and forgotten.

**TrackUpload** (`main.rs`, `publishing.rs`, `audio_qc.rs`, `dsp.rs`, `btfs.rs`,
`bttc.rs`, `ddex.rs`, `mirrors.rs`, `metrics.rs`, `iso_store.rs`) EXTENDS
UserRecords. `job[w].pc` names the next await or the next access to shared
counters of the handler: an upload goes from `exists` (the filter's query)
through `wiki`, `btfs`, `bttc`, `ddex`, `mirrors`, `count`, `band` and `latency`
to `done`, a registration from `look` and `permit` (the two reads of each
contributor's record) through `deliver`, `register`, `count` and `band` to
`answer`. Each call to a service succeeds, or fails before or after it had its
effect. `mode` is the two development switches. A restart keeps what is in
stores and services and empties `audit` and `metrics`: `AuditStore` keeps its
list in memory whatever path it is opened with. That a registration is answered
with the band the client claimed, and stored nowhere, is in
`FinishRegistration`.

### Services of the API server

**WalletAuth** (`wallet_auth.rs`, `auth.rs`). `Issue` purges and inserts,
`Consume` removes a challenge under the mutex whatever comes of it, `Accept` and
`Reject` are the rest of the handler, later. A token is what its payload says.
`Serve` is any request with it. An address is its digits with or without `0x`,
because the comparison in the code depends on it.

**RateLimiter** (`rate_limit.rs`). A request reads the clock (`Arrive`), and
takes the mutex later (`Pass` or `Refuse`). `windows` is the map from
(bucket, client) to its list of times, kept as how often each time is listed:
the code pushes, drops what is too old and counts, for all of which the order of
the list does not matter. `passed` is history.

**DsrGateway** (`ddex_gateway.rs`, the download side of `sftp.rs`,
`dsr_parser.rs` as far as it decides between success and failure). A cycle
visits the stores in order, lists each, and for every report transfers it to its
staging file, checks the size, parses, and deletes the original where the store
is configured so. Staging files are shared between cycles: `staged` says which
cycle's transfer truncated the file last and whether it is complete. Transfers
and deletions are processes of their own (`child`, by number of the cycle), not
started with `kill_on_drop`: `Truncates` is a transfer that opens its file,
`GetEnds`, `GetFails`, `Delete` and `DeleteFails` end one that the handler waits
for. `Abandon` is a client that goes away or a server that stops; it drops the
handler and leaves the process, which may still truncate the file and ends in
`OrphanEnds`, with its effect or without. A listing changes nothing, so that only
its end (`List`) is modelled. `readWhole`, `crossed`, `deletions` and `answered`
are history.

**ErnPush** (the other half of `ddex_gateway.rs`, the upload side of `sftp.rs`).
`Stage` writes the message under a name made of the ISRC and the next event
number, `PutBegins` reads the file for the receipt, `PutSucceeds` and `PutFails`
are the transfer, one store after the other. `Restart` starts the numbers again.

### Behind the payments

**MultisigVault** (`multisig_vault.rs`, with the Safe and its owners as the
environment). `Propose` is the handler up to the first await, `FetchNextNonce`
and `PostProposal` the two calls, `Execute` an execution by the owners. The
actions for handlers that only read keep their last answer in `view`.

**SapPosting** (`sap.rs`, `iso_store.rs`). A request is checked, logged, sent,
acted on by SAP (`Acts`) and answered. Requests are numbered, and an audit record
is the number of its request. A call may be lost, its answer may be, or it runs
into the client's 30 seconds (`Fails`); SAP may act on it after the client has
given up or the server has stopped, and the same correlation id may be sent
again. `SapRestart` drops the requests in progress and empties the audit log,
which is a list in memory; `since` is where the life of the present server
began.

**Gtms** (`gtms.rs`). `Takes` evaluates a request, `Log` and `Save` are the two
locked steps after it. A restart empties the stores and the log.

**CollectionSocieties**, **RoyaltyReporting** (with `xslt.rs`), **Dqi** and
**Bwarm** are operators: the register of 130 societies and the routing over it;
the records of CWR files with their counters, the tables, JSON and XML of the
same works; the score of a track; the state of a rights record. **RightsDesk**
composes them to the handlers that use them. It keeps nothing, so its state is
the request being served: the model checker runs through the inputs, and the
properties relate what different files compute from one input.

### Instances and proofs

Modules named `MC...` give constants their values. Four of them put components
that share no state side by side in one run: the initial state picks the one a
behaviour is about (`unit` or `half`) and the others stand still, so that each
is explored in full and the state space is the sum and not the product. That is
a matter of packaging; nothing is claimed about interactions between them.
`MCServices` is Moderation, RateLimiter and WalletAuth, `MCGateway` DsrGateway and
ErnPush, `MCRoyaltyOffice` MultisigVault, SapPosting, Gtms and RightsDesk, `MCTrackUpload`
the uploads with the KYC store and, apart from them, the privacy store. Modules
that meet in one instance, or in one module of proofs, name their `Init`, `Next`,
`Spec` and type invariant after themselves (`VaultSpec`, `UploadNext`, ...).

Modules named `...Proofs` hold theorems. Operators whose name has an underscore
(`MayExecute_Overtaken`) are single slips of the code that `PROJECT.json` lists
as mutants: each property is violated by one of them.

## 3. What is checked

| Run | Distinct states | What it shows |
|---|---|---|
| `royalty_distributor` | 164 thousand | Whatever the token's code calls back, whatever transfer fails, and however direct, queued, cancelled and paused distributions mix, a CID is paid once (`PaidMatchesRecord`) in the shares of one request (`AccountsHoldTheirShares`); large amounts only through an uncancelled queue entry whose time has come (`LargePaymentsWereQueued`); a pause stops both ways (`PauseHaltsDistributions`); the lock is held exactly during a call (`OneCallAtATime`) and always given back (`LockIsReleased`). The contract implements `Settlement` (`SettlesAsPromised`). |
| `publishing_agreement` | 358 thousand | One live agreement per track although cancellation frees by ISRC and ids repeat within a block (`OneLiveAgreement`); the counter that triggers the mint is exact (`SignaturesAreCounted`); the two contracts agree (`MintedIffAllSigned`); nothing changes a finished attribution (`AttributionIsPermanent`). |
| `streaming_royalties` | 630 thousand | Every wei is accounted for (`BooksBalance`): artists' claims are what streams and settlements credited minus what was cashed out, although requests reserve nothing; fees are with hosts, seeders, platform, pool or admin; holdings match the records of payments; a seeding session is rewarded once. A pause stops payments to everybody but the admin (`PauseStopsPayouts`). |
| `takedown` | 721 thousand | An answered notice is stored, across restarts and failing writes (`AnsweredNoticesAreStored`); a counter-notice is never undone (`CounterNoticesStay`), although `update()` is two transactions, because nobody knows an id before its submission has been answered. |
| `services` | 2.26 million | Moderation: only a write that failed, and was logged, loses an answered report (`OnlyFailedWritesLoseReports`); reports with random ids are resolved atomically (`UserReportsResolveAtomically`). Rate limiter: reading the clock before the lock costs at most one request per other request in progress (`OverrunIsBounded`). Login: a challenge gives at most one token, to its own address, under concurrent verifications and restarts (`OneTokenPerChallenge`); a request is served only within a session's lifetime (`ServedMeansLoggedIn`). |
| `gateway` | 1.02 million | Pull: every listed report is counted once, processed or rejected (`CountsAddUp`); however cycles overlap, fail and are given up while their processes go on, a report that disappears from its store was parsed from a complete copy, or another cycle's transfer truncated its staging file under the cycle using it (`OnlyCrossedReportsAreLost`); a cycle ends or waits for a child process for ever (`EveryCycleEndsOrHangs`). Push: while the server that made it runs, a receipt tells what the store holds under that name, whatever other pushes do (`ReceiptsAreTrue`); an answer names each store the message was meant for once, and no other store is written to (`AnswersCoverTheTargets`). |
| `track_upload` | 1.76 million, by symmetry | An upload that is answered with success is in BTFS and, in production, on the chain and delivered, with the band that was answered (`AnsweredUploadsAreWhole`); every contributor of a registration had a record that permits payouts at some time during the request, however submissions come between the two reads of it (`RegistrantsWereCleared`); counters, counters by band and audit log agree but for requests between two of them (`CountsAgreeWithTheAudit`); of several consents the last one answered counts (`LastWordCounts`). |
| `royalty_office` | 118 thousand | Vault: payouts stay within their pool (`SplitsStayInThePool`) and no transaction waits for one that was never posted (`NothingWaitsForAGap`). SAP: an answer "Posted" has its document, and a document that the running server asked for is in its log, whatever is lost or late and across restarts (`EveryBookingIsAccounted`), and every request is answered (`SapRequestsEnd`). GTMS: what is stored was logged first, whoever overwrote what and across restarts (`StoredResultsWereLogged`). Desk: territories that royalties are reported for have a society in the register, three excepted (`ReportedTerritoriesAreRouted`); a track without an issue is at least Silver (`SilentLossesAreSmall`); a confirmation never sets a rights record back (`ConfirmationsNeverSetBack`); the trailers of CWR files count what is in them (`CwrFilesAddUp`); the XML of a work agrees with its CWR records (`XmlAgreesWithCwr`). |
| `zk_verifier` | - | `ValidProofsAreAccepted` fails, see 6. |
| `vault_nonce` | - | `OnePendingPerNonce` fails, see 6. |
| `production_upload` | - | `FailedUploadsHaveAFault` fails, see 6. |
| `gateway_deletion` | - | `DeletedMeansReadWhole` fails with one handler, see 6. |

The type invariants (`TypeOK`, or named after their module) are proved, except
that of ZKVerifier, whose run expects a violation. Without the development bypass nobody gets a token
(6), so the login runs with the bypass chosen at every start: the properties
about tokens are about both settings.

## 4. Bounds and fairness

- *Royalties*: two CIDs (two is what a call inside a transfer needs: the same
  and another one), three artists, four valid and eight invalid requests, amounts
  7, 10, 13 and 17 around the cap 10, delay 2, clock to 4, deposits of 15
  up to 30, so that a transfer may also fail for lack of funds.
- *Agreements*: two tracks, three wallets, two blocks, four proposals that
  `propose()` accepts (one party, three, one wallet twice, a band the token
  contract refuses) and one per refusal. Two blocks are enough for an id to be
  met again and for another id of the same track.
- *Streaming*: one track of two parties whose shares leave dust, one stream
  (and one below the minimum), host lists of one and of three with a repeated
  host, two cash-outs of 300 that one party can cover once and the other twice,
  two external amounts, deposits of 400 up to 800, a day of two ticks and a
  clock to four; cash-out ids are symmetric.
- *Notices and reports*: two ids; three and two handlers, so that two meet while
  a third submits; two uploads by the filter.
- *Rate limiter*: two requests in progress, one known and one unknown client, a
  limit of 2 and the unknown client's of 1, a window of two ticks in four, five
  requests.
- *Login*: two ids, two handlers, two wallets, a challenge lifetime of 2 and a
  session of 1 within a clock to 3: expiry is reached exactly and passed.
- *Sales reports*: two stores (one deletes, one keeps), one report per kind (good,
  too small, not text, a name the code refuses, kept), of which two are there at
  a time: the good one, dropped at any moment, and at most one other from the
  start. Two handlers run two cycles between them, so that a cycle meets a
  running cycle or the process of one that was given up. `gateway_deletion`
  needs one handler only. *Messages*: two concurrent pushes of
  one recording to any of three stores, of which one takes no messages, and one
  restart. The theorems of 5 cover any number of cycles, pushes and stores.
- *Uploads*: two handlers and two requests between them, which is what a count
  needs to be lost; one recording; four files (good, low quality, too large,
  forbidden); registrations of one and of two contributors, one country that
  passes the screening and one that does not; three consents.
- *Office*: two handlers everywhere; three proposals of four lists (uneven shares
  of pools that do not divide, a sum that is not whole, a bad wallet); two SAP
  requests with amounts that are negative, equal, and out of order, and any
  number of restarts; two screenings under one id, of a blocked, a restricted and a free country, on
  both sides of the amount that needs a review. The desk's inputs: every
  territory of the reporting table and one unknown; tracks with any two fields
  missing or invalid, any set of fields that draw no issue missing, any set of
  heavy fields invalid; batches of none, one and two works over four lists of
  writers and six country codes.

`CHECK_DEADLOCK FALSE` stands where a bound stops the model (blocks, clock and
request counts, cycles), not where the program could stop.

Fairness: `WF(CallStep)` in RoyaltyDistributor says that a transaction, once
started, runs to its end, which the virtual machine guarantees. In DsrGateway
`WF(OwnStep(c))` says that a handler that can go on is scheduled (a tokio
executor polls every ready task). Lists, transfers and deletions wait for a
process (`sftp.rs` 212, 233, 297, 349) and have no fairness, because the code
applies no time-out to any: `EveryCycleEndsOrHangs` says that such a wait is the
only thing that keeps a cycle from ending, neither a failing list, transfer,
check or deletion nor the loop over the stores. In SapPosting
`WF(Succeeds(h) \/ Fails(h))` is guaranteed by the client's time-out of 30
seconds (`sap.rs` 89). The other modules are safety only and state no fairness.

## 5. What is proved

With TLAPS, for every value of the constants that satisfies the modules' named
assumptions:

| Module | Theorems |
|---|---|
| `RoyaltyDistributorProofs` | `TypeCorrect`, `GuardIsExclusive` (OneCallAtATime), `PaidExactlyOnce` (PaidMatchesRecord), `LargePaymentsWait` (LargePaymentsWereQueued), `PauseStopsPayments` (PauseHaltsDistributions), `AccountsAreExact` (AccountsHoldTheirShares), `ImplementsSettlement` (SettlesAsPromised: RoyaltyDistributor refines Settlement) |
| `StreamingRoyaltiesProofs` | `TypeCorrect`, `BooksAlwaysBalance` (BooksBalance), `PauseHolds` (PauseStopsPayouts, an action property) |
| `PublishingProofs` | Agreements: `TypeCorrect`, `LiveAgreementIsUnique`, `CounterIsExact`, `ContractsAgree`, `PermanentAttribution` (an action property). Uploads: `UploadTypeCorrect`, `UploadsAreWhole` (AnsweredUploadsAreWhole), `RegistrantsCleared` (RegistrantsWereCleared), `CountsAgree` (CountsAgreeWithTheAudit), `LastWordHolds` (LastWordCounts) |
| `TakedownProofs` | `TypeCorrect`, `NoticesSurvive`, `NoLostUpdate`, `CountersStay` (the last two action properties) |
| `ServicesProofs` | Moderation: `TypeCorrect`, `ReportsAreKept` (OnlyFailedWritesLoseReports), `ResolutionsAreAtomic` (UserReportsResolveAtomically, an action property). Rate limiter: `LimiterTypeCorrect`, `OverrunStaysBounded` (OverrunIsBounded). Login: `AuthTypeCorrect`, `ChallengesAreTakenOnce`, `OneSession` (OneTokenPerChallenge), `SessionsEnd` (ServedMeansLoggedIn) |
| `RoyaltyOfficeProofs` | Vault: `NoGaps` (NothingWaitsForAGap), `SplitsFit` (SplitsStayInThePool). SAP: `BookingsHaveRecords` (EveryBookingIsAccounted). GTMS: `StoredMeansLogged` (StoredResultsWereLogged). Desk: `TrailersCountTheFiles` (CwrFilesAddUp), `FormatsAgree` (XmlAgreesWithCwr), `ConfirmationsOnlyHelp` (ConfirmationsNeverSetBack), `NoIssueMeansSilver` (SilentLossesAreSmall), `RoyaltiesReachSomebody` (ReportedTerritoriesAreRouted) |
| `GatewayProofs` | Pull: `TypeCorrect`, `CountersAddUp` (CountsAddUp), `OnlyCrossedReports` (OnlyCrossedReportsAreLost, an action property). Push: `ErnTypeCorrect`, `Receipts` (ReceiptsAreTrue), `Answers` (AnswersCoverTheTargets) |
| `SumTheorems` | lemmas about sums that the other modules cite |

Each component has an inductive invariant (`IInv`, `LimiterInv`, `UploadIInv`,
...) and a lemma per action that the action keeps it; the theorems follow. The
assumptions on the constants are those the modules name, and TLC evaluates them
in the runs.

*Sums.* The models add up amounts with the folds of the community modules. What
a fold returns needs induction over a finite set, and the library's induction
theorems take the statement as an operator, which the provers cannot
instantiate. `SumTheorems` does without: the counterexamples of a statement are
a set of subsets of a finite set, strict inclusion is well-founded on it, and a
smallest counterexample contradicts the fold's recursion (`SmallestBad`). From
that follow that a sum is an integer, what adding, removing or changing one
summand does to it, sums of sums, and sums grouped by owner.

*Royalties.* Payments agree with the records only between calls. The invariant
says what holds in the middle: the lock makes the stack at most one deep, the
state saved at the call's start was consistent, the current one differs from it
by the call's own record and transfers, and the running total is what was
sent. A revert returns to the saved state, the return reaches the total.
The verifier is a parameter without assumptions. For the accounts
(`AccountsAreExact`) the invariant names a witness: some choice of one valid
request per distributed CID `Backs` the balances outside a call; inside one it
backs the balances saved at the call's start, and each account has since got its
shares of the entries behind the loop's index (`PartlyPaid`). The return adds
one request to the choice, the dust going to the admin, and a revert takes the
saved balances back.

*Refinement.* The abstract state is read off the state outside any call
(`Committed`), so the start of a call, its transfers and its reversal are
stutters and its return is the step that settles. What allows that step was
checked at the start; `RInv` adds to `IInv` the grounds of the open call
(`Grounds`): a small amount and an untouched queue, or an entry that was due,
in force and is now marked executed. Queueing maps to `GiveNotice`, cancelling
to `WithdrawNotice`, everything else but the clock to a stutter.

*Agreements.* To the invariants, `PointersMatch` is added: an ISRC points to
agreements of its own track only. With that, cancelling, which frees by ISRC,
cannot free another track's, and the last signature mints for the agreement the
ISRC points to. `PermanentAttribution` follows step by step from the invariant.

*Streaming.* The invariant is the four balances of `BooksBalance` as equations
between sums, that registered splits are 10,000 basis points, and that no
session ends before it starts. Each action changes one or two summands on either
side: a stream adds its royalty to the artists, of whom one gets the rounding,
and its fee to hosts and platform; a cash-out takes from one artist what it adds
to the executed requests. That parts and dust are the whole is a lemma about
integer division and sums by owner, for splits with repeated wallets.
`PauseStopsPayouts` is then a matter of each action's guard.

*Uploads.* `UploadIInv` says what a request has done at each of its steps: an
upload past `btfs` is stored, past `bttc` sent and past `ddex` delivered with its
band; of a registration each contributor looked at and permitted is among
`cleared`, and from `register` on all are. Stores, chain and messages only grow,
so no other handler takes that away, and a restart leaves only idle handlers.
For the counts the handlers at the steps between two counters are a
cardinality: `Moved` says how the four of them change when one handler goes from
one place to another, and each counting step changes a counter and a place
together. Consents: of the reversed list the first match decides, and an append
puts a new first element there (`LatestDecides`).

*Notices.* The invariant says who can be at work on a notice: its submission is
alone until it answers, as its id is not known; after that there are only
counter-notices, which write the same status and may differ in who countered,
and keep everything else. So what an update has read is still there, except
for fields it sets itself, when it writes.

*Reports.* A handler's step tells what it knows (`Good`): a report about to be
answered was written or its write failed, and an update's copy is of a report
that is there. A resolution sets status and text and keeps the time of
submission, which no one changes for a user's report (`UsersKeepTheirTime`); so
the copy differs from the store in nothing a resolution keeps. The filter's
reports have no such invariant, and are where the promise fails (6).

*Limits.* As long as no time of a window has been dropped from its list, the list
bounds the window's requests by the limit. A time is dropped only for a
request that read the clock after the window was over; from then on what may
still pass in that window are requests that had read the clock before and wait
for the lock, at most one per other handler (`WindowOK`). The sharper statement
of the documentation is false (6).

*Payouts.* Each proposal's items are the quotients of its pool (`Divided`), a
sum of which is at most the pool and short of it by less than one per item
(`PartsFit`). The nonce of a proposal is one the Safe had, and the Safe's only
grows.

*Postings.* `CallsOK` ties the numbers together: SAP has acted on calls that were
made and no others, and a call made since the last start has its record, which
is written before the call with nothing awaited in between. A call that is acted on
late is still one of those, and a restart begins a life that has made no call.
*Screening*: a handler that is about to save has logged.

*Login.* A challenge is in the store, or with one handler, or behind one token,
never two of them, because `consume()` removes it before anything is verified.
`OneTokenPerChallenge` is that, and the equality of the challenge's and the
login's address which `Accept` requires. `TokensAgree` keeps the token's times,
from which `ServedMeansLoggedIn` follows when a request is served.

*Sales reports.* `Booked` keeps the books of the loop: reports of the store at
hand are still to do, at work, or done in exactly one of the two ways, and what
came from earlier stores belongs to those. For the deletions, cycles are numbered and no number
is used twice (`Unique`, `Numbered`), so that a process belongs to one cycle,
whether or not anybody waits for it, and a running cycle has the process of its
step (`OwnProcess`). From the moment its transfer has opened the staging file to
its parse, a cycle's copy is its own, or the report is in `crossed`
(`OwnCopy`): only the `Truncates` of another cycle changes that, and records it.
A process that deletes does so for a report that was parsed whole or is in
`crossed` (`Removable`).

*Messages.* A name is made of a number that only goes up while the server lives.
So every running push and every receipt of this life has a number that was
drawn (`Drawn`, `Current`), a new push stages under a name nobody has, and the
file a receipt was made from is not written again. `Divided` says that the
stores a push was meant for are to do, at work or done, each once. The
assumption is that a store either takes messages or does not.

*The desk.* It keeps no state but the request being served. A lemma
(`AnswersAreHonest`) takes the properties from states to the functions behind the
answers, and the theorems are facts about these functions for all
their inputs: every track (a function from fields to absent, invalid or valid),
every rights record, every sequence of works with any number of writers,
publishers and territories, whatever the country codes are.

- *CWR files.* `generate_cwr` counts records and transactions while it writes
  them. The file is put together from the left, per work and within it per
  writer (`PrefixesExist`, `Flattened`), and each prefix has a statement of what
  it holds: as many records as the counter says, so many of each kind, every
  publisher's record right after its controlled writer, the writers in order
  (`FirstWriters`, `FirstWorks`). One more writer or one more work carries it
  over (`OneMoreWriter`, `WorkBlock`, `OneMoreWork`). The step from each prefix
  to the whole is an induction up to a bound (`UpTo`), which is again the
  argument of a smallest counterexample, about one set of numbers at a time: no
  theorem with an operator as a parameter is needed. `XmlAgreesWithCwr` follows
  from the same statement, as the XML is made writer by writer of the same list.
  tlapm cannot expand `SelectSeq`; the properties therefore count by the
  cardinality of sets of positions (`OfKind`, `OwnOf`), which says the same.
- *Scores.* A track without an issue has every required field, which weigh 55
  of 77; 70 percent is Silver. The two sums over the table of 26 fields are taken
  five fields at a time (`SumOfFiveMore`), so that the provers see a few
  inequalities between tuples and not 26 at once.
- *Rights.* Conflicts do not depend on confirmations
  (`ConflictsIgnoreConfirmations`), and the stage grows with the set of bodies that
  confirmed (`StagesGrow`).
- *Routing.* For each territory of the reporting table a society of the register
  is named that collects for performances there, region by region (`Routed...`).

Every invariant and every action property of a passing run is stated by a
theorem. What stays with TLC is liveness (`LockIsReleased`,
`EveryCycleEndsOrHangs`, `SapRequestsEnd`), as the prover handles neither fairness nor ENABLED, and
the runs that expect a violation.

## 6. Where code and documentation disagree

Four of these have a run whose counterexample shows it (`findings` in
`PROJECT.json` quotes the lines):

- `ZKVerifier.sol` 109 decodes 64 bytes as four words: `verifyProof` reverts on
  every proof, so nothing that needs a verified proof can succeed with it.
  `OracleZKVerifier.sol` 125 does the same, so it never publishes anything.
- `multisig_vault.rs` 376 takes the nonce of a proposal from the Safe's executed
  transactions: two proposals before an execution share it, against line 254, and
  one of them can never be executed.
- `main.rs` 508 submits a distribution without splits, and `bttc.rs` 109 demands
  that shares are 10,000 in all: with the chain client in production mode every
  upload ends with 502 after its file was stored.
- `sftp.rs` 291 starts a process that goes on when its request is dropped, and
  `ddex_gateway.rs` 426 has one staging file per report: a cycle parses what
  the process of another, given up or not, has truncated, counts an empty report
  and deletes the original (line 103: "Delete DSR files after successful
  ingestion"). One handler is enough (`gateway_deletion`), two are another way.

The following were found with the same modules. Their properties are stated at
the end of the modules, and TLC violates each of them within a minute when the
property is named in the configuration of the module's run; no run of the
project repeats them.

Contracts:

- `PublishingAgreement!EveryoneSignedMeansMinted`. `PublishingAgreement.sol` 157
  keeps one index per wallet: a writer who is also the publisher can sign once,
  and the agreement is never complete.
- `StreamingRoyalties!CreditsAreFunded`. Line 489 says "User pays streamValue in
  full"; recording a stream transfers nothing in, pays the hosts and credits the
  artists: what is owed exceeds what is held unless somebody deposits.
- `StreamingRoyalties!ResetsLoseNothing`. Line 894 says settling "Transfers
  accumulated DDEX royalties to artist's earnings balance"; amounts recorded after
  a settlement (885) replace the settled ones and are cleared by the reset (928).

Login, limits and queues:

- `WalletAuth!SignersAreAccepted`. `wallet_auth.rs` 338 compares an address with
  `0x` to one without, against lines 12 and 13: nobody can log in unless the
  development bypass is on.
- `RateLimiter!LimitPerRollingWindow`. `rate_limit.rs` 3 says "Limits (per
  rolling 60-second window)". A request that read the clock early and takes the
  lock late is judged after a newer one dropped the times that count against
  it (line 66): one window holds one more than the limit. `OverrunIsBounded` is
  what holds.
- `RateLimiter!StaleClientsArePruned`. Line 18: "Stale IPs are pruned when the
  map exceeds 50,000 entries". Line 78 removes entries with an empty list, and
  a list is emptied only by its own client, which pushes a time at once:
  nothing is ever removed.
- `Takedown!StatusToldIsStored`. `takedown.rs` 87 throws the result of `update()`
  away; the answer says `ContentRemoved` (144) although the second write failed.
- `Moderation!UpdatesAreAtomic`. `persist.rs` 111 says "Read-modify-write under
  `key` in a single write transaction"; line 122 reads in one transaction and
  writes in another. An upload filtered again files `ART17-<isrc>` anew while
  the older report is resolved: one of the two changes is lost.
- `Moderation!AnsweredReportsAreStored`. `moderation.rs` 85 logs a failed write
  and the handler answers `Received` (241).
- `Moderation!ReferralsAreNotLost`. Line 197 calls the referral a legal
  requirement; it is a spawned task (201) that a restart forgets, without the
  log line that asks for manual submission (213-215).

Sales reports:

- `DsrGateway!EveryWaitEnds`. `sftp.rs` 51 documents `SFTP_TIMEOUT_SECS`; nothing
  reads the value when a process is waited for, and a cycle may hang for ever.
- A text without a recognised header is an empty report and no error
  (`dsr_parser.rs` 251), and is deleted like one that was ingested.
- `DsrGateway!EachReportOnce`. `ddex_gateway.rs` 376: "download all new DSR
  files"; a cycle lists everything, and a store that keeps its reports has them
  counted in every cycle (389).
- `DsrGateway!DeletionEventsAreTrue`. `sftp.rs` 350 returns success when the
  remote `rm` fails, and the event "Deleted remote file" is recorded
  (`ddex_gateway.rs` 525).
- `DsrGateway!DeletedReportsAreAnswered`. What was read exists only in the answer
  (537): a client that goes away after the deletion takes the revenue with it,
  which line 22 promises to "the royalty pipeline".

Payments:

- `SapPosting!OneDocumentPerId`. `sap.rs` 101 calls the correlation id an
  idempotency key; the handler compares it with nothing, and SAP gets it as a
  reference text (205, 215): a posting sent again, as a client does after a 502,
  makes a second document.
- `MultisigVault!CanProposeMeansNothingPending`. `multisig_vault.rs` 561 offers a
  payout when nothing is pending, and the pending list is always empty: its rows
  are read under field names the service does not use (186-196), and a row that
  cannot be read is skipped.
- `SapPosting!DocumentsStayOnRecord`. `iso_store.rs` 1 speaks of an "append-only
  audit store"; its list (7) is in memory, and after a restart SAP holds
  documents without a record.
- `SapPosting!AmountsAreValid`. `sap.rs` 18 says that all amounts are validated;
  `emit_royalty_idoc` (546) sends what it gets.
- `Gtms!LargePaymentsAreReviewed`. `gtms.rs` 434 asks for due diligence on large
  payments to high-risk countries; line 435 looks for the payee's country among
  the delivery territories, so that one that is not delivered to is cleared.

Seen while modelling, without a property of its own: the staging file of a
message is never moved (`ddex_gateway.rs` 17, step 6), and a staging directory
that cannot be written gives an answer 200 with no store in it; numbers in file
names start again at a restart, so that names repeat. Four CWR codes (055, 088, 028,
100) are given to two societies each and one (089) to three. The register of
`collection_societies.rs` has 130 societies, where its comments say "150+" (2, 6,
84) and 153 (175). A challenge that is exactly 300 seconds old is accepted by
`consume()` (`wallet_auth.rs` 86) and purged by `issue()` (70). Cuba, Iceland and
Venezuela report to societies that the register does not have. A style sheet that is
missing leaves an error text inside the answer 200 for all societies. A rights
record is always created as `Unregistered`, and overlaps, split mismatches and
lapses are named as states but looked for nowhere. A track that lacks nothing but
its ISRC is still Gold. `dsp_ready` is never true, because an upload gives no
cover art and no UPC to check. A user who was flagged is cleared by submitting
another country (`kyc.rs` 121), deletions are queued and never carried out, and
`has_consent` has no caller.

## 7. Abstractions and assumptions

- Arithmetic of 256 bits does not overflow: amounts and times are naturals.
  Both contracts are compiled with checked arithmetic.
- A transaction is atomic, except for the code that the token runs inside
  `transfer`, which is what RoyaltyDistributor interleaves. The admin is an
  account without code, so that its calls do not nest.
- The distributor knows the verifier by its interface: `VerifyProof` is any
  predicate on band, commitment and proof. That `contracts/src/ZKVerifier.sol`
  rejects everything is a matter of that contract.
- The token's minter is the agreement contract, once it is set.
- ids drawn at random do not repeat; a signature cannot be forged, nor a token.
- The login is modelled as in production: without `RETROSYNC_ENV` and
  `JWT_SECRET` the server accepts development values, which no property is about.
- LMDB transactions are atomic and durable when they commit; a write may fail
  for lack of space.
- A service that is called succeeds, fails, or fails after it had its effect;
  time-outs are failures.
- Amounts are in cents at SAP, in thousands at GTMS, in tenths of the bound in the
  register; a float comparison with a tolerance of a cent is one cent over.
- Data is kept as far as control depends on it: of a file its first bytes, its
  size against the limit and what stands at a WAV header's offsets; of a band the
  digit root; of a report, notice, message or challenge its identity; of an
  address the prefix, of a proof the length; of metadata whether a field is
  absent, invalid or valid; of a work the records it leads to.

## 8. What is not modelled

- `OracleZKVerifier.sol`: its proofs cannot be decoded (6), so that its interval
  guards something that cannot happen.
- Older copies of contracts in `libs/contracts`, its ERC-1155 wrapper and library;
  of the streaming contract `distribute` and `executeQueued`, which are those of
  the contract modelled, and a flag that nothing reads.
- `shard.rs`: an index in memory whose keys are hashes of what it holds. Nothing
  conflicts with an insertion, and a restart empties it.
- `fraud.rs` and `zk_cache.rs`: windows, blocks and cached proofs that no handler
  uses; `AppState` only constructs them. `ledger.rs`: a client of a signing device.
- `coinbase.rs`, `tron.rs` and the registry clients and formats (`durp.rs`,
  `cmrra.rs`, `isni.rs`, `music_reports.rs`, ...): one call in, one document out,
  without state between calls; `distribute_trx` has no caller.
- The rows of a sales report and their sums; the bodies of declarations that
  GTMS defines and no handler saves.
- `libs/shared` beyond the digit root's band, steganography, circuits (constraint
  systems are statements and not behaviours), command-line tools, and the user
  interface.
- Of what is modelled: views, events, logging and metrics that no property is
  about; the token's transfer functions, which revert. `delete()` of the store
  has no caller.

What could come next: the rows of sales reports with their totals, checked
against a reference sum, and the streaming contract's own timelock, as a
refinement of `Settlement`.
