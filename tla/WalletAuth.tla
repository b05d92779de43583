----------------------------- MODULE WalletAuth -----------------------------
(***************************************************************************)
(* apps/api-server/src/wallet_auth.rs and auth.rs: login by a signed       *)
(* challenge, the session token it gives, and what the token opens.        *)
(*                                                                         *)
(* Challenges are kept in memory under a mutex; a restart loses them but   *)
(* not the tokens, which are signed with a secret of the environment.      *)
(* Requests are served concurrently: one handler takes a challenge out of  *)
(* the store and finishes later.                                           *)
(*                                                                         *)
(* Modelled as in production (RETROSYNC_ENV, JWT_SECRET set).  A signature *)
(* is the wallet that made it, or Nobody for one that recovers to no       *)
(* wallet; a token is what its payload says, since its HMAC is checked.    *)
(***************************************************************************)
EXTENDS Naturals, FiniteSets

CONSTANTS Ids,          \* challenge ids, drawn at random
          AuthHandlers, \* handlers that run at a time
          Wallets, Nobody,
          Ttl,          \* 300 seconds
          SessionTtl,   \* 24 hours
          MaxClock      \* bound: the clock stops here

ASSUME WalletAuthAssumption ==
    /\ Nobody \notin Wallets
    /\ Ttl \in Nat \ {0} /\ SessionTtl \in Nat \ {0} /\ MaxClock \in Nat

VARIABLES pending,   \* the challenge store: from the ids in it to challenges
          logins,    \* per handler: a challenge it took, to be verified
          tokens,    \* tokens issued, with the challenge each was issued for
          clock,
          bypass,    \* WALLET_AUTH_DEV_BYPASS, fixed while the server runs
          issued,    \* history: challenges issued, by id
          refused,   \* history: the login that was refused last
          served     \* history: the request with a token served last: [sub, at]

authVars == <<pending, logins, tokens, clock, bypass, issued, refused, served>>

Clock == 0..MaxClock

\* An address as text: the digits of the wallet, with or without "0x".
\* Everything is put in lower case before it is compared.
Address == [prefixed : BOOLEAN, wallet : Wallets]

Challenge == [address : Address, at : Clock]

NoLogin == [pc |-> "idle"]

Login == [pc : {"verify"}, id : Ids, challenge : Challenge, address : Address,
          signer : Wallets \cup {Nobody}]

NotServed == [at |-> 0]

Token == [id : Ids, sub : Address, iat : Clock, exp : 0..MaxClock + SessionTtl]

AuthTypeOK ==
    /\ DOMAIN pending \subseteq Ids
    /\ \A id \in DOMAIN pending : pending[id] \in Challenge
    /\ logins \in [AuthHandlers -> Login \cup {NoLogin}]
    /\ tokens \subseteq Token
    /\ clock \in Clock
    /\ bypass \in BOOLEAN
    /\ DOMAIN issued \subseteq Ids
    /\ \A id \in DOMAIN issued : issued[id] \in Challenge
    /\ refused \in Login \cup {NoLogin}
    /\ served \in [sub : Address, at : Clock] \cup {NotServed}

AuthInit ==
    /\ pending = << >>
    /\ logins = [w \in AuthHandlers |-> NoLogin]
    /\ tokens = {}
    /\ clock = 0
    /\ bypass \in BOOLEAN
    /\ issued = << >>
    /\ refused = NoLogin
    /\ served = NotServed

-----------------------------------------------------------------------------
(* verify_evm_signature *)

\* recover_evm_address formats with "0x".
Recovered(signer) == [prefixed |-> TRUE, wallet |-> signer]

\* The claimed address is compared after its "0x" is taken off.
Trimmed(address) == [address EXCEPT !.prefixed = FALSE]

Verified(login) ==
    login.signer # Nobody /\ Recovered(login.signer) = Trimmed(login.address)

-----------------------------------------------------------------------------
(* Faults: single slips in the code below, for mutation runs *)

Accepted_ForAnyAddress(login) == Verified(login) \/ bypass

ValidToken_Forever(token) == TRUE

-----------------------------------------------------------------------------
(* The challenge store *)

With(map, id, value) ==
    [i \in DOMAIN map \cup {id} |-> IF i = id THEN value ELSE map[i]]

\* What issue() keeps: `elapsed() < 300`.
Fresh(id) == clock - pending[id].at < Ttl

\* issue_challenge
Issue(id, address) ==
    LET challenge == [address |-> address, at |-> clock]
    IN  /\ id \notin DOMAIN issued
        /\ pending' = With([i \in {j \in DOMAIN pending : Fresh(j)} |-> pending[i]],
                          id, challenge)
        /\ issued' = With(issued, id, challenge)
        /\ UNCHANGED <<logins, tokens, clock, bypass, refused, served>>

\* What consume() refuses: `elapsed() > 300`.
Expired(id) == clock - pending[id].at > Ttl

Without(id) == [i \in DOMAIN pending \ {id} |-> pending[i]]

\* verify_challenge up to consume(): the challenge is gone even if expired.
Consume(w, id, address, signer) ==
    /\ logins[w] = NoLogin
    /\ id \in DOMAIN pending
    /\ pending' = Without(id)
    /\ logins' = IF Expired(id) THEN logins
              ELSE [logins EXCEPT ![w] =
                      [pc |-> "verify", id |-> id, challenge |-> pending[id],
                       address |-> address, signer |-> signer]]
    /\ UNCHANGED <<tokens, clock, bypass, issued, refused, served>>

-----------------------------------------------------------------------------
(* The rest of verify_challenge *)

Accepted(login) ==
    /\ login.challenge.address = login.address
    /\ Verified(login) \/ bypass

NewToken(login) ==
    [id |-> login.id, sub |-> login.address, iat |-> clock, exp |-> clock + SessionTtl]

Accept(w) ==
    /\ logins[w] # NoLogin
    /\ Accepted(logins[w])
    /\ tokens' = tokens \cup {NewToken(logins[w])}
    /\ logins' = [logins EXCEPT ![w] = NoLogin]
    /\ UNCHANGED <<pending, clock, bypass, issued, refused, served>>

Reject(w) ==
    /\ logins[w] # NoLogin
    /\ ~Accepted(logins[w])
    /\ refused' = logins[w]
    /\ logins' = [logins EXCEPT ![w] = NoLogin]
    /\ UNCHANGED <<pending, tokens, clock, bypass, issued, served>>

-----------------------------------------------------------------------------
(* Requests with a token *)

\* validate_jwt: refused when `now > exp`.
ValidToken(token) == clock <= token.exp

\* Any handler that asks extract_caller() who is calling.
Serve(token) ==
    /\ ValidToken(token)
    /\ served' = [sub |-> token.sub, at |-> clock]
    /\ UNCHANGED <<pending, logins, tokens, clock, bypass, issued, refused>>

ClockTicks ==
    /\ clock < MaxClock
    /\ clock' = clock + 1
    /\ UNCHANGED <<pending, logins, tokens, bypass, issued, refused, served>>

AuthRestart ==
    /\ pending' = << >>
    /\ logins' = [w \in AuthHandlers |-> NoLogin]
    /\ bypass' \in BOOLEAN
    /\ UNCHANGED <<tokens, clock, issued, refused, served>>

AuthNext ==
    \/ \E id \in Ids, a \in Address : Issue(id, a)
    \/ \E w \in AuthHandlers :
         \/ \E id \in Ids, a \in Address, s \in Wallets \cup {Nobody} :
               Consume(w, id, a, s)
         \/ Accept(w) \/ Reject(w)
    \/ \E t \in tokens : Serve(t)
    \/ ClockTicks \/ AuthRestart

AuthSpec == AuthInit /\ [][AuthNext]_authVars

-----------------------------------------------------------------------------
(* Properties *)

\* "Used challenges are deleted immediately" (line 20): a challenge gives at
\* most one token, for the address it was issued to, however many requests
\* present it at the same time.
OneTokenPerChallenge ==
    \A t, u \in tokens :
       /\ t.sub = issued[t.id].address
       /\ t.id = u.id => t = u

\* No handler works on a challenge that is older than its five minutes when it
\* takes it, and none that is still in the store, so a second request with the
\* same id finds nothing.
TakenChallengesAreGone ==
    \A w \in AuthHandlers : logins[w] # NoLogin =>
       /\ logins[w].id \notin DOMAIN pending
       /\ \A v \in AuthHandlers \ {w} : logins[v] # NoLogin => logins[v].id # logins[w].id

\* Whoever is served has been given a challenge at most the two lifetimes, and
\* the time its login took, before: a token never outlives its day.
ServedMeansLoggedIn ==
    served # NotServed =>
       \E t \in tokens : /\ t.sub = served.sub
                         /\ issued[t.id].address = served.sub
                         /\ issued[t.id].at <= t.iat
                         /\ t.iat <= served.at /\ served.at <= t.iat + SessionTtl

-----------------------------------------------------------------------------
(* What the code's comments say and the code does not do, see README.md *)

\* "Server recovers the signer address ... and checks it matches the claimed
\* address.  On success, issues a JWT" (lines 12-15): nobody is refused who
\* signed the challenge with the wallet it was issued for.
SignersAreAccepted ==
    refused # NoLogin => ~(/\ refused.challenge.address = refused.address
                        /\ refused.signer = refused.address.wallet)
=============================================================================
