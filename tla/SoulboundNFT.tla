---------------------------- MODULE SoulboundNFT ----------------------------
(***************************************************************************)
(* contracts/src/SoulboundNFT.sol: one non-transferable token per track,   *)
(* recording its contributors.  A token is named by its ISRC: the token id *)
(* is the ISRC's hash.  The transfer and approval functions always revert, *)
(* so they are no actions.  Mint is a call of the minter contract, made    *)
(* inside one of its transactions; module PublishingAgreement is that      *)
(* contract.                                                               *)
(***************************************************************************)
EXTENDS Integers, Sequences

LOCAL F == INSTANCE Functions

CONSTANTS ISRCs,      \* track codes, none of them empty
          Wallets,    \* addresses of contributors
          ZeroAddress \* the address that owns nothing

ASSUME TokenAssumption == ZeroAddress \notin Wallets

MAX_CONTRIBUTORS == 16
MIN_IPI == 9

VARIABLES minterSet,    \* setMinter has been called, with the agreement contract
          ownerOf,      \* per ISRC: the nominal owner, ZeroAddress before mint
          tokens,       \* per ISRC: [work, burned]
          totalMinted,
          totalBurned

nftVars == <<minterSet, ownerOf, tokens, totalMinted, totalBurned>>

\* What is minted: the contributors' wallets, shares, lengths of their IPI
\* numbers, and the band.
Works == [wallets : Seq(Wallets \cup {ZeroAddress}), bps : Seq(Nat),
          ipis : Seq(Nat), band : Nat]

NoWork == [wallets |-> << >>, bps |-> << >>, ipis |-> << >>, band |-> 0]
NoToken == [work |-> NoWork, burned |-> FALSE]

BpsSum(w) == F!FoldFunction(+, 0, w.bps)

NFTInit == /\ minterSet = FALSE
           /\ ownerOf = [i \in ISRCs |-> ZeroAddress]
           /\ tokens = [i \in ISRCs |-> NoToken]
           /\ totalMinted = 0
           /\ totalBurned = 0

\* Admin, once.
SetMinter ==
    /\ ~minterSet
    /\ minterSet' = TRUE
    /\ UNCHANGED <<ownerOf, tokens, totalMinted, totalBurned>>

MayMint(isrc, w) ==
    /\ minterSet
    /\ w.band <= 2
    /\ Len(w.wallets) \in 1..MAX_CONTRIBUTORS
    /\ \A i \in DOMAIN w.wallets : w.wallets[i] # ZeroAddress /\ w.ipis[i] >= MIN_IPI
    /\ BpsSum(w) = 10000
    /\ ownerOf[isrc] = ZeroAddress

Mint(isrc, w) ==
    /\ MayMint(isrc, w)
    /\ ownerOf' = [ownerOf EXCEPT ![isrc] = w.wallets[1]]
    /\ tokens' = [tokens EXCEPT ![isrc] = [work |-> w, burned |-> FALSE]]
    /\ totalMinted' = totalMinted + 1
    /\ UNCHANGED <<minterSet, totalBurned>>

Burn_Erases(isrc) ==
    /\ ownerOf[isrc] # ZeroAddress /\ ~tokens[isrc].burned
    /\ tokens' = [tokens EXCEPT ![isrc] = NoToken]
    /\ ownerOf' = [ownerOf EXCEPT ![isrc] = ZeroAddress]
    /\ totalBurned' = totalBurned + 1
    /\ UNCHANGED <<minterSet, totalMinted>>

\* Admin, after a takedown.  Owner and record stay: the ISRC stays taken.
Burn(isrc) ==
    /\ ownerOf[isrc] # ZeroAddress
    /\ ~tokens[isrc].burned
    /\ tokens' = [tokens EXCEPT ![isrc].burned = TRUE]
    /\ totalBurned' = totalBurned + 1
    /\ UNCHANGED <<minterSet, ownerOf, totalMinted>>
=============================================================================
