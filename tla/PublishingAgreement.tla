------------------------ MODULE PublishingAgreement ------------------------
(***************************************************************************)
(* contracts/src/PublishingAgreement.sol with the token contract it mints  *)
(* in: the admin proposes an agreement for a track, every party signs from *)
(* its own wallet, and the last signature mints the track's token in the   *)
(* same transaction; if the token contract refuses, the signature reverts  *)
(* with it.                                                                *)
(*                                                                         *)
(* An agreement's id is the hash of the ISRC and the block it is proposed  *)
(* in: here the pair of them.  Roles, the BTFS CID, times of signature and *)
(* events are left out, for no decision reads them.                        *)
(***************************************************************************)
EXTENDS SoulboundNFT, FiniteSets

CONSTANTS Proposals,  \* the arguments propose() is called with
          NoId,       \* the zero id
          MaxBlock    \* bound: the chain stops at this block

Ids == ISRCs \X (1..MaxBlock)

ASSUME AgreementAssumption ==
    /\ Proposals \subseteq Works
    /\ MaxBlock \in Nat \ {0}
    /\ NoId \notin Ids

MAX_PARTIES == 16

VARIABLES agreements,       \* per id: [parties, signed, signedCount, status]
          isrcToAgreement,  \* per ISRC: the id of its agreement, or NoId
          block

vars == <<nftVars, agreements, isrcToAgreement, block>>

Status == {"None", "Proposed", "PartialSigned", "AllSigned", "Canceled"}

\* signed: the indices of the parties marked as signed.
Agreement == [parties : Proposals \cup {NoWork}, signed : SUBSET Nat,
              signedCount : Nat, status : Status]

NoAgreement == [parties |-> NoWork, signed |-> {}, signedCount |-> 0,
                status |-> "None"]

TypeOK == /\ minterSet \in BOOLEAN
          /\ ownerOf \in [ISRCs -> Wallets \cup {ZeroAddress}]
          /\ tokens \in [ISRCs -> [work : Proposals \cup {NoWork}, burned : BOOLEAN]]
          /\ totalMinted \in Nat
          /\ totalBurned \in Nat
          /\ agreements \in [Ids -> Agreement]
          /\ isrcToAgreement \in [ISRCs -> Ids \cup {NoId}]
          /\ block \in 1..MaxBlock

Init == /\ NFTInit
        /\ agreements = [id \in Ids |-> NoAgreement]
        /\ isrcToAgreement = [i \in ISRCs |-> NoId]
        /\ block = 1

-----------------------------------------------------------------------------
(* Faults: single slips in the code below, for mutation runs *)

MayCancel_Final(id) == agreements[id].status \notin {"None", "Canceled"}

MayPropose_Taken(isrc, p) ==
    /\ Len(p.wallets) \in 1..MAX_PARTIES
    /\ Len(p.wallets) = Len(p.ipis) /\ Len(p.wallets) = Len(p.bps)
    /\ \A i \in DOMAIN p.wallets : p.wallets[i] # ZeroAddress /\ p.ipis[i] >= MIN_IPI
    /\ BpsSum(p) = 10000
    /\ agreements[<<isrc, block>>].status = "None"

MaySign_Twice(id, w) ==
    /\ agreements[id].status \notin {"None", "Canceled", "AllSigned"}
    /\ \E i \in DOMAIN agreements[id].parties.wallets :
         agreements[id].parties.wallets[i] = w

-----------------------------------------------------------------------------
(* propose *)

MayPropose(isrc, p) ==
    /\ Len(p.wallets) \in 1..MAX_PARTIES
    /\ Len(p.wallets) = Len(p.ipis) /\ Len(p.wallets) = Len(p.bps)
    /\ isrcToAgreement[isrc] = NoId
    /\ \A i \in DOMAIN p.wallets : p.wallets[i] # ZeroAddress /\ p.ipis[i] >= MIN_IPI
    /\ BpsSum(p) = 10000
    /\ agreements[<<isrc, block>>].status = "None"

Propose(isrc, p) ==
    /\ MayPropose(isrc, p)
    /\ agreements' = [agreements EXCEPT ![<<isrc, block>>] =
            [NoAgreement EXCEPT !.parties = p, !.status = "Proposed"]]
    /\ isrcToAgreement' = [isrcToAgreement EXCEPT ![isrc] = <<isrc, block>>]
    /\ UNCHANGED <<nftVars, block>>

-----------------------------------------------------------------------------
(* sign *)

\* _partyIndex: of a wallet listed twice, the last index.
IsPartyIndex(id, w, i) ==
    LET wallets == agreements[id].parties.wallets
    IN  /\ i \in DOMAIN wallets
        /\ wallets[i] = w
        /\ \A j \in DOMAIN wallets : wallets[j] = w => j <= i

CountAfterSigning(a) == a.signedCount + 1

MaySign(id, w) ==
    /\ agreements[id].status \notin {"None", "Canceled", "AllSigned"}
    /\ \A i \in agreements[id].signed : ~IsPartyIndex(id, w, i)

Signed(id, i, status) ==
    [agreements EXCEPT ![id].signed = @ \cup {i},
                       ![id].signedCount = CountAfterSigning(agreements[id]),
                       ![id].status = status]

\* A signature after which others are missing.
Sign(id, w) ==
    /\ MaySign(id, w)
    /\ CountAfterSigning(agreements[id]) # Len(agreements[id].parties.wallets)
    /\ \E i \in DOMAIN agreements[id].parties.wallets :
         /\ IsPartyIndex(id, w, i)
         /\ agreements' = Signed(id, i, "PartialSigned")
    /\ UNCHANGED <<nftVars, isrcToAgreement, block>>

\* The last signature.
SignAndMint(id, w) ==
    /\ MaySign(id, w)
    /\ CountAfterSigning(agreements[id]) = Len(agreements[id].parties.wallets)
    /\ \E i \in DOMAIN agreements[id].parties.wallets :
         /\ IsPartyIndex(id, w, i)
         /\ agreements' = Signed(id, i, "AllSigned")
    /\ Mint(id[1], agreements[id].parties)
    /\ UNCHANGED <<isrcToAgreement, block>>

-----------------------------------------------------------------------------
(* cancel, the token contract's own operations, and time *)

MayCancel(id) ==
    agreements[id].status \notin {"None", "Canceled", "AllSigned"}

\* The ISRC is freed by its name, whichever agreement it points to.
Cancel(id) ==
    /\ MayCancel(id)
    /\ agreements' = [agreements EXCEPT ![id].status = "Canceled"]
    /\ isrcToAgreement' = [isrcToAgreement EXCEPT ![id[1]] = NoId]
    /\ UNCHANGED <<nftVars, block>>

NewBlock ==
    /\ block < MaxBlock
    /\ block' = block + 1
    /\ UNCHANGED <<nftVars, agreements, isrcToAgreement>>

TokenStep == /\ SetMinter \/ \E isrc \in ISRCs : Burn(isrc)
             /\ UNCHANGED <<agreements, isrcToAgreement, block>>

Next ==
    \/ \E isrc \in ISRCs, p \in Proposals : Propose(isrc, p)
    \/ \E id \in Ids, w \in Wallets : Sign(id, w) \/ SignAndMint(id, w)
    \/ \E id \in Ids : Cancel(id)
    \/ TokenStep
    \/ NewBlock

Spec == Init /\ [][Next]_vars

-----------------------------------------------------------------------------
(* Properties *)

Live(id) == agreements[id].status \notin {"None", "Canceled"}

\* A track has at most one agreement that is not canceled, and it is the one
\* its ISRC points to; an ISRC pointing nowhere has none.  Canceling frees the
\* ISRC by name and not by id, so this needs old agreements to stay canceled
\* (lines 127, 160 and 219-226).
OneLiveAgreement ==
    \A id \in Ids : Live(id) <=> isrcToAgreement[id[1]] = id

\* The count that decides the last signature is the number of parties marked
\* as signed, and the status says which stage the agreement is in (176-195).
SignaturesAreCounted ==
    \A id \in Ids :
        LET a == agreements[id]
        IN  /\ a.signed \subseteq DOMAIN a.parties.wallets
            /\ a.signedCount = Cardinality(a.signed)
            /\ a.status = "Proposed" => a.signedCount = 0
            /\ a.status = "PartialSigned" =>
                 a.signedCount \in 1..(Len(a.parties.wallets) - 1)
            /\ a.status = "AllSigned" => a.signedCount = Len(a.parties.wallets)

\* A track's token exists exactly when the agreement its ISRC points to is
\* fully signed, records the parties of that agreement and no other, and is
\* owned by the first of them (189-214; SoulboundNFT.sol 100-146).
MintedIffAllSigned ==
    \A isrc \in ISRCs :
        LET id == isrcToAgreement[isrc]
        IN  /\ ownerOf[isrc] # ZeroAddress <=>
                 id # NoId /\ agreements[id].status = "AllSigned"
            /\ ownerOf[isrc] # ZeroAddress =>
                 /\ tokens[isrc].work = agreements[id].parties
                 /\ ownerOf[isrc] = tokens[isrc].work.wallets[1]

\* Attribution is permanent: once an agreement is fully signed neither it, nor
\* what its ISRC points to, nor the token's owner and contributors ever change,
\* and a burned token stays burned, so its ISRC is never registered again
\* (SoulboundNFT.sol 22 and 150-160).
AttributionIsPermanent ==
    [][\A id \in Ids :
          agreements[id].status = "AllSigned" =>
             /\ agreements'[id] = agreements[id]
             /\ isrcToAgreement'[id[1]] = id
             /\ ownerOf'[id[1]] = ownerOf[id[1]]
             /\ tokens'[id[1]].work = tokens[id[1]].work
             /\ tokens[id[1]].burned => tokens'[id[1]].burned]_vars

-----------------------------------------------------------------------------
(* What the code's comments say and the code does not do, see README.md *)

\* hasPartySignedAgreement
HasSigned(id, w) == \E i \in agreements[id].signed : IsPartyIndex(id, w, i)

\* "Once every contributor has signed, the contract calls SoulboundNFT.mint()"
\* (lines 13-14).
EveryoneSignedMeansMinted ==
    \A id \in Ids :
        LET a == agreements[id]
        IN  Live(id) /\ (\A i \in DOMAIN a.parties.wallets :
                            HasSigned(id, a.parties.wallets[i]))
            => a.status = "AllSigned"

=============================================================================
