-------------------------- MODULE PublishingProofs --------------------------
(***************************************************************************)
(* Theorems about how a track comes to be published: the agreements and    *)
(* tokens of PublishingAgreement, for every set of tracks, wallets and     *)
(* proposals, and the uploads and registrations of TrackUpload with the    *)
(* records of users, for every number of handlers, recordings and users.   *)
(*                                                                         *)
(* Agreements: the inductive invariant adds that an ISRC points to         *)
(* agreements for itself only.  With that, and because nothing but the     *)
(* last signature mints and a fully signed agreement is never canceled, a  *)
(* token always belongs to the agreement its ISRC points to.               *)
(*                                                                         *)
(* Uploads: the inductive invariant says what a request has done at each   *)
(* of its steps.  Stores and chain only grow, so what one handler did, no  *)
(* other undoes; the counts are off by the handlers at certain steps, and  *)
(* a step moves one handler from one place to another.                     *)
(***************************************************************************)
EXTENDS PublishingAgreement, TrackUpload, SumTheorems

-----------------------------------------------------------------------------
(* Agreements and tokens *)

PointersMatch ==
    \A i \in ISRCs : isrcToAgreement[i] # NoId => isrcToAgreement[i][1] = i

IInv == /\ TypeOK
        /\ PointersMatch
        /\ OneLiveAgreement
        /\ SignaturesAreCounted
        /\ MintedIffAllSigned

LEMMA IdsAreTracked ==
    ASSUME NEW id \in Ids PROVE id[1] \in ISRCs /\ id # NoId
BY AgreementAssumption DEF Ids

LEMMA ProposalsHaveLists ==
    ASSUME NEW p \in Proposals \cup {NoWork}
    PROVE  p.wallets \in Seq(Wallets \cup {ZeroAddress})
<1>1. CASE p = NoWork
  BY <1>1 DEF NoWork
<1>2. CASE p \in Proposals
  <2>1. p \in Works
    BY <1>2, AgreementAssumption
  <2> QED
    BY <2>1 DEF Works
<1> QED
  BY <1>1, <1>2

LEMMA InitInv == Init => IInv
<1> SUFFICES ASSUME Init PROVE IInv
  OBVIOUS
<1>1. NoAgreement \in Agreement
  BY DEF NoAgreement, Agreement, Status
<1>2. TypeOK
  <2>1. NoToken \in [work : Proposals \cup {NoWork}, burned : BOOLEAN]
    BY DEF NoToken
  <2>2. /\ minterSet \in BOOLEAN
        /\ ownerOf \in [ISRCs -> Wallets \cup {ZeroAddress}]
        /\ totalMinted \in Nat /\ totalBurned \in Nat
        /\ isrcToAgreement \in [ISRCs -> Ids \cup {NoId}]
    BY DEF Init, NFTInit
  <2>3. tokens \in [ISRCs -> [work : Proposals \cup {NoWork}, burned : BOOLEAN]]
    BY <2>1 DEF Init, NFTInit
  <2>4. agreements \in [Ids -> Agreement]
    BY <1>1 DEF Init
  <2>5. block \in 1..MaxBlock
    BY AgreementAssumption DEF Init
  <2> QED
    BY <2>2, <2>3, <2>4, <2>5 DEF TypeOK
<1>3. PointersMatch
  BY DEF PointersMatch, Init
<1>4. OneLiveAgreement
  BY IdsAreTracked DEF OneLiveAgreement, Live, NoAgreement, Init
<1>5. SignaturesAreCounted
  BY FS_EmptySet DEF SignaturesAreCounted, NoAgreement, NoWork, Init
<1>6. MintedIffAllSigned
  BY DEF MintedIffAllSigned, Init, NFTInit
<1> QED
  BY <1>2, <1>3, <1>4, <1>5, <1>6 DEF IInv

-----------------------------------------------------------------------------
(* propose *)

LEMMA ProposeInv ==
    ASSUME IInv, NEW isrc \in ISRCs, NEW p \in Proposals, Propose(isrc, p)
    PROVE  IInv'
<1> DEFINE new == <<isrc, block>>
           a == [NoAgreement EXCEPT !.parties = p, !.status = "Proposed"]
<1>1. TypeOK /\ PointersMatch /\ OneLiveAgreement /\ SignaturesAreCounted
      /\ MintedIffAllSigned
  BY DEF IInv
<1>2. new \in Ids /\ new[1] = isrc /\ new # NoId
  BY <1>1, AgreementAssumption DEF TypeOK, Ids
<1>3. /\ a \in Agreement /\ a.status = "Proposed"
      /\ a.signed = {} /\ a.signedCount = 0
  BY DEF NoAgreement, Agreement, Status
<1>4. /\ agreements' = [agreements EXCEPT ![new] = a]
      /\ isrcToAgreement' = [isrcToAgreement EXCEPT ![isrc] = new]
      /\ isrcToAgreement[isrc] = NoId
      /\ UNCHANGED <<nftVars, block>>
  BY DEF Propose, MayPropose
<1> HIDE DEF new, a
<1>5. TypeOK'
  BY <1>1, <1>2, <1>3, <1>4 DEF TypeOK, nftVars
<1>6. PointersMatch'
  BY <1>1, <1>2, <1>4 DEF TypeOK, PointersMatch
<1>7. OneLiveAgreement'
  <2> SUFFICES ASSUME NEW id \in Ids
               PROVE  Live(id)' <=> isrcToAgreement'[id[1]] = id
    BY DEF OneLiveAgreement
  <2>0. id[1] \in ISRCs /\ id # NoId
    BY IdsAreTracked
  <2>1. CASE id = new
    BY <1>1, <1>2, <1>3, <1>4, <2>1 DEF TypeOK, Live
  <2>2. CASE id # new /\ id[1] = isrc
    <3>1. ~Live(id)
      BY <1>1, <1>4, <2>0, <2>2 DEF OneLiveAgreement
    <3> QED
      BY <1>1, <1>2, <1>4, <2>2, <3>1 DEF TypeOK, Live
  <2>3. CASE id # new /\ id[1] # isrc
    BY <1>1, <1>2, <1>4, <2>0, <2>3 DEF TypeOK, Live, OneLiveAgreement
  <2> QED
    BY <2>1, <2>2, <2>3
<1>8. SignaturesAreCounted'
  <2>1. Cardinality({}) = 0
    BY FS_EmptySet
  <2> QED
    BY <1>1, <1>2, <1>3, <1>4, <2>1 DEF TypeOK, SignaturesAreCounted
<1>9. MintedIffAllSigned'
  <2> SUFFICES ASSUME NEW i \in ISRCs
               PROVE  LET id == isrcToAgreement'[i]
                      IN  /\ ownerOf[i] # ZeroAddress <=>
                               id # NoId /\ agreements'[id].status = "AllSigned"
                          /\ ownerOf[i] # ZeroAddress =>
                               /\ tokens[i].work = agreements'[id].parties
                               /\ ownerOf[i] = tokens[i].work.wallets[1]
    BY <1>4 DEF MintedIffAllSigned, nftVars
  <2>1. CASE i = isrc
    BY <1>1, <1>2, <1>3, <1>4, <2>1 DEF TypeOK, MintedIffAllSigned
  <2>2. CASE i # isrc
    <3>1. isrcToAgreement'[i] = isrcToAgreement[i]
      BY <1>1, <1>4, <2>2 DEF TypeOK
    <3>2. isrcToAgreement[i] # new
      BY <1>1, <1>2, <2>2 DEF PointersMatch
    <3>3. isrcToAgreement[i] # NoId =>
            agreements'[isrcToAgreement[i]] = agreements[isrcToAgreement[i]]
      BY <1>1, <1>4, <3>2 DEF TypeOK
    <3> QED
      BY <1>1, <3>1, <3>3 DEF MintedIffAllSigned
  <2> QED
    BY <2>1, <2>2
<1> QED
  BY <1>5, <1>6, <1>7, <1>8, <1>9 DEF IInv

-----------------------------------------------------------------------------
(* sign *)

\* What one signature does to the agreement it is made on.
LEMMA SignatureEffect ==
    ASSUME TypeOK, SignaturesAreCounted,
           NEW id \in Ids, NEW w \in Wallets, MaySign(id, w),
           NEW i \in DOMAIN agreements[id].parties.wallets,
           IsPartyIndex(id, w, i),
           NEW st \in Status, agreements' = Signed(id, i, st)
    PROVE  /\ agreements' \in [Ids -> Agreement]
           /\ \A other \in Ids : other # id => agreements'[other] = agreements[other]
           /\ agreements'[id].parties = agreements[id].parties
           /\ agreements'[id].status = st
           /\ agreements'[id].signed = agreements[id].signed \cup {i}
           /\ agreements'[id].signedCount = agreements[id].signedCount + 1
           /\ agreements'[id].signedCount = Cardinality(agreements'[id].signed)
<1> DEFINE a == agreements[id]
           n == Len(a.parties.wallets)
<1>1. a \in Agreement
  BY DEF TypeOK
<1>2. a.parties.wallets \in Seq(Wallets \cup {ZeroAddress})
  BY <1>1, ProposalsHaveLists DEF Agreement
<1>3. n \in Nat /\ DOMAIN a.parties.wallets = 1..n
  BY <1>2
<1>4. /\ a.signed \subseteq 1..n
      /\ a.signedCount = Cardinality(a.signed)
  BY <1>3 DEF SignaturesAreCounted
<1>5. IsFiniteSet(a.signed)
  <2>1. IsFiniteSet(1..n)
    BY <1>3, FS_Interval
  <2> QED
    BY <1>4, <2>1, FS_Subset
<1>6. i \notin a.signed
  BY DEF MaySign
<1>7. Cardinality(a.signed \cup {i}) = Cardinality(a.signed) + 1
  BY <1>5, <1>6, FS_AddElement
<1>8. a.signed \cup {i} \in SUBSET Nat
  BY <1>1, <1>3 DEF Agreement
<1>9. agreements' = [agreements EXCEPT ![id] =
         [a EXCEPT !.signed = a.signed \cup {i},
                   !.signedCount = a.signedCount + 1, !.status = st]]
  BY DEF Signed, CountAfterSigning, TypeOK
<1> DEFINE s == a.signed \cup {i}
           k == a.signedCount + 1
           b == [a EXCEPT !.signed = s, !.signedCount = k, !.status = st]
<1>10. b \in Agreement /\ b.parties = a.parties /\ b.status = st
       /\ b.signed = s /\ b.signedCount = k
  <2>1. k \in Nat
    BY <1>1 DEF Agreement
  <2> HIDE DEF a, s, k
  <2>2. s \in SUBSET Nat
    BY <1>8 DEF s
  <2> QED
    BY <1>1, <2>1, <2>2 DEF Agreement
<1>11. agreements' = [agreements EXCEPT ![id] = b]
  BY <1>9
<1> HIDE DEF b
<1> QED
  BY <1>4, <1>7, <1>10, <1>11 DEF TypeOK

\* The stages a signature can be made in, and the list it is made on.
LEMMA SignableStage ==
    ASSUME TypeOK, NEW id \in Ids, NEW w \in Wallets, MaySign(id, w)
    PROVE  /\ agreements[id].status \in {"Proposed", "PartialSigned"}
           /\ Live(id)
           /\ agreements[id].parties \in Proposals \cup {NoWork}
           /\ agreements[id].signedCount \in Nat
           /\ Len(agreements[id].parties.wallets) \in Nat
           /\ DOMAIN agreements[id].parties.wallets
                = 1..Len(agreements[id].parties.wallets)
<1>1. agreements[id] \in Agreement
  BY DEF TypeOK
<1>2. agreements[id].parties.wallets \in Seq(Wallets \cup {ZeroAddress})
  BY <1>1, ProposalsHaveLists DEF Agreement
<1> QED
  BY <1>1, <1>2 DEF Agreement, Status, MaySign, Live

LEMMA SignInv ==
    ASSUME IInv, NEW id \in Ids, NEW w \in Wallets, Sign(id, w)
    PROVE  IInv'
<1>1. TypeOK /\ PointersMatch /\ OneLiveAgreement /\ SignaturesAreCounted
      /\ MintedIffAllSigned
  BY DEF IInv
<1>2. PICK i \in DOMAIN agreements[id].parties.wallets :
         /\ IsPartyIndex(id, w, i)
         /\ agreements' = Signed(id, i, "PartialSigned")
  BY DEF Sign
<1>3. /\ MaySign(id, w)
      /\ agreements[id].signedCount + 1 # Len(agreements[id].parties.wallets)
      /\ UNCHANGED <<nftVars, isrcToAgreement, block>>
  BY DEF Sign, CountAfterSigning
<1>4. /\ agreements' \in [Ids -> Agreement]
      /\ \A other \in Ids : other # id => agreements'[other] = agreements[other]
      /\ agreements'[id].parties = agreements[id].parties
      /\ agreements'[id].status = "PartialSigned"
      /\ agreements'[id].signed = agreements[id].signed \cup {i}
      /\ agreements'[id].signedCount = agreements[id].signedCount + 1
      /\ agreements'[id].signedCount = Cardinality(agreements'[id].signed)
  <2>1. "PartialSigned" \in Status
    BY DEF Status
  <2> QED
    BY <1>1, <1>2, <1>3, <2>1, SignatureEffect
<1>5. /\ agreements[id].status \in {"Proposed", "PartialSigned"} /\ Live(id)
      /\ agreements[id].signedCount \in Nat
      /\ Len(agreements[id].parties.wallets) \in Nat
      /\ DOMAIN agreements[id].parties.wallets
           = 1..Len(agreements[id].parties.wallets)
  BY <1>1, <1>3, SignableStage
<1>6. TypeOK'
  BY <1>1, <1>3, <1>4 DEF TypeOK, nftVars
<1>7. PointersMatch'
  BY <1>1, <1>3 DEF PointersMatch
<1>8. OneLiveAgreement'
  BY <1>1, <1>3, <1>4, <1>5 DEF OneLiveAgreement, Live
<1>9. SignaturesAreCounted'
  <2>1. agreements[id].signedCount + 1 \in 1..(Len(agreements[id].parties.wallets) - 1)
    BY <1>1, <1>2, <1>3, <1>5 DEF SignaturesAreCounted
  <2> SUFFICES ASSUME NEW other \in Ids
               PROVE  LET a == agreements'[other]
                      IN  /\ a.signed \subseteq DOMAIN a.parties.wallets
                          /\ a.signedCount = Cardinality(a.signed)
                          /\ a.status = "Proposed" => a.signedCount = 0
                          /\ a.status = "PartialSigned" =>
                               a.signedCount \in 1..(Len(a.parties.wallets) - 1)
                          /\ a.status = "AllSigned" =>
                               a.signedCount = Len(a.parties.wallets)
    BY DEF SignaturesAreCounted
  <2>2. CASE other = id
    BY <1>1, <1>4, <2>1, <2>2 DEF SignaturesAreCounted
  <2>3. CASE other # id
    BY <1>1, <1>4, <2>3 DEF SignaturesAreCounted
  <2> QED
    BY <2>2, <2>3
<1>10. MintedIffAllSigned'
  <2> SUFFICES ASSUME NEW isrc \in ISRCs
               PROVE  LET to == isrcToAgreement[isrc]
                      IN  /\ ownerOf[isrc] # ZeroAddress <=>
                               to # NoId /\ agreements'[to].status = "AllSigned"
                          /\ ownerOf[isrc] # ZeroAddress =>
                               /\ tokens[isrc].work = agreements'[to].parties
                               /\ ownerOf[isrc] = tokens[isrc].work.wallets[1]
    BY <1>3 DEF MintedIffAllSigned, nftVars
  <2>1. isrcToAgreement[isrc] \in Ids \cup {NoId}
    BY <1>1 DEF TypeOK
  <2>2. CASE isrcToAgreement[isrc] = id
    BY <1>1, <1>4, <1>5, <2>2 DEF MintedIffAllSigned
  <2>3. CASE isrcToAgreement[isrc] # id
    BY <1>1, <1>4, <2>1, <2>3 DEF MintedIffAllSigned
  <2> QED
    BY <2>2, <2>3
<1> QED
  BY <1>6, <1>7, <1>8, <1>9, <1>10 DEF IInv

LEMMA SignAndMintInv ==
    ASSUME IInv, NEW id \in Ids, NEW w \in Wallets, SignAndMint(id, w)
    PROVE  IInv'
<1> DEFINE isrc == id[1]
           work == agreements[id].parties
<1>1. TypeOK /\ PointersMatch /\ OneLiveAgreement /\ SignaturesAreCounted
      /\ MintedIffAllSigned
  BY DEF IInv
<1>2. PICK i \in DOMAIN agreements[id].parties.wallets :
         /\ IsPartyIndex(id, w, i)
         /\ agreements' = Signed(id, i, "AllSigned")
  BY DEF SignAndMint
<1>3. /\ MaySign(id, w)
      /\ agreements[id].signedCount + 1 = Len(agreements[id].parties.wallets)
      /\ Mint(isrc, work)
      /\ UNCHANGED <<isrcToAgreement, block>>
  BY DEF SignAndMint, CountAfterSigning
<1>4. /\ agreements' \in [Ids -> Agreement]
      /\ \A other \in Ids : other # id => agreements'[other] = agreements[other]
      /\ agreements'[id].parties = agreements[id].parties
      /\ agreements'[id].status = "AllSigned"
      /\ agreements'[id].signed = agreements[id].signed \cup {i}
      /\ agreements'[id].signedCount = agreements[id].signedCount + 1
      /\ agreements'[id].signedCount = Cardinality(agreements'[id].signed)
  <2>1. "AllSigned" \in Status
    BY DEF Status
  <2> QED
    BY <1>1, <1>2, <1>3, <2>1, SignatureEffect
<1>5. /\ agreements[id].status \in {"Proposed", "PartialSigned"} /\ Live(id)
      /\ work \in Proposals \cup {NoWork}
      /\ Len(work.wallets) \in Nat
      /\ DOMAIN work.wallets = 1..Len(work.wallets)
  BY <1>1, <1>3, SignableStage
<1>6. isrc \in ISRCs /\ id # NoId
  BY IdsAreTracked
<1>7. /\ ownerOf' = [ownerOf EXCEPT ![isrc] = work.wallets[1]]
      /\ tokens' = [tokens EXCEPT ![isrc] = [work |-> work, burned |-> FALSE]]
      /\ totalMinted' = totalMinted + 1
      /\ UNCHANGED <<minterSet, totalBurned>>
  BY <1>3 DEF Mint
<1>8. work.wallets[1] \in Wallets /\ work.wallets[1] # ZeroAddress
  <2>1. 1 \in DOMAIN work.wallets /\ work.wallets[1] # ZeroAddress
    BY <1>3, <1>5 DEF Mint, MayMint, MAX_CONTRIBUTORS
  <2>2. work.wallets \in Seq(Wallets \cup {ZeroAddress})
    BY <1>5, ProposalsHaveLists
  <2> QED
    BY <2>1, <2>2
<1>9. isrcToAgreement[isrc] = id
  BY <1>1, <1>5 DEF OneLiveAgreement
<1> HIDE DEF isrc, work
<1>10. TypeOK'
  <2>1. [work |-> work, burned |-> FALSE]
            \in [work : Proposals \cup {NoWork}, burned : BOOLEAN]
    BY <1>5
  <2>2. ownerOf' \in [ISRCs -> Wallets \cup {ZeroAddress}]
    BY <1>1, <1>6, <1>7, <1>8 DEF TypeOK
  <2>3. tokens' \in [ISRCs -> [work : Proposals \cup {NoWork}, burned : BOOLEAN]]
    BY <1>1, <1>6, <1>7, <2>1 DEF TypeOK
  <2>4. minterSet' \in BOOLEAN /\ totalMinted' \in Nat /\ totalBurned' \in Nat
    BY <1>1, <1>7 DEF TypeOK
  <2>5. isrcToAgreement' \in [ISRCs -> Ids \cup {NoId}] /\ block' \in 1..MaxBlock
    BY <1>1, <1>3 DEF TypeOK
  <2> QED
    BY <1>4, <2>2, <2>3, <2>4, <2>5 DEF TypeOK
<1>11. PointersMatch'
  BY <1>1, <1>3 DEF PointersMatch
<1>12. OneLiveAgreement'
  BY <1>1, <1>3, <1>4, <1>5 DEF OneLiveAgreement, Live
<1>13. SignaturesAreCounted'
  <2> SUFFICES ASSUME NEW other \in Ids
               PROVE  LET a == agreements'[other]
                      IN  /\ a.signed \subseteq DOMAIN a.parties.wallets
                          /\ a.signedCount = Cardinality(a.signed)
                          /\ a.status = "Proposed" => a.signedCount = 0
                          /\ a.status = "PartialSigned" =>
                               a.signedCount \in 1..(Len(a.parties.wallets) - 1)
                          /\ a.status = "AllSigned" =>
                               a.signedCount = Len(a.parties.wallets)
    BY DEF SignaturesAreCounted
  <2>1. CASE other = id
    BY <1>1, <1>3, <1>4, <2>1 DEF SignaturesAreCounted
  <2>2. CASE other # id
    BY <1>1, <1>4, <2>2 DEF SignaturesAreCounted
  <2> QED
    BY <2>1, <2>2
<1>14. MintedIffAllSigned'
  <2> SUFFICES ASSUME NEW t \in ISRCs
               PROVE  LET to == isrcToAgreement[t]
                      IN  /\ ownerOf'[t] # ZeroAddress <=>
                               to # NoId /\ agreements'[to].status = "AllSigned"
                          /\ ownerOf'[t] # ZeroAddress =>
                               /\ tokens'[t].work = agreements'[to].parties
                               /\ ownerOf'[t] = tokens'[t].work.wallets[1]
    BY <1>3 DEF MintedIffAllSigned
  <2>1. isrcToAgreement[t] \in Ids \cup {NoId}
    BY <1>1 DEF TypeOK
  <2>2. CASE t = isrc
    <3>1. ownerOf'[t] = work.wallets[1]
      BY <1>1, <1>7, <2>2 DEF TypeOK
    <3>2. tokens'[t].work = work
      BY <1>1, <1>7, <2>2 DEF TypeOK
    <3> QED
      BY <1>4, <1>6, <1>8, <1>9, <2>2, <3>1, <3>2 DEF work
  <2>3. CASE t # isrc
    <3>1. ownerOf'[t] = ownerOf[t] /\ tokens'[t] = tokens[t]
      BY <1>1, <1>7, <2>3 DEF TypeOK
    <3>2. isrcToAgreement[t] # id
      BY <1>1, <1>6, <2>3 DEF PointersMatch, isrc
    <3> QED
      BY <1>1, <1>4, <2>1, <3>1, <3>2 DEF MintedIffAllSigned
  <2> QED
    BY <2>2, <2>3
<1> QED
  BY <1>10, <1>11, <1>12, <1>13, <1>14 DEF IInv

-----------------------------------------------------------------------------
(* cancel, and the steps that leave the agreements alone *)

LEMMA CancelInv ==
    ASSUME IInv, NEW id \in Ids, Cancel(id)
    PROVE  IInv'
<1>1. TypeOK /\ PointersMatch /\ OneLiveAgreement /\ SignaturesAreCounted
      /\ MintedIffAllSigned
  BY DEF IInv
<1>2. /\ agreements' = [agreements EXCEPT ![id].status = "Canceled"]
      /\ isrcToAgreement' = [isrcToAgreement EXCEPT ![id[1]] = NoId]
      /\ UNCHANGED <<nftVars, block>>
      /\ agreements[id].status \notin {"None", "Canceled", "AllSigned"}
  BY DEF Cancel, MayCancel
<1>3. id[1] \in ISRCs /\ id # NoId
  BY IdsAreTracked
<1>4. /\ agreements' \in [Ids -> Agreement]
      /\ \A other \in Ids : other # id => agreements'[other] = agreements[other]
      /\ agreements'[id].parties = agreements[id].parties
      /\ agreements'[id].status = "Canceled"
      /\ agreements'[id].signed = agreements[id].signed
      /\ agreements'[id].signedCount = agreements[id].signedCount
  BY <1>1, <1>2 DEF TypeOK, Agreement, Status
<1>5. isrcToAgreement[id[1]] = id
  BY <1>1, <1>2 DEF OneLiveAgreement, Live
<1>6. /\ isrcToAgreement' \in [ISRCs -> Ids \cup {NoId}]
      /\ isrcToAgreement'[id[1]] = NoId
      /\ \A i \in ISRCs : i # id[1] => isrcToAgreement'[i] = isrcToAgreement[i]
  BY <1>1, <1>2, <1>3 DEF TypeOK
<1>7. TypeOK'
  BY <1>1, <1>2, <1>4, <1>6 DEF TypeOK, nftVars
<1>8. PointersMatch'
  BY <1>1, <1>6 DEF PointersMatch
<1>9. OneLiveAgreement'
  <2> SUFFICES ASSUME NEW other \in Ids
               PROVE  Live(other)' <=> isrcToAgreement'[other[1]] = other
    BY DEF OneLiveAgreement
  <2>0. other[1] \in ISRCs /\ other # NoId
    BY IdsAreTracked
  <2>1. CASE other = id
    BY <1>4, <1>6, <2>0, <2>1 DEF Live
  <2>2. CASE other # id /\ other[1] = id[1]
    BY <1>1, <1>4, <1>5, <1>6, <2>0, <2>2 DEF Live, OneLiveAgreement
  <2>3. CASE other[1] # id[1]
    BY <1>1, <1>4, <1>6, <2>0, <2>3 DEF Live, OneLiveAgreement
  <2> QED
    BY <2>1, <2>2, <2>3
<1>10. SignaturesAreCounted'
  <2> SUFFICES ASSUME NEW other \in Ids
               PROVE  LET a == agreements'[other]
                      IN  /\ a.signed \subseteq DOMAIN a.parties.wallets
                          /\ a.signedCount = Cardinality(a.signed)
                          /\ a.status = "Proposed" => a.signedCount = 0
                          /\ a.status = "PartialSigned" =>
                               a.signedCount \in 1..(Len(a.parties.wallets) - 1)
                          /\ a.status = "AllSigned" =>
                               a.signedCount = Len(a.parties.wallets)
    BY DEF SignaturesAreCounted
  <2>1. CASE other = id
    BY <1>1, <1>4, <2>1 DEF SignaturesAreCounted
  <2>2. CASE other # id
    BY <1>1, <1>4, <2>2 DEF SignaturesAreCounted
  <2> QED
    BY <2>1, <2>2
<1>11. MintedIffAllSigned'
  <2> SUFFICES ASSUME NEW t \in ISRCs
               PROVE  LET to == isrcToAgreement'[t]
                      IN  /\ ownerOf[t] # ZeroAddress <=>
                               to # NoId /\ agreements'[to].status = "AllSigned"
                          /\ ownerOf[t] # ZeroAddress =>
                               /\ tokens[t].work = agreements'[to].parties
                               /\ ownerOf[t] = tokens[t].work.wallets[1]
    BY <1>2 DEF MintedIffAllSigned, nftVars
  <2>1. CASE t = id[1]
    BY <1>1, <1>2, <1>5, <1>6, <2>1 DEF MintedIffAllSigned
  <2>2. CASE t # id[1]
    <3>1. isrcToAgreement[t] \in Ids \cup {NoId} /\ isrcToAgreement[t] # id
      BY <1>1, <1>3, <2>2 DEF TypeOK, PointersMatch
    <3> QED
      BY <1>1, <1>4, <1>6, <2>2, <3>1 DEF MintedIffAllSigned
  <2> QED
    BY <2>1, <2>2
<1> QED
  BY <1>7, <1>8, <1>9, <1>10, <1>11 DEF IInv

LEMMA TokenStepInv == ASSUME IInv, TokenStep PROVE IInv'
<1>1. TypeOK /\ PointersMatch /\ OneLiveAgreement /\ SignaturesAreCounted
      /\ MintedIffAllSigned
  BY DEF IInv
<1>2. UNCHANGED <<agreements, isrcToAgreement, block, ownerOf, totalMinted>>
  BY DEF TokenStep, SetMinter, Burn
<1>3. /\ tokens' \in [ISRCs -> [work : Proposals \cup {NoWork}, burned : BOOLEAN]]
      /\ \A i \in ISRCs : tokens'[i].work = tokens[i].work
      /\ minterSet' \in BOOLEAN /\ totalBurned' \in Nat
  <2>1. CASE SetMinter
    BY <1>1, <2>1 DEF SetMinter, TypeOK
  <2>2. CASE \E isrc \in ISRCs : Burn(isrc)
    <3>1. PICK isrc \in ISRCs : Burn(isrc)
      BY <2>2
    <3>2. /\ tokens' = [tokens EXCEPT ![isrc].burned = TRUE]
          /\ totalBurned' = totalBurned + 1 /\ minterSet' = minterSet
      BY <3>1 DEF Burn
    <3> DEFINE Tokens == [work : Proposals \cup {NoWork}, burned : BOOLEAN]
               b == [tokens[isrc] EXCEPT !.burned = TRUE]
    <3>3. tokens \in [ISRCs -> Tokens] /\ totalBurned \in Nat
          /\ minterSet \in BOOLEAN
      BY <1>1 DEF TypeOK
    <3>4. b \in Tokens /\ b.work = tokens[isrc].work
      BY <3>3
    <3>5. tokens' = [tokens EXCEPT ![isrc] = b]
      BY <3>2
    <3> HIDE DEF Tokens, b
    <3>6. tokens' \in [ISRCs -> Tokens]
          /\ \A i \in ISRCs : tokens'[i].work = tokens[i].work
      BY <3>3, <3>4, <3>5
    <3>7. minterSet' \in BOOLEAN
      BY <3>2, <3>3
    <3>8. totalBurned' \in Nat
      BY <3>2, <3>3
    <3> QED
      BY <3>6, <3>7, <3>8 DEF Tokens
  <2> QED
    BY <2>1, <2>2 DEF TokenStep
<1>4. TypeOK'
  BY <1>1, <1>2, <1>3 DEF TypeOK
<1>5. PointersMatch' /\ OneLiveAgreement' /\ SignaturesAreCounted'
  BY <1>1, <1>2 DEF PointersMatch, OneLiveAgreement, Live, SignaturesAreCounted
<1>6. MintedIffAllSigned'
  BY <1>1, <1>2, <1>3 DEF MintedIffAllSigned
<1> QED
  BY <1>4, <1>5, <1>6 DEF IInv

LEMMA NewBlockInv == ASSUME IInv, NewBlock PROVE IInv'
<1>1. TypeOK'
  BY AgreementAssumption DEF IInv, TypeOK, NewBlock, nftVars
<1>2. /\ PointersMatch' /\ OneLiveAgreement'
      /\ SignaturesAreCounted' /\ MintedIffAllSigned'
  BY DEF IInv, NewBlock, nftVars, PointersMatch, OneLiveAgreement, Live,
         SignaturesAreCounted, MintedIffAllSigned
<1> QED
  BY <1>1, <1>2 DEF IInv

LEMMA NextInv == IInv /\ [Next]_vars => IInv'
<1> SUFFICES ASSUME IInv, [Next]_vars PROVE IInv'
  OBVIOUS
<1>1. CASE UNCHANGED vars
  BY <1>1 DEF vars, nftVars, IInv, TypeOK, PointersMatch, OneLiveAgreement, Live,
              SignaturesAreCounted, MintedIffAllSigned
<1>2. CASE \E isrc \in ISRCs, p \in Proposals : Propose(isrc, p)
  BY <1>2, ProposeInv
<1>3. CASE \E id \in Ids, w \in Wallets : Sign(id, w) \/ SignAndMint(id, w)
  BY <1>3, SignInv, SignAndMintInv
<1>4. CASE \E id \in Ids : Cancel(id)
  BY <1>4, CancelInv
<1>5. CASE TokenStep
  BY <1>5, TokenStepInv
<1>6. CASE NewBlock
  BY <1>6, NewBlockInv
<1> QED
  BY <1>1, <1>2, <1>3, <1>4, <1>5, <1>6 DEF Next

LEMMA Invariance == Spec => []IInv
BY InitInv, NextInv, PTL DEF Spec

-----------------------------------------------------------------------------
(* Theorems *)

\* Every variable keeps its type.
THEOREM TypeCorrect == Spec => []TypeOK
<1>1. IInv => TypeOK
  BY DEF IInv
<1> QED
  BY <1>1, Invariance, PTL

\* A track has one agreement that is not canceled, or none, however its
\* agreements are proposed, canceled and proposed anew.
THEOREM LiveAgreementIsUnique == Spec => []OneLiveAgreement
<1>1. IInv => OneLiveAgreement
  BY DEF IInv
<1> QED
  BY <1>1, Invariance, PTL

\* The counter the last signature is recognised by counts the parties marked
\* as signed.
THEOREM CounterIsExact == Spec => []SignaturesAreCounted
<1>1. IInv => SignaturesAreCounted
  BY DEF IInv
<1> QED
  BY <1>1, Invariance, PTL

\* The two contracts agree: a token exists for a track exactly when the
\* agreement the track points to is fully signed, and it records that
\* agreement's parties.
THEOREM ContractsAgree == Spec => []MintedIffAllSigned
<1>1. IInv => MintedIffAllSigned
  BY DEF IInv
<1> QED
  BY <1>1, Invariance, PTL

\* Two live agreements are for different tracks.
LEMMA LiveAgreementsDiffer ==
    ASSUME OneLiveAgreement, NEW id \in Ids, NEW other \in Ids,
           Live(id), Live(other), id # other
    PROVE  id[1] # other[1]
BY DEF OneLiveAgreement

LEMMA FinalAgreementStays ==
    ASSUME IInv, [Next]_vars, NEW id \in Ids, agreements[id].status = "AllSigned"
    PROVE  /\ agreements'[id] = agreements[id]
           /\ isrcToAgreement'[id[1]] = id
           /\ ownerOf'[id[1]] = ownerOf[id[1]]
           /\ tokens'[id[1]].work = tokens[id[1]].work
           /\ tokens[id[1]].burned => tokens'[id[1]].burned
<1> DEFINE Stays == /\ agreements'[id] = agreements[id]
                    /\ isrcToAgreement'[id[1]] = id
                    /\ ownerOf'[id[1]] = ownerOf[id[1]]
                    /\ tokens'[id[1]].work = tokens[id[1]].work
                    /\ tokens[id[1]].burned => tokens'[id[1]].burned
<1>1. TypeOK /\ OneLiveAgreement
  BY DEF IInv
<1>2. Live(id) /\ isrcToAgreement[id[1]] = id /\ id[1] \in ISRCs /\ id # NoId
  BY <1>1, IdsAreTracked DEF Live, OneLiveAgreement
<1>3. CASE UNCHANGED vars
  BY <1>2, <1>3 DEF vars, nftVars
<1>4. ASSUME NEW isrc \in ISRCs, NEW p \in Proposals, Propose(isrc, p)
      PROVE  Stays
  <2>1. /\ isrcToAgreement[isrc] = NoId
        /\ agreements[<<isrc, block>>].status = "None"
        /\ \A other \in Ids : other # <<isrc, block>> =>
             agreements'[other] = agreements[other]
        /\ isrcToAgreement' = [isrcToAgreement EXCEPT ![isrc] = <<isrc, block>>]
        /\ UNCHANGED <<ownerOf, tokens>>
    BY <1>1, <1>4 DEF Propose, MayPropose, TypeOK, nftVars
  <2>2. isrc # id[1] /\ id # <<isrc, block>>
    BY <1>2, <2>1
  <2>3. agreements'[id] = agreements[id]
    BY <2>1, <2>2
  <2>4. isrcToAgreement'[id[1]] = id
    BY <1>1, <1>2, <2>1, <2>2 DEF TypeOK
  <2> QED
    BY <2>1, <2>3, <2>4
<1>5. ASSUME NEW other \in Ids, NEW w \in Wallets, Sign(other, w)
      PROVE  Stays
  <2>1. other # id
    BY <1>5 DEF Sign, MaySign
  <2>2. agreements'[id] = agreements[id]
    BY <1>1, <1>5, <2>1 DEF Sign, Signed, TypeOK
  <2> QED
    BY <1>2, <1>5, <2>2 DEF Sign, nftVars
<1>6. ASSUME NEW other \in Ids, NEW w \in Wallets, SignAndMint(other, w)
      PROVE  Stays
  <2>1. other # id /\ Live(other)
    BY <1>6 DEF SignAndMint, MaySign, Live
  <2>2. other[1] # id[1]
    BY <1>1, <1>2, <2>1, LiveAgreementsDiffer
  <2>3. agreements'[id] = agreements[id]
    BY <1>1, <1>6, <2>1 DEF SignAndMint, Signed, TypeOK
  <2>4. ownerOf'[id[1]] = ownerOf[id[1]] /\ tokens'[id[1]] = tokens[id[1]]
    BY <1>1, <1>2, <1>6, <2>2 DEF SignAndMint, Mint, TypeOK
  <2> QED
    BY <1>2, <1>6, <2>3, <2>4 DEF SignAndMint
<1>7. ASSUME NEW other \in Ids, Cancel(other)
      PROVE  Stays
  <2>1. other # id /\ Live(other)
    BY <1>7 DEF Cancel, MayCancel, Live
  <2>2. other[1] # id[1]
    BY <1>1, <1>2, <2>1, LiveAgreementsDiffer
  <2>3. agreements'[id] = agreements[id]
    BY <1>1, <1>7, <2>1 DEF Cancel, TypeOK
  <2>4. isrcToAgreement'[id[1]] = id
    BY <1>1, <1>2, <1>7, <2>2 DEF Cancel, TypeOK
  <2> QED
    BY <1>7, <2>3, <2>4 DEF Cancel, nftVars
<1>8. CASE SetMinter /\ UNCHANGED <<agreements, isrcToAgreement, block>>
  BY <1>2, <1>8 DEF SetMinter
<1>9. ASSUME NEW isrc \in ISRCs, Burn(isrc),
             UNCHANGED <<agreements, isrcToAgreement, block>>
      PROVE  Stays
  <2>1. /\ tokens'[id[1]].work = tokens[id[1]].work
        /\ tokens[id[1]].burned => tokens'[id[1]].burned
    BY <1>1, <1>2, <1>9 DEF Burn, TypeOK
  <2> QED
    BY <1>2, <1>9, <2>1 DEF Burn
<1>10. CASE NewBlock
  BY <1>2, <1>10 DEF NewBlock, nftVars
<1> QED
  BY <1>3, <1>4, <1>5, <1>6, <1>7, <1>8, <1>9, <1>10 DEF Next, TokenStep

\* Attribution is permanent: no step changes a fully signed agreement, the
\* pointer to it, or the owner and the contributors of its token.
THEOREM PermanentAttribution == Spec => AttributionIsPermanent
<1>1. IInv /\ [Next]_vars =>
        \A id \in Ids :
          agreements[id].status = "AllSigned" =>
             /\ agreements'[id] = agreements[id]
             /\ isrcToAgreement'[id[1]] = id
             /\ ownerOf'[id[1]] = ownerOf[id[1]]
             /\ tokens'[id[1]].work = tokens[id[1]].work
             /\ tokens[id[1]].burned => tokens'[id[1]].burned
  BY FinalAgreementStays
<1> QED
  BY <1>1, Invariance, PTL DEF Spec, AttributionIsPermanent

-----------------------------------------------------------------------------
(* Records of users *)

UserIInv == UserTypeOK /\ LastWordCounts

LEMMA ListHasItems ==
    ASSUME NEW S, NEW s \in Seq(S)
    PROVE  Len(s) \in Nat /\ DOMAIN s = 1..Len(s) /\ \A i \in DOMAIN s : s[i] \in S
OBVIOUS

LEMMA ReversedAppend ==
    ASSUME NEW S, NEW s \in Seq(S), NEW x \in S
    PROVE  LET old == LatestFirst(s)
               new == LatestFirst(Append(s, x))
               n == Len(s)
           IN  /\ n \in Nat
               /\ DOMAIN old = 1..n /\ DOMAIN new = 1..(n + 1)
               /\ new[1] = x
               /\ \A i \in 1..n : new[i + 1] = old[i]
<1> DEFINE n == Len(s)
           t == Append(s, x)
<1>1. n \in Nat /\ DOMAIN s = 1..n
  BY ListHasItems
<1>2. /\ Len(t) = n + 1
      /\ t[n + 1] = x
      /\ \A i \in 1..n : t[i] = s[i]
  BY <1>1
<1> HIDE DEF t, n
<1>3. LatestFirst(t) = [i \in 1..(n + 1) |-> t[((n + 1) - i) + 1]]
  BY <1>2 DEF LatestFirst, SX!Reverse
<1>4. LatestFirst(s) = [i \in 1..n |-> s[(n - i) + 1]]
  BY DEF LatestFirst, SX!Reverse, n
<1>5. LatestFirst(t)[1] = x
  BY <1>1, <1>2, <1>3
<1>6. ASSUME NEW i \in 1..n PROVE LatestFirst(t)[i + 1] = LatestFirst(s)[i]
  <2>1. i + 1 \in 1..(n + 1) /\ ((n + 1) - (i + 1)) + 1 = (n - i) + 1 /\ (n - i) + 1 \in 1..n
    BY <1>1
  <2> QED BY <1>2, <1>3, <1>4, <2>1
<1> QED BY <1>1, <1>3, <1>4, <1>5, <1>6 DEF t, n

\* The latest consent decides about its purpose and about no other.
LEMMA LatestDecides ==
    ASSUME NEW u \in Users, NEW c \in Consent, consents[u] \in Seq(Consent),
           consents'[u] = Append(consents[u], c), NEW p
    PROVE  HasConsent(u, p)' <=> IF p = c.purpose THEN c.granted ELSE HasConsent(u, p)
<1> DEFINE old == LatestFirst(consents[u])
           new == LatestFirst(consents'[u])
           n == Len(consents[u])
           First(list, i) == /\ list[i].purpose = p
                             /\ list[i].granted
                             /\ \A k \in 1..(i - 1) : list[k].purpose # p
<1>1. /\ n \in Nat /\ DOMAIN old = 1..n /\ DOMAIN new = 1..(n + 1)
      /\ new[1] = c /\ \A i \in 1..n : new[i + 1] = old[i]
  BY ReversedAppend
<1>2. /\ HasConsent(u, p)' <=> \E i \in 1..(n + 1) : First(new, i)
      /\ HasConsent(u, p) <=> \E i \in 1..n : First(old, i)
  BY <1>1 DEF HasConsent
<1> HIDE DEF n, new, old
<1>3. CASE p = c.purpose
  <2>1. First(new, 1) <=> c.granted
    BY <1>1, <1>3
  <2>2. ASSUME NEW i \in 1..(n + 1), First(new, i) PROVE i = 1
    <3>1. 1 \notin 1..(i - 1)
      BY <1>1, <1>3, <2>2
    <3> QED BY <1>1, <3>1
  <2>3. 1 \in 1..(n + 1)
    BY <1>1
  <2> QED BY <1>2, <1>3, <2>1, <2>2, <2>3
<1>4. CASE p # c.purpose
  <2>1. ~First(new, 1)
    BY <1>1, <1>4
  <2>2. ASSUME NEW i \in 1..n PROVE First(new, i + 1) <=> First(old, i)
    <3>1. new[i + 1] = old[i] /\ (i + 1) - 1 = i
      BY <1>1
    <3>2. (\A k \in 1..i : new[k].purpose # p) <=> (\A k \in 1..(i - 1) : old[k].purpose # p)
      <4>1. ASSUME \A k \in 1..i : new[k].purpose # p, NEW k \in 1..(i - 1)
            PROVE  old[k].purpose # p
        <5>1. k + 1 \in 1..i /\ k \in 1..n
          BY <1>1
        <5> QED BY <1>1, <4>1, <5>1
      <4>2. ASSUME \A k \in 1..(i - 1) : old[k].purpose # p, NEW k \in 1..i
            PROVE  new[k].purpose # p
        <5>1. CASE k = 1
          BY <1>1, <1>4, <5>1
        <5>2. CASE k # 1
          <6>1. k - 1 \in 1..(i - 1) /\ k - 1 \in 1..n /\ (k - 1) + 1 = k
            BY <1>1, <5>2
          <6> QED BY <1>1, <4>2, <6>1
        <5> QED BY <5>1, <5>2
      <4> QED BY <4>1, <4>2
    <3> QED BY <3>1, <3>2
  <2>3. \A i \in 1..(n + 1) : i = 1 \/ (i - 1 \in 1..n /\ (i - 1) + 1 = i)
    BY <1>1
  <2>4. \A i \in 1..n : i + 1 \in 1..(n + 1)
    BY <1>1
  <2> HIDE DEF First
  <2>5. (\E i \in 1..(n + 1) : First(new, i)) <=> \E i \in 1..n : First(old, i)
    BY <2>1, <2>2, <2>3, <2>4
  <2> QED BY <1>2, <1>4, <2>5 DEF First
<1> QED BY <1>3, <1>4

LEMMA UserInitHolds == UserInit => UserIInv
<1> SUFFICES ASSUME UserInit PROVE UserIInv
  OBVIOUS
<1>1. UserTypeOK
  BY DEF UserInit, UserTypeOK
<1>2. ASSUME NEW u \in Users, NEW p \in Purposes PROVE HasConsent(u, p) = FALSE
  <2>1. Len(<< >>) = 0
    OBVIOUS
  <2>2. DOMAIN LatestFirst(<< >>) = {}
    BY <2>1 DEF LatestFirst, SX!Reverse
  <2>3. consents[u] = << >>
    BY DEF UserInit
  <2>4. DOMAIN LatestFirst(consents[u]) = {}
    BY <2>2, <2>3
  <2> QED BY <2>4 DEF HasConsent
<1> QED BY <1>1, <1>2 DEF UserIInv, LastWordCounts, UserInit

LEMMA UserNextKeeps == UserIInv /\ [UserNext]_userVars => UserIInv'
<1> SUFFICES ASSUME UserIInv, [UserNext]_userVars PROVE UserIInv'
  OBVIOUS
<1>1. UserTypeOK'
  <2>1. \A country : Screened(country) \in KycRecord
    BY DEF Screened, ScreenOfac, KycRecord, Tiers, OfacStatus
  <2>2. ASSUME NEW u \in Users, NEW country \in Countries, SubmitKyc(u, country)
        PROVE  UserTypeOK'
    <3>1. kyc \in [Users -> KycRecord \cup {NoRecord}] /\ Screened(country) \in KycRecord
      BY <2>1 DEF UserIInv, UserTypeOK
    <3>2. kyc' = kyc \/ kyc' = [kyc EXCEPT ![u] = Screened(country)]
      BY <2>2 DEF SubmitKyc
    <3>3. kyc' \in [Users -> KycRecord \cup {NoRecord}]
      BY <3>1, <3>2
    <3>4. UNCHANGED <<consents, deletions, said, unsaved>>
      BY <2>2 DEF SubmitKyc
    <3> QED BY <3>3, <3>4 DEF UserIInv, UserTypeOK
  <2>3. ASSUME NEW u \in Users, NEW c \in Consent, RecordConsent(u, c) PROVE UserTypeOK'
    <3>1. c.purpose \in Purposes /\ c.granted \in BOOLEAN
      BY DEF Consent
    <3>2. said' \in [Users -> [Purposes -> BOOLEAN]]
      BY <2>3, <3>1 DEF RecordConsent, UserIInv, UserTypeOK
    <3>3. consents' \in [Users -> Seq(Consent)] /\ unsaved' \subseteq Users
      <4>1. consents \in [Users -> Seq(Consent)] /\ unsaved \subseteq Users
        BY DEF UserIInv, UserTypeOK
      <4>2. Append(consents[u], c) \in Seq(Consent)
        BY <4>1
      <4> QED BY <2>3, <4>1, <4>2 DEF RecordConsent
    <3> QED BY <2>3, <3>2, <3>3 DEF RecordConsent, UserIInv, UserTypeOK
  <2>4. ASSUME NEW u \in Users, DeleteUserData(u) PROVE UserTypeOK'
    BY <2>4 DEF DeleteUserData, UserIInv, UserTypeOK
  <2>5. CASE UNCHANGED userVars
    BY <2>5 DEF userVars, UserIInv, UserTypeOK
  <2> QED BY <2>2, <2>3, <2>4, <2>5 DEF UserNext, KycNext, PrivacyNext
<1>2. ASSUME UNCHANGED <<consents, said, unsaved>> PROVE LastWordCounts'
  <2>1. \A u, p : HasConsent(u, p)' = HasConsent(u, p)
    BY <1>2 DEF HasConsent
  <2> QED BY <1>2, <2>1 DEF UserIInv, LastWordCounts
<1>3. ASSUME NEW u \in Users, NEW c \in Consent, RecordConsent(u, c) PROVE LastWordCounts'
  <2>1. c.purpose \in Purposes /\ said \in [Users -> [Purposes -> BOOLEAN]]
        /\ consents \in [Users -> Seq(Consent)]
    BY DEF Consent, UserIInv, UserTypeOK
  <2>2. \A v \in Users, p \in Purposes :
           said'[v][p] = IF v = u /\ p = c.purpose THEN c.granted ELSE said[v][p]
    BY <1>3, <2>1 DEF RecordConsent
  <2>3. CASE consents' = [consents EXCEPT ![u] = Append(@, c)] /\ UNCHANGED unsaved
    <3>1. consents'[u] = Append(consents[u], c) /\ consents[u] \in Seq(Consent)
      BY <2>1, <2>3
    <3>2. \A p : HasConsent(u, p)' <=> IF p = c.purpose THEN c.granted ELSE HasConsent(u, p)
      BY <3>1, LatestDecides
    <3>3. \A v \in Users \ {u} : \A p : HasConsent(v, p)' <=> HasConsent(v, p)
      BY <2>1, <2>3 DEF HasConsent
    <3>4. c.granted \in BOOLEAN /\ \A v \in Users, p \in Purposes : said[v][p] \in BOOLEAN
      BY <2>1 DEF Consent
    <3>5. \A v, p : HasConsent(v, p) \in BOOLEAN /\ HasConsent(v, p)' \in BOOLEAN
      BY DEF HasConsent
    <3>6. ASSUME NEW v \in Users \ unsaved, NEW p \in Purposes
          PROVE  HasConsent(v, p)' = said'[v][p]
      <4>1. HasConsent(v, p) = said[v][p]
        BY DEF UserIInv, LastWordCounts
      <4> QED BY <2>2, <3>2, <3>3, <3>4, <3>5, <4>1
    <3> QED BY <2>3, <3>6 DEF LastWordCounts
  <2>4. CASE unsaved' = unsaved \cup {u} /\ UNCHANGED consents
    <3>1. ASSUME NEW v \in Users \ unsaved', NEW p \in Purposes
          PROVE  HasConsent(v, p)' = said'[v][p]
      <4>1. v # u /\ v \in Users \ unsaved
        BY <2>4
      <4>2. HasConsent(v, p) = said[v][p]
        BY <4>1 DEF UserIInv, LastWordCounts
      <4>3. HasConsent(v, p)' = HasConsent(v, p)
        BY <2>4 DEF HasConsent
      <4> QED BY <2>2, <4>1, <4>2, <4>3
    <3> QED BY <3>1 DEF LastWordCounts
  <2> QED BY <1>3, <2>3, <2>4 DEF RecordConsent
<1>4. LastWordCounts'
  <2>1. CASE UNCHANGED userVars
    BY <1>2, <2>1 DEF userVars
  <2>2. CASE KycNext
    BY <1>2, <2>2 DEF KycNext, SubmitKyc
  <2>3. CASE PrivacyNext
    BY <1>2, <1>3, <2>3 DEF PrivacyNext, DeleteUserData
  <2> QED BY <2>1, <2>2, <2>3 DEF UserNext
<1> QED BY <1>1, <1>4 DEF UserIInv

-----------------------------------------------------------------------------
(* Uploads and registrations *)

AfterStore    == {"bttc", "ddex", "mirrors", "count", "band", "latency", "done"}
AfterChain    == AfterStore \ {"bttc"}
AfterDelivery == AfterChain \ {"ddex"}

\* What an upload has done at each step of it.
UploadGood(w) ==
    job[w] \in Upload =>
       /\ job[w].pc \in AfterStore => <<job[w].isrc, job[w].file>> \in stored
       /\ job[w].pc \in AfterChain => mode.bttc_dev \/ job[w].isrc \in ledger
       /\ job[w].pc \in AfterDelivery =>
             mode.ddex_dev \/ [isrc |-> job[w].isrc, band |-> job[w].band,
                               contributors |-> {}] \in delivered

Checked == {"register", "count", "band", "answer"}

\* Who was looked up in a registration, and that everybody was before its end.
RegistrationGood(w) ==
    job[w] \in Registration =>
       /\ \A i \in DOMAIN job[w].seen :
             /\ i \in DOMAIN job[w].parties
             /\ job[w].seen[i].permitted => job[w].parties[i] \in job[w].cleared
       /\ job[w].pc \in {"look", "permit"} => Len(job[w].seen) < Len(job[w].parties)
       /\ job[w].pc = "deliver" => Len(job[w].seen) = Len(job[w].parties)
       /\ job[w].pc \in Checked => Fns!Range(job[w].parties) \subseteq job[w].cleared

AnswerGood(a) ==
    /\ a.what = "upload" /\ a.status = 200 =>
          /\ <<a.isrc, a.file>> \in stored
          /\ mode.bttc_dev \/ a.isrc \in ledger
          /\ mode.ddex_dev \/ [isrc |-> a.isrc, band |-> a.band, contributors |-> {}]
                                 \in delivered
    /\ a.what = "register" => a.parties \subseteq a.cleared

UploadIInv ==
    /\ UploadTypeOK
    /\ \A w \in Workers : UploadGood(w) /\ RegistrationGood(w)
    /\ \A a \in answers : AnswerGood(a)
    /\ CountsAgreeWithTheAudit

-----------------------------------------------------------------------------
(* Counting handlers *)

Bit(b) == IF b THEN 1 ELSE 0

\* w is one of the handlers At counts.
In(w, what, pcs) == job[w] # Idle /\ job[w].what = what /\ job[w].pc \in pcs

\* One handler moves.
LEMMA AtMoves ==
    ASSUME NEW w \in Workers, \A v \in Workers \ {w} : job'[v] = job[v],
           NEW what, NEW pcs
    PROVE  /\ At(what, pcs) \in Nat /\ At(what, pcs)' \in Nat
           /\ At(what, pcs)' + Bit(In(w, what, pcs)) = At(what, pcs) + Bit(In(w, what, pcs)')
<1> DEFINE S == {v \in Workers : In(v, what, pcs)}
           T == {v \in Workers : In(v, what, pcs)'}
<1>1. IsFiniteSet(S) /\ IsFiniteSet(T)
  <2>1. S \subseteq Workers /\ T \subseteq Workers /\ IsFiniteSet(Workers)
    BY UploadAssumption
  <2> HIDE DEF S, T
  <2> QED BY <2>1, FS_Subset
<1>2. At(what, pcs) = Cardinality(S) /\ At(what, pcs)' = Cardinality(T)
  BY DEF At, In
<1>3. S \ {w} = T \ {w}
  BY DEF In
<1>4. (w \in S <=> In(w, what, pcs)) /\ (w \in T <=> In(w, what, pcs)')
  OBVIOUS
<1> HIDE DEF S, T
<1>5. /\ Cardinality(S) \in Nat /\ Cardinality(T) \in Nat
      /\ Cardinality(S \ {w}) = Cardinality(S) - Bit(w \in S)
      /\ Cardinality(T \ {w}) = Cardinality(T) - Bit(w \in T)
  BY <1>1, FS_RemoveElement, FS_CardinalityType DEF Bit
<1> QED BY <1>2, <1>3, <1>4, <1>5 DEF Bit

\* Sums over the bands.
LEMMA BandsSum == \A f : Fns!SumFunction(f) = SumOf(f)
BY DEF Fns!SumFunction, Fns!SumFunctionOnSet, Fns!FoldFunctionOnSet, Fns!MapThenFoldSet,
       SumOf, SumOver, Fn!SumFunctionOnSet, Fn!FoldFunctionOnSet, Fn!MapThenFoldSet

LEMMA BandsAreFinite == IsFiniteSet(Bands)
<1>1. ASSUME NEW n \in Nat PROVE IsFiniteSet(0..n)
  BY FS_Interval
<1> QED BY <1>1 DEF Bands

LEMMA BandSumIsNat ==
    ASSUME NEW f \in [Bands -> Nat]
    PROVE  Fns!SumFunction(f) \in Nat
<1>1. IsFiniteSet(DOMAIN f) /\ \A x \in DOMAIN f : f[x] \in Nat
  BY BandsAreFinite
<1> QED BY <1>1, BandsSum, SumOfIsNat

LEMMA BandAdded ==
    ASSUME NEW f \in [Bands -> Nat], NEW b \in Bands
    PROVE  /\ [f EXCEPT ![b] = @ + 1] \in [Bands -> Nat]
           /\ Fns!SumFunction([f EXCEPT ![b] = @ + 1]) = Fns!SumFunction(f) + 1
<1> DEFINE g == [f EXCEPT ![b] = @ + 1]
<1>1. /\ IsFiniteSet(DOMAIN f) /\ b \in DOMAIN f /\ DOMAIN g = DOMAIN f
      /\ \A x \in DOMAIN f : f[x] \in Int
      /\ \A x \in DOMAIN f \ {b} : g[x] = f[x]
      /\ g[b] = f[b] + 1 /\ g[b] \in Int /\ f[b] \in Int
      /\ g \in [Bands -> Nat]
  BY BandsAreFinite
<1> HIDE DEF g
<1>2. SumOf(g) = SumOf(f) - f[b] + g[b]
  BY <1>1, SumChanges
<1>3. SumOf(f) \in Int
  BY <1>1, SumOfIsInt
<1>4. Fns!SumFunction(g) = Fns!SumFunction(f) + 1
  BY <1>1, <1>2, <1>3, BandsSum
<1> QED BY <1>1, <1>4 DEF g

\* Where a handler is, as far as the counts are concerned.
Place(w) ==
    CASE job[w] = Idle -> "elsewhere"
      [] job[w] # Idle /\ job[w].what = "upload" /\ job[w].pc = "band" -> "upload, band"
      [] job[w] # Idle /\ job[w].what = "upload" /\ job[w].pc \in {"latency", "done"} ->
            "upload, end"
      [] job[w] # Idle /\ job[w].what = "register" /\ job[w].pc = "band" -> "register, band"
      [] job[w] # Idle /\ job[w].what = "register" /\ job[w].pc = "count" -> "register, count"
      [] OTHER -> "elsewhere"

LEMMA PlacesAreCounted ==
    ASSUME NEW w
    PROVE  /\ In(w, "upload", {"band"}) <=> Place(w) = "upload, band"
           /\ In(w, "register", {"band"}) <=> Place(w) = "register, band"
           /\ In(w, "register", {"count"}) <=> Place(w) = "register, count"
           /\ In(w, "upload", {"band", "latency", "done"}) <=>
                 Place(w) \in {"upload, band", "upload, end"}
BY DEF In, Place

\* The handlers the counts leave out.
UB == At("upload", {"band"})
RB == At("register", {"band"})
RC == At("register", {"count"})
UL == At("upload", {"band", "latency", "done"})

Moved(from, to) ==
    /\ UB \in Nat /\ UB' \in Nat
    /\ UB' = UB - (IF from = "upload, band" THEN 1 ELSE 0)
             + (IF to = "upload, band" THEN 1 ELSE 0)
    /\ RB \in Nat /\ RB' \in Nat
    /\ RB' = RB - (IF from = "register, band" THEN 1 ELSE 0)
             + (IF to = "register, band" THEN 1 ELSE 0)
    /\ RC \in Nat /\ RC' \in Nat
    /\ RC' = RC - (IF from = "register, count" THEN 1 ELSE 0)
             + (IF to = "register, count" THEN 1 ELSE 0)
    /\ UL \in Nat /\ UL' \in Nat
    /\ UL' = UL - (IF from \in {"upload, band", "upload, end"} THEN 1 ELSE 0)
             + (IF to \in {"upload, band", "upload, end"} THEN 1 ELSE 0)

LEMMA PlacesMove ==
    ASSUME NEW w \in Workers, \A v \in Workers \ {w} : job'[v] = job[v]
    PROVE  Moved(Place(w), Place(w)')
<1>1. /\ UB \in Nat /\ UB' \in Nat
      /\ UB' = UB - (IF Place(w) = "upload, band" THEN 1 ELSE 0)
               + (IF Place(w)' = "upload, band" THEN 1 ELSE 0)
  <2> DEFINE p == IF Place(w) = "upload, band" THEN 1 ELSE 0
             q == IF Place(w)' = "upload, band" THEN 1 ELSE 0
             m == UB
             k == UB'
  <2>1. /\ UB \in Nat /\ UB' \in Nat
        /\ UB' + Bit(In(w, "upload", {"band"})) = UB + Bit(In(w, "upload", {"band"})')
    BY AtMoves DEF UB
  <2>2. Bit(In(w, "upload", {"band"})) = p
    BY PlacesAreCounted DEF Bit
  <2>3. Bit(In(w, "upload", {"band"})') = q
    BY DEF In, Place, Bit
  <2>4. m \in Nat /\ k \in Nat /\ k + p = m + q /\ p \in Nat /\ q \in Nat
    <3>1. p \in Nat /\ q \in Nat
      OBVIOUS
    <3> HIDE DEF p, q
    <3> QED BY <2>1, <2>2, <2>3, <3>1
  <2> HIDE DEF p, q, m, k
  <2>5. k = m - p + q
    BY <2>4
  <2> QED BY <2>4, <2>5 DEF p, q, m, k
<1>2. /\ RB \in Nat /\ RB' \in Nat
      /\ RB' = RB - (IF Place(w) = "register, band" THEN 1 ELSE 0)
               + (IF Place(w)' = "register, band" THEN 1 ELSE 0)
  <2> DEFINE p == IF Place(w) = "register, band" THEN 1 ELSE 0
             q == IF Place(w)' = "register, band" THEN 1 ELSE 0
             m == RB
             k == RB'
  <2>1. /\ RB \in Nat /\ RB' \in Nat
        /\ RB' + Bit(In(w, "register", {"band"})) = RB + Bit(In(w, "register", {"band"})')
    BY AtMoves DEF RB
  <2>2. Bit(In(w, "register", {"band"})) = p
    BY PlacesAreCounted DEF Bit
  <2>3. Bit(In(w, "register", {"band"})') = q
    BY DEF In, Place, Bit
  <2>4. m \in Nat /\ k \in Nat /\ k + p = m + q /\ p \in Nat /\ q \in Nat
    <3>1. p \in Nat /\ q \in Nat
      OBVIOUS
    <3> HIDE DEF p, q
    <3> QED BY <2>1, <2>2, <2>3, <3>1
  <2> HIDE DEF p, q, m, k
  <2>5. k = m - p + q
    BY <2>4
  <2> QED BY <2>4, <2>5 DEF p, q, m, k
<1>3. /\ RC \in Nat /\ RC' \in Nat
      /\ RC' = RC - (IF Place(w) = "register, count" THEN 1 ELSE 0)
               + (IF Place(w)' = "register, count" THEN 1 ELSE 0)
  <2> DEFINE p == IF Place(w) = "register, count" THEN 1 ELSE 0
             q == IF Place(w)' = "register, count" THEN 1 ELSE 0
             m == RC
             k == RC'
  <2>1. /\ RC \in Nat /\ RC' \in Nat
        /\ RC' + Bit(In(w, "register", {"count"})) = RC + Bit(In(w, "register", {"count"})')
    BY AtMoves DEF RC
  <2>2. Bit(In(w, "register", {"count"})) = p
    BY PlacesAreCounted DEF Bit
  <2>3. Bit(In(w, "register", {"count"})') = q
    BY DEF In, Place, Bit
  <2>4. m \in Nat /\ k \in Nat /\ k + p = m + q /\ p \in Nat /\ q \in Nat
    <3>1. p \in Nat /\ q \in Nat
      OBVIOUS
    <3> HIDE DEF p, q
    <3> QED BY <2>1, <2>2, <2>3, <3>1
  <2> HIDE DEF p, q, m, k
  <2>5. k = m - p + q
    BY <2>4
  <2> QED BY <2>4, <2>5 DEF p, q, m, k
<1>4. /\ UL \in Nat /\ UL' \in Nat
      /\ UL' = UL - (IF Place(w) \in {"upload, band", "upload, end"} THEN 1 ELSE 0)
               + (IF Place(w)' \in {"upload, band", "upload, end"} THEN 1 ELSE 0)
  <2> DEFINE p == IF Place(w) \in {"upload, band", "upload, end"} THEN 1 ELSE 0
             q == IF Place(w)' \in {"upload, band", "upload, end"} THEN 1 ELSE 0
             m == UL
             k == UL'
  <2>1. /\ UL \in Nat /\ UL' \in Nat
        /\ UL' + Bit(In(w, "upload", {"band", "latency", "done"})) =
              UL + Bit(In(w, "upload", {"band", "latency", "done"})')
    BY AtMoves DEF UL
  <2>2. Bit(In(w, "upload", {"band", "latency", "done"})) = p
    BY PlacesAreCounted DEF Bit
  <2>3. Bit(In(w, "upload", {"band", "latency", "done"})') = q
    BY DEF In, Place, Bit
  <2>4. m \in Nat /\ k \in Nat /\ k + p = m + q /\ p \in Nat /\ q \in Nat
    <3>1. p \in Nat /\ q \in Nat
      OBVIOUS
    <3> HIDE DEF p, q
    <3> QED BY <2>1, <2>2, <2>3, <3>1
  <2> HIDE DEF p, q, m, k
  <2>5. k = m - p + q
    BY <2>4
  <2> QED BY <2>4, <2>5 DEF p, q, m, k
<1> QED BY <1>1, <1>2, <1>3, <1>4 DEF Moved

\* A step that counts nothing and stays where it is.
LEMMA NothingCounted ==
    ASSUME UploadIInv, NEW w \in Workers, \A v \in Workers \ {w} : job'[v] = job[v],
           Place(w)' = Place(w),
           metrics'.uploads = metrics.uploads, metrics'.band = metrics.band,
           audit'["UPLOAD_DONE"] = audit["UPLOAD_DONE"],
           audit'["REGISTER"] = audit["REGISTER"]
    PROVE  CountsAgreeWithTheAudit'
<1>1. UB' = UB /\ RB' = RB /\ RC' = RC /\ UL' = UL
  <2> DEFINE p == Place(w)
             q == Place(w)'
  <2>1. Moved(p, q)
    BY PlacesMove
  <2>2. p = q
    OBVIOUS
  <2> HIDE DEF p, q
  <2> QED BY <2>1, <2>2 DEF Moved
<1> QED BY <1>1 DEF UploadIInv, CountsAgreeWithTheAudit, UB, RB, RC, UL

\* What a step of one handler has to show.
LEMMA OneMoves ==
    ASSUME UploadIInv, NEW w \in Workers, UploadTypeOK',
           \A v \in Workers \ {w} : job'[v] = job[v],
           stored \subseteq stored', ledger \subseteq ledger', delivered \subseteq delivered',
           mode' = mode,
           UploadGood(w)', RegistrationGood(w)',
           \A a \in answers' \ answers : AnswerGood(a)',
           CountsAgreeWithTheAudit'
    PROVE  UploadIInv'
<1>1. ASSUME NEW v \in Workers PROVE UploadGood(v)' /\ RegistrationGood(v)'
  <2>1. CASE v = w
    BY <2>1
  <2>2. CASE v # w
    <3>1. job'[v] = job[v] /\ UploadGood(v) /\ RegistrationGood(v)
      BY <2>2 DEF UploadIInv
    <3>2. UploadGood(v)'
      BY <3>1 DEF UploadGood
    <3>3. RegistrationGood(v)'
      BY <3>1 DEF RegistrationGood
    <3> QED BY <3>2, <3>3
  <2> QED BY <2>1, <2>2
<1>2. ASSUME NEW a \in answers' PROVE AnswerGood(a)'
  <2>1. CASE a \in answers
    <3>1. AnswerGood(a)
      BY <2>1 DEF UploadIInv
    <3> QED BY <3>1 DEF AnswerGood
  <2> QED BY <2>1
<1> QED BY <1>1, <1>2 DEF UploadIInv

-----------------------------------------------------------------------------
(* What a handler serves *)

Jobs == {Idle} \cup Upload \cup Registration

LEMMA WhichJob ==
    ASSUME UploadTypeOK, NEW w \in Workers
    PROVE  /\ job[w] = Idle \/ job[w] \in Upload \/ job[w] \in Registration
           /\ job[w].pc \in {"exists", "wiki", "btfs", "bttc", "ddex", "mirrors", "latency",
                             "done"} => job[w] \in Upload
           /\ job[w].pc \in {"look", "permit", "deliver", "register", "answer"} =>
                 job[w] \in Registration
           /\ job[w].pc \in {"count", "band"} => job[w] \in Upload \cup Registration
<1>1. job[w] = Idle \/ job[w] \in Upload \/ job[w] \in Registration
  BY DEF UploadTypeOK
<1>2. CASE job[w] = Idle
  BY <1>2 DEF Idle
<1>3. CASE job[w] \in Upload
  <2>1. job[w].pc \in UploadSteps
    BY <1>3 DEF Upload
  <2> QED BY <1>3, <2>1 DEF UploadSteps
<1>4. CASE job[w] \in Registration
  <2>1. job[w].pc \in RegistrationSteps
    BY <1>4 DEF Registration
  <2> QED BY <1>4, <2>1 DEF RegistrationSteps
<1> QED BY <1>1, <1>2, <1>3, <1>4

LEMMA UploadStep ==
    ASSUME UploadTypeOK, NEW w \in Workers, job[w] \in Upload, NEW pc \in UploadSteps,
           Step(w, pc)
    PROVE  /\ job' \in [Workers -> Jobs]
           /\ job'[w] \in Upload
           /\ job'[w] = [job[w] EXCEPT !.pc = pc]
           /\ job'[w].pc = pc /\ job'[w].what = "upload"
           /\ job'[w].isrc = job[w].isrc /\ job'[w].file = job[w].file
           /\ job'[w].band = job[w].band
           /\ \A v \in Workers \ {w} : job'[v] = job[v]
<1>1. [job[w] EXCEPT !.pc = pc] \in Upload
  BY DEF Upload
<1>2. job \in [Workers -> Jobs] /\ job' = [job EXCEPT ![w] = [@ EXCEPT !.pc = pc]]
  BY DEF Step, UploadTypeOK, Jobs
<1>3. /\ job' \in [Workers -> Jobs] /\ job'[w] = [job[w] EXCEPT !.pc = pc]
      /\ \A v \in Workers \ {w} : job'[v] = job[v]
  BY <1>1, <1>2 DEF Jobs
<1> QED BY <1>1, <1>3 DEF Upload

LEMMA RegistrationStep ==
    ASSUME UploadTypeOK, NEW w \in Workers, job[w] \in Registration,
           NEW pc \in RegistrationSteps, Step(w, pc)
    PROVE  /\ job' \in [Workers -> Jobs]
           /\ job'[w] \in Registration
           /\ job'[w] = [job[w] EXCEPT !.pc = pc]
           /\ job'[w].pc = pc /\ job'[w].what = "register"
           /\ job'[w].parties = job[w].parties /\ job'[w].seen = job[w].seen
           /\ job'[w].cleared = job[w].cleared
           /\ \A v \in Workers \ {w} : job'[v] = job[v]
<1>1. [job[w] EXCEPT !.pc = pc] \in Registration
  BY DEF Registration
<1>2. job \in [Workers -> Jobs] /\ job' = [job EXCEPT ![w] = [@ EXCEPT !.pc = pc]]
  BY DEF Step, UploadTypeOK, Jobs
<1>3. /\ job' \in [Workers -> Jobs] /\ job'[w] = [job[w] EXCEPT !.pc = pc]
      /\ \A v \in Workers \ {w} : job'[v] = job[v]
  BY <1>1, <1>2 DEF Jobs
<1> QED BY <1>1, <1>3 DEF Registration

LEMMA JobReplaced ==
    ASSUME UploadTypeOK, NEW w \in Workers, NEW j \in Jobs,
           job' = [job EXCEPT ![w] = j]
    PROVE  /\ job' \in [Workers -> Jobs] /\ job'[w] = j
           /\ \A v \in Workers \ {w} : job'[v] = job[v]
BY DEF UploadTypeOK, Jobs

\* The types of what a handler's step may change.
LEMMA TypesKept ==
    ASSUME UploadTypeOK, UNCHANGED <<userVars, mode>>, job' \in [Workers -> Jobs],
           stored' \subseteq Isrcs \X Files, ledger' \subseteq Isrcs,
           flagged' \subseteq Isrcs, audit' \in [AuditKinds -> Nat],
           metrics' \in [uploads : Nat, defects : Nat, band : [Bands -> Nat]],
           requests' \in Nat
    PROVE  UploadTypeOK'
BY DEF UploadTypeOK, UserTypeOK, userVars, Jobs

LEMMA LoggedType ==
    ASSUME UploadTypeOK, NEW kind \in AuditKinds
    PROVE  /\ Logged(kind) \in [AuditKinds -> Nat]
           /\ Logged(kind)[kind] = audit[kind] + 1
           /\ \A k \in AuditKinds \ {kind} : Logged(kind)[k] = audit[k]
BY DEF UploadTypeOK, Logged

LEMMA DefectsType ==
    ASSUME UploadTypeOK, NEW n \in Nat
    PROVE  /\ WithDefects(n) \in [uploads : Nat, defects : Nat, band : [Bands -> Nat]]
           /\ WithDefects(n).uploads = metrics.uploads
           /\ WithDefects(n).band = metrics.band
BY DEF UploadTypeOK, WithDefects

\* An upload goes on to its next step.
LEMMA UploadGoesOn ==
    ASSUME UploadIInv, NEW w \in Workers, job[w] \in Upload, NEW pc \in UploadSteps,
           Step(w, pc), UNCHANGED <<userVars, mode, answers, requests>>,
           stored \subseteq stored', stored' \subseteq Isrcs \X Files,
           ledger \subseteq ledger', ledger' \subseteq Isrcs,
           delivered \subseteq delivered', flagged' \subseteq Isrcs,
           audit' \in [AuditKinds -> Nat],
           metrics' \in [uploads : Nat, defects : Nat, band : [Bands -> Nat]],
           CountsAgreeWithTheAudit',
           pc \in AfterStore => <<job[w].isrc, job[w].file>> \in stored',
           pc \in AfterChain => mode.bttc_dev \/ job[w].isrc \in ledger',
           pc \in AfterDelivery =>
              mode.ddex_dev \/ [isrc |-> job[w].isrc, band |-> job[w].band,
                                contributors |-> {}] \in delivered'
    PROVE  UploadIInv'
<1>1. /\ job' \in [Workers -> Jobs]
      /\ job'[w] \in Upload /\ job'[w].pc = pc /\ job'[w].what = "upload"
      /\ job'[w].isrc = job[w].isrc /\ job'[w].file = job[w].file
      /\ job'[w].band = job[w].band
      /\ \A v \in Workers \ {w} : job'[v] = job[v]
  BY UploadStep DEF UploadIInv
<1>2. UploadTypeOK'
  <2>1. requests' \in Nat
    BY DEF UploadIInv, UploadTypeOK
  <2> QED BY <1>1, <2>1, TypesKept DEF UploadIInv
<1>3. UploadGood(w)'
  BY <1>1 DEF UploadGood
<1>4. RegistrationGood(w)'
  BY <1>1 DEF RegistrationGood, Registration
<1> QED BY <1>1, <1>2, <1>3, <1>4, OneMoves

\* A request is over.
LEMMA RequestEnds ==
    ASSUME UploadIInv, NEW w \in Workers, job' = [job EXCEPT ![w] = Idle],
           UNCHANGED <<userVars, mode, requests, flagged>>,
           stored \subseteq stored', stored' \subseteq Isrcs \X Files,
           ledger \subseteq ledger', ledger' \subseteq Isrcs,
           delivered \subseteq delivered',
           audit' \in [AuditKinds -> Nat],
           metrics' \in [uploads : Nat, defects : Nat, band : [Bands -> Nat]],
           CountsAgreeWithTheAudit',
           \A a \in answers' \ answers : AnswerGood(a)'
    PROVE  UploadIInv'
<1>1. /\ job' \in [Workers -> Jobs] /\ job'[w] = Idle
      /\ \A v \in Workers \ {w} : job'[v] = job[v]
  BY JobReplaced DEF UploadIInv, Jobs
<1>2. UploadTypeOK'
  <2>1. requests' \in Nat /\ flagged' \subseteq Isrcs
    BY DEF UploadIInv, UploadTypeOK
  <2> QED BY <1>1, <2>1, TypesKept DEF UploadIInv
<1>3. Idle \notin Upload /\ Idle \notin Registration
  BY DEF Idle, Upload, Registration, UploadSteps, RegistrationSteps
<1>4. UploadGood(w)' /\ RegistrationGood(w)'
  BY <1>1, <1>3 DEF UploadGood, RegistrationGood
<1> QED BY <1>1, <1>2, <1>4, OneMoves

\* A registration goes on.
LEMMA RegistrationGoesOn ==
    ASSUME UploadIInv, NEW w \in Workers,
           job' \in [Workers -> Jobs], job'[w] \in Registration,
           \A v \in Workers \ {w} : job'[v] = job[v],
           UNCHANGED <<userVars, mode, stored, ledger, flagged, answers>>,
           requests' \in Nat, delivered \subseteq delivered',
           audit' \in [AuditKinds -> Nat],
           metrics' \in [uploads : Nat, defects : Nat, band : [Bands -> Nat]],
           CountsAgreeWithTheAudit',
           RegistrationGood(w)'
    PROVE  UploadIInv'
<1>1. UploadTypeOK'
  <2>1. stored' \subseteq Isrcs \X Files /\ ledger' \subseteq Isrcs /\ flagged' \subseteq Isrcs
    BY DEF UploadIInv, UploadTypeOK
  <2> QED BY <2>1, TypesKept DEF UploadIInv
<1>2. UploadGood(w)'
  BY DEF UploadGood, Upload, Registration
<1> QED BY <1>1, <1>2, OneMoves

-----------------------------------------------------------------------------
(* The steps of an upload *)

LEMMA TypesOf ==
    ASSUME UploadIInv
    PROVE  /\ UploadTypeOK /\ mode \in Modes
           /\ stored \subseteq Isrcs \X Files /\ ledger \subseteq Isrcs /\ flagged \subseteq Isrcs
           /\ audit \in [AuditKinds -> Nat]
           /\ metrics \in [uploads : Nat, defects : Nat, band : [Bands -> Nat]]
           /\ requests \in Nat
BY DEF UploadIInv, UploadTypeOK

LEMMA UploadPlaces ==
    ASSUME NEW w, job[w] \in Upload
    PROVE  Place(w) = IF job[w].pc = "band" THEN "upload, band"
                      ELSE IF job[w].pc \in {"latency", "done"} THEN "upload, end"
                      ELSE "elsewhere"
<1>1. job[w] # Idle /\ job[w].what = "upload"
  BY DEF Upload, Idle, UploadSteps
<1> QED BY <1>1 DEF Place

LEMMA NextUploadPlaces ==
    ASSUME NEW w, job'[w] \in Upload
    PROVE  Place(w)' = IF job'[w].pc = "band" THEN "upload, band"
                       ELSE IF job'[w].pc \in {"latency", "done"} THEN "upload, end"
                       ELSE "elsewhere"
<1>1. job'[w] # Idle /\ job'[w].what = "upload"
  BY DEF Upload, Idle, UploadSteps
<1> QED BY <1>1 DEF Place

\* A step of an upload before it is counted.
LEMMA Uncounted ==
    ASSUME UploadIInv, NEW w \in Workers, job[w] \in Upload, NEW pc \in UploadSteps,
           Step(w, pc), job[w].pc \notin {"band", "latency", "done"},
           pc \notin {"band", "latency", "done"},
           metrics' = metrics,
           audit'["UPLOAD_DONE"] = audit["UPLOAD_DONE"],
           audit'["REGISTER"] = audit["REGISTER"]
    PROVE  CountsAgreeWithTheAudit'
<1>1. /\ job'[w] \in Upload /\ job'[w].pc = pc
      /\ \A v \in Workers \ {w} : job'[v] = job[v]
  BY UploadStep DEF UploadIInv
<1>2. Place(w) = "elsewhere" /\ Place(w)' = "elsewhere"
  BY <1>1, UploadPlaces, NextUploadPlaces
<1> QED BY <1>1, <1>2, NothingCounted

LEMMA ArticleKeeps ==
    ASSUME UploadIInv, NEW w \in Workers, NEW b \in BOOLEAN, ArticleSeventeen(w, b)
    PROVE  UploadIInv'
<1>1. job[w] \in Upload /\ job[w].pc = "exists" /\ Step(w, "wiki") /\ "wiki" \in UploadSteps
  BY TypesOf, WhichJob DEF ArticleSeventeen, UploadSteps
<1>2. UNCHANGED <<userVars, mode, stored, ledger, delivered, audit, metrics, answers, requests>>
  BY DEF ArticleSeventeen
<1>3. CountsAgreeWithTheAudit'
  BY <1>1, <1>2, Uncounted
<1>4. flagged' \subseteq Isrcs
  BY <1>1, TypesOf DEF ArticleSeventeen, Upload
<1>5. "wiki" \notin AfterStore /\ "wiki" \notin AfterChain /\ "wiki" \notin AfterDelivery
  BY DEF AfterStore, AfterChain, AfterDelivery
<1> QED BY <1>1, <1>2, <1>3, <1>4, <1>5, TypesOf, UploadGoesOn

LEMMA EnrichKeeps ==
    ASSUME UploadIInv, NEW w \in Workers, NEW b \in BOOLEAN, Enrich(w, b)
    PROVE  UploadIInv'
<1>1. job[w] \in Upload /\ job[w].pc = "wiki" /\ Step(w, "btfs") /\ "btfs" \in UploadSteps
  BY TypesOf, WhichJob DEF Enrich, UploadSteps
<1>2. UNCHANGED <<userVars, mode, stored, ledger, delivered, flagged, metrics, answers, requests>>
  BY DEF Enrich
<1>3. /\ audit' \in [AuditKinds -> Nat]
      /\ audit'["UPLOAD_DONE"] = audit["UPLOAD_DONE"] /\ audit'["REGISTER"] = audit["REGISTER"]
  <2>1. "WIKIDATA_ENRICH" \in AuditKinds /\ "UPLOAD_DONE" \in AuditKinds \ {"WIKIDATA_ENRICH"}
        /\ "REGISTER" \in AuditKinds \ {"WIKIDATA_ENRICH"}
    BY DEF AuditKinds
  <2>2. audit' = Logged("WIKIDATA_ENRICH") \/ audit' = audit
    BY DEF Enrich
  <2> QED BY <2>1, <2>2, TypesOf, LoggedType
<1>4. CountsAgreeWithTheAudit'
  BY <1>1, <1>2, <1>3, Uncounted
<1>5. "btfs" \notin AfterStore /\ "btfs" \notin AfterChain /\ "btfs" \notin AfterDelivery
  BY DEF AfterStore, AfterChain, AfterDelivery
<1> QED BY <1>1, <1>2, <1>3, <1>4, <1>5, TypesOf, UploadGoesOn

\* A 502 before anything is counted.
LEMMA FailKeeps ==
    ASSUME UploadIInv, NEW w \in Workers, NEW fault, FailUpload(w, fault),
           job[w] \in Upload, job[w].pc \notin {"band", "latency", "done"},
           stored \subseteq stored', stored' \subseteq Isrcs \X Files,
           ledger \subseteq ledger', ledger' \subseteq Isrcs, delivered \subseteq delivered'
    PROVE  UploadIInv'
<1> DEFINE a == [what |-> "upload", status |-> 502, isrc |-> job[w].isrc,
                 file |-> job[w].file, fault |-> fault]
<1>1. /\ answers' = answers \cup {a} /\ job' = [job EXCEPT ![w] = Idle]
      /\ UNCHANGED <<userVars, mode, flagged, audit, metrics, requests>>
  BY DEF FailUpload, Answered
<1>2. a.what = "upload" /\ a.status = 502
  OBVIOUS
<1>3. ASSUME NEW x \in answers' \ answers PROVE AnswerGood(x)'
  <2>1. x.what = "upload" /\ x.status = 502
    BY <1>1, <1>2
  <2> QED BY <2>1 DEF AnswerGood
<1>4. job'[w] = Idle /\ \A v \in Workers \ {w} : job'[v] = job[v]
  BY <1>1, TypesOf, JobReplaced DEF Jobs
<1>5. Place(w) = "elsewhere" /\ Place(w)' = "elsewhere"
  BY <1>4, UploadPlaces DEF Place
<1>6. CountsAgreeWithTheAudit'
  BY <1>1, <1>4, <1>5, NothingCounted
<1> HIDE DEF a
<1> QED BY <1>1, <1>3, <1>6, TypesOf, RequestEnds

LEMMA StoreFileKeeps ==
    ASSUME UploadIInv, NEW w \in Workers, StoreFile(w)
    PROVE  UploadIInv'
<1> DEFINE new == <<job[w].isrc, job[w].file>>
<1>1. job[w] \in Upload /\ job[w].pc = "btfs" /\ "bttc" \in UploadSteps
  BY TypesOf, WhichJob DEF StoreFile, UploadSteps
<1>2. stored \subseteq Isrcs \X Files /\ stored \cup {new} \subseteq Isrcs \X Files
      /\ UNCHANGED <<ledger, delivered>> /\ ledger \subseteq Isrcs
  BY <1>1, TypesOf DEF StoreFile, Upload
<1>3. CASE /\ stored' = stored \cup {new} /\ Step(w, "bttc")
           /\ UNCHANGED <<userVars, mode, flagged, audit, metrics, answers, requests>>
  <2>1. CountsAgreeWithTheAudit'
    BY <1>1, <1>3, Uncounted
  <2>2. "bttc" \notin AfterChain /\ "bttc" \notin AfterDelivery
    BY DEF AfterChain, AfterDelivery
  <2>3. new \in stored' /\ stored \subseteq stored' /\ stored' \subseteq Isrcs \X Files
    BY <1>2, <1>3
  <2> HIDE DEF new
  <2>4. flagged' \subseteq Isrcs /\ audit' \in [AuditKinds -> Nat]
        /\ metrics' \in [uploads : Nat, defects : Nat, band : [Bands -> Nat]]
    BY <1>3, TypesOf
  <2>5. <<job[w].isrc, job[w].file>> \in stored'
    BY <2>3 DEF new
  <2> QED BY <1>1, <1>2, <1>3, <2>1, <2>2, <2>3, <2>4, <2>5, UploadGoesOn
<1>4. CASE stored' \in {stored, stored \cup {new}} /\ FailUpload(w, TRUE)
  <2>1. stored \subseteq stored' /\ stored' \subseteq Isrcs \X Files
    BY <1>2, <1>4
  <2> HIDE DEF new
  <2> QED BY <1>1, <1>2, <1>4, <2>1, FailKeeps
<1> QED BY <1>3, <1>4 DEF StoreFile

LEMMA SubmitKeeps ==
    ASSUME UploadIInv, NEW w \in Workers, NEW confirmed \in BOOLEAN,
           SubmitDistribution(w, confirmed)
    PROVE  UploadIInv'
<1> DEFINE passes == SplitsAccepted(UploadSplits)
<1> HIDE DEF passes
<1>1. job[w] \in Upload /\ job[w].pc = "bttc" /\ "ddex" \in UploadSteps
  BY TypesOf, WhichJob DEF SubmitDistribution, UploadSteps
<1>2. /\ UNCHANGED <<stored, delivered>>
      /\ ledger' = IF ~mode.bttc_dev /\ passes THEN ledger \cup {job[w].isrc} ELSE ledger
  BY DEF SubmitDistribution, passes
<1>3. ledger \subseteq ledger' /\ ledger' \subseteq Isrcs /\ stored' \subseteq Isrcs \X Files
  BY <1>1, <1>2, TypesOf DEF Upload
<1>4. CASE mode.bttc_dev \/ (passes /\ confirmed)
  <2>1. /\ Step(w, "ddex")
        /\ UNCHANGED <<userVars, mode, flagged, audit, metrics, answers, requests>>
    BY <1>4 DEF SubmitDistribution, passes
  <2>2. CountsAgreeWithTheAudit'
    BY <1>1, <2>1, Uncounted
  <2>3. "ddex" \notin AfterDelivery
    BY DEF AfterDelivery
  <2>4. mode.bttc_dev \/ job[w].isrc \in ledger'
    BY <1>2, <1>4
  <2>5. <<job[w].isrc, job[w].file>> \in stored'
    BY <1>1, <1>2 DEF UploadIInv, UploadGood, AfterStore
  <2>6. flagged' \subseteq Isrcs /\ audit' \in [AuditKinds -> Nat]
        /\ metrics' \in [uploads : Nat, defects : Nat, band : [Bands -> Nat]]
    BY <2>1, TypesOf
  <2> QED BY <1>1, <1>2, <1>3, <2>1, <2>2, <2>3, <2>4, <2>5, <2>6, UploadGoesOn
<1>5. CASE ~(mode.bttc_dev \/ (passes /\ confirmed))
  <2>1. FailUpload(w, passes)
    BY <1>5 DEF SubmitDistribution, passes
  <2> QED BY <1>1, <1>2, <1>3, <2>1, FailKeeps
<1> QED BY <1>4, <1>5

LEMMA DdexKeeps ==
    ASSUME UploadIInv, NEW w \in Workers, DdexRegister(w)
    PROVE  UploadIInv'
<1>1. job[w] \in Upload /\ job[w].pc = "ddex" /\ "mirrors" \in UploadSteps
  BY TypesOf, WhichJob DEF DdexRegister, UploadSteps
<1>2. /\ UNCHANGED <<userVars, mode, stored, ledger, flagged, audit, metrics, requests>>
      /\ stored' \subseteq Isrcs \X Files /\ ledger' \subseteq Isrcs /\ flagged' \subseteq Isrcs
      /\ audit' \in [AuditKinds -> Nat]
      /\ metrics' \in [uploads : Nat, defects : Nat, band : [Bands -> Nat]]
  BY TypesOf DEF DdexRegister
<1>3. CASE /\ delivered' = IF mode.ddex_dev THEN delivered ELSE delivered \cup {Message(w, {})}
           /\ Step(w, "mirrors") /\ UNCHANGED answers
  <2>1. CountsAgreeWithTheAudit'
    BY <1>1, <1>2, <1>3, Uncounted
  <2>2. /\ <<job[w].isrc, job[w].file>> \in stored'
        /\ mode.bttc_dev \/ job[w].isrc \in ledger'
    BY <1>1, <1>2 DEF UploadIInv, UploadGood, AfterStore, AfterChain
  <2>3. /\ delivered \subseteq delivered'
        /\ mode.ddex_dev \/ [isrc |-> job[w].isrc, band |-> job[w].band,
                              contributors |-> {}] \in delivered'
    BY <1>3 DEF Message
  <2> QED BY <1>1, <1>2, <1>3, <2>1, <2>2, <2>3, UploadGoesOn
<1>4. CASE /\ job' = [job EXCEPT ![w] = DeliveryFails(w)]
           /\ answers' = answers \cup {[what |-> "upload", status |-> 502, isrc |-> job[w].isrc,
                                       file |-> job[w].file, fault |-> TRUE]}
           /\ UNCHANGED delivered
  <2>1. FailUpload(w, TRUE)
    BY <1>2, <1>4 DEF FailUpload, Answered, DeliveryFails
  <2> QED BY <1>1, <1>2, <1>4, <2>1, FailKeeps
<1> QED BY <1>3, <1>4 DEF DdexRegister

LEMMA MirrorsKeep ==
    ASSUME UploadIInv, NEW w \in Workers, PushMirrors(w)
    PROVE  UploadIInv'
<1>1. job[w] \in Upload /\ job[w].pc = "mirrors" /\ "count" \in UploadSteps /\ Step(w, "count")
  BY TypesOf, WhichJob DEF PushMirrors, UploadSteps
<1>2. UNCHANGED <<userVars, mode, stored, ledger, delivered, flagged, audit, metrics, answers,
                  requests>>
  BY DEF PushMirrors
<1>3. CountsAgreeWithTheAudit'
  BY <1>1, <1>2, Uncounted
<1>4. /\ <<job[w].isrc, job[w].file>> \in stored'
      /\ mode.bttc_dev \/ job[w].isrc \in ledger'
      /\ mode.ddex_dev \/ [isrc |-> job[w].isrc, band |-> job[w].band, contributors |-> {}]
                              \in delivered'
  BY <1>1, <1>2 DEF UploadIInv, UploadGood, AfterStore, AfterChain, AfterDelivery
<1> QED BY <1>1, <1>2, <1>3, <1>4, TypesOf, UploadGoesOn

LEMMA LatencyKeeps ==
    ASSUME UploadIInv, NEW w \in Workers, NEW slow \in BOOLEAN, RecordLatency(w, slow)
    PROVE  UploadIInv'
<1>1. job[w] \in Upload /\ job[w].pc = "latency" /\ "done" \in UploadSteps /\ Step(w, "done")
  BY TypesOf, WhichJob DEF RecordLatency, UploadSteps
<1>2. UNCHANGED <<userVars, mode, stored, ledger, delivered, flagged, audit, answers, requests>>
  BY DEF RecordLatency
<1>3. /\ metrics' \in [uploads : Nat, defects : Nat, band : [Bands -> Nat]]
      /\ metrics'.uploads = metrics.uploads /\ metrics'.band = metrics.band
  <2>1. \A n \in Nat : /\ WithDefects(n) \in [uploads : Nat, defects : Nat, band : [Bands -> Nat]]
                       /\ WithDefects(n).uploads = metrics.uploads
                       /\ WithDefects(n).band = metrics.band
    BY TypesOf, DefectsType
  <2> QED BY <2>1 DEF RecordLatency
<1>4. /\ job'[w] \in Upload /\ job'[w].pc = "done"
      /\ \A v \in Workers \ {w} : job'[v] = job[v]
  BY <1>1, TypesOf, UploadStep
<1>5. Place(w) = "upload, end" /\ Place(w)' = "upload, end"
  BY <1>1, <1>4, UploadPlaces, NextUploadPlaces
<1>6. CountsAgreeWithTheAudit'
  BY <1>2, <1>3, <1>4, <1>5, NothingCounted
<1>7. /\ <<job[w].isrc, job[w].file>> \in stored'
      /\ mode.bttc_dev \/ job[w].isrc \in ledger'
      /\ mode.ddex_dev \/ [isrc |-> job[w].isrc, band |-> job[w].band, contributors |-> {}]
                              \in delivered'
  BY <1>1, <1>2 DEF UploadIInv, UploadGood, AfterStore, AfterChain, AfterDelivery
<1> QED BY <1>1, <1>2, <1>3, <1>6, <1>7, TypesOf, UploadGoesOn

LEMMA FinishKeeps ==
    ASSUME UploadIInv, NEW w \in Workers, FinishUpload(w)
    PROVE  UploadIInv'
<1> DEFINE a == [what |-> "upload", status |-> 200, isrc |-> job[w].isrc,
                 file |-> job[w].file, band |-> job[w].band,
                 dsp_ready |-> DspReady(job[w].file)]
<1>1. job[w] \in Upload /\ job[w].pc = "done"
  BY TypesOf, WhichJob DEF FinishUpload
<1>2. /\ audit' = Logged("UPLOAD_DONE") /\ answers' = answers \cup {a}
      /\ job' = [job EXCEPT ![w] = Idle]
      /\ UNCHANGED <<userVars, mode, stored, ledger, delivered, flagged, metrics, requests>>
  BY DEF FinishUpload, Answered
<1>3. /\ <<job[w].isrc, job[w].file>> \in stored
      /\ mode.bttc_dev \/ job[w].isrc \in ledger
      /\ mode.ddex_dev \/ [isrc |-> job[w].isrc, band |-> job[w].band, contributors |-> {}]
                              \in delivered
  BY <1>1 DEF UploadIInv, UploadGood, AfterStore, AfterChain, AfterDelivery
<1>4. ASSUME NEW x \in answers' \ answers PROVE AnswerGood(x)'
  <2>1. /\ x.what = "upload" /\ x.isrc = job[w].isrc /\ x.file = job[w].file
        /\ x.band = job[w].band
    BY <1>2
  <2> QED BY <1>2, <1>3, <2>1 DEF AnswerGood
<1> HIDE DEF a
<1>5. /\ audit' \in [AuditKinds -> Nat] /\ audit'["UPLOAD_DONE"] = audit["UPLOAD_DONE"] + 1
      /\ audit'["REGISTER"] = audit["REGISTER"]
  <2>1. "UPLOAD_DONE" \in AuditKinds /\ "REGISTER" \in AuditKinds \ {"UPLOAD_DONE"}
    BY DEF AuditKinds
  <2> QED BY <1>2, <2>1, TypesOf, LoggedType
<1>6. job'[w] = Idle /\ \A v \in Workers \ {w} : job'[v] = job[v]
  BY <1>2, TypesOf, JobReplaced DEF Jobs
<1>7. Place(w) = "upload, end" /\ Place(w)' = "elsewhere"
  BY <1>1, <1>6, UploadPlaces DEF Place
<1>8. CountsAgreeWithTheAudit'
  <2>1. /\ UB \in Nat /\ UB' = UB /\ RB \in Nat /\ RB' = RB
        /\ RC \in Nat /\ RC' = RC /\ UL \in Nat /\ UL' = UL - 1
    <3>1. Moved(Place(w), Place(w)')
      BY <1>6, PlacesMove
    <3>2. Moved("upload, end", "elsewhere")
      BY <1>7, <3>1
    <3> QED BY <3>2 DEF Moved
  <2>2. /\ metrics.uploads = Fns!SumFunction(metrics.band) + UB + RB
        /\ metrics.uploads + RC = audit["UPLOAD_DONE"] + audit["REGISTER"] + UL
    BY DEF UploadIInv, CountsAgreeWithTheAudit, UB, RB, RC, UL
  <2>3. audit["UPLOAD_DONE"] \in Nat /\ audit["REGISTER"] \in Nat
    BY TypesOf DEF AuditKinds
  <2>4. /\ metrics'.uploads = Fns!SumFunction(metrics'.band) + UB' + RB'
        /\ metrics'.uploads + RC' = audit'["UPLOAD_DONE"] + audit'["REGISTER"] + UL'
    BY <1>2, <1>5, <2>1, <2>2, <2>3
  <2> QED BY <2>4 DEF CountsAgreeWithTheAudit, UB, RB, RC, UL
<1> QED BY <1>2, <1>4, <1>5, <1>8, TypesOf, RequestEnds

\* The counts before and after a step.
LEMMA CountsNow ==
    ASSUME UploadIInv
    PROVE  /\ metrics.uploads \in Nat /\ metrics.band \in [Bands -> Nat]
           /\ Fns!SumFunction(metrics.band) \in Nat
           /\ audit["UPLOAD_DONE"] \in Nat /\ audit["REGISTER"] \in Nat
           /\ metrics.uploads = Fns!SumFunction(metrics.band) + UB + RB
           /\ metrics.uploads + RC = audit["UPLOAD_DONE"] + audit["REGISTER"] + UL
<1>1. metrics.uploads \in Nat /\ metrics.band \in [Bands -> Nat]
  BY TypesOf
<1>2. Fns!SumFunction(metrics.band) \in Nat
  BY <1>1, BandSumIsNat
<1>3. audit["UPLOAD_DONE"] \in Nat /\ audit["REGISTER"] \in Nat
  BY TypesOf DEF AuditKinds
<1>4. /\ metrics.uploads = Fns!SumFunction(metrics.band) + UB + RB
      /\ metrics.uploads + RC = audit["UPLOAD_DONE"] + audit["REGISTER"] + UL
  BY DEF UploadIInv, CountsAgreeWithTheAudit, UB, RB, RC, UL
<1> QED BY <1>1, <1>2, <1>3, <1>4

LEMMA CountsNext ==
    ASSUME metrics'.uploads = Fns!SumFunction(metrics'.band) + UB' + RB',
           metrics'.uploads + RC' = audit'["UPLOAD_DONE"] + audit'["REGISTER"] + UL'
    PROVE  CountsAgreeWithTheAudit'
BY DEF CountsAgreeWithTheAudit, UB, RB, RC, UL

LEMMA RegistrationPlaces ==
    ASSUME NEW w, job[w] \in Registration
    PROVE  Place(w) = IF job[w].pc = "band" THEN "register, band"
                      ELSE IF job[w].pc = "count" THEN "register, count"
                      ELSE "elsewhere"
<1>1. job[w] # Idle /\ job[w].what = "register"
  BY DEF Registration, Idle, RegistrationSteps
<1> QED BY <1>1 DEF Place

LEMMA NextRegistrationPlaces ==
    ASSUME NEW w, job'[w] \in Registration
    PROVE  Place(w)' = IF job'[w].pc = "band" THEN "register, band"
                       ELSE IF job'[w].pc = "count" THEN "register, count"
                       ELSE "elsewhere"
<1>1. job'[w] # Idle /\ job'[w].what = "register"
  BY DEF Registration, Idle, RegistrationSteps
<1> QED BY <1>1 DEF Place

\* The total is counted.
LEMMA CountUploadKeeps ==
    ASSUME UploadIInv, NEW w \in Workers, CountUpload(w)
    PROVE  UploadIInv'
<1>1. /\ job[w].pc = "count" /\ Step(w, "band") /\ "band" \in UploadSteps
      /\ "band" \in RegistrationSteps
      /\ UNCHANGED <<userVars, mode, stored, ledger, delivered, flagged, audit, answers, requests>>
  BY DEF CountUpload, UploadSteps, RegistrationSteps
<1>2. /\ metrics' \in [uploads : Nat, defects : Nat, band : [Bands -> Nat]]
      /\ metrics'.uploads = metrics.uploads + 1 /\ metrics'.band = metrics.band
  BY TypesOf DEF CountUpload, Counted
<1>3. CASE job[w] \in Upload
  <2>1. /\ job'[w] \in Upload /\ job'[w].pc = "band"
        /\ \A v \in Workers \ {w} : job'[v] = job[v]
    BY <1>1, <1>3, TypesOf, UploadStep
  <2>2. Place(w) = "elsewhere" /\ Place(w)' = "upload, band"
    BY <1>1, <1>3, <2>1, UploadPlaces, NextUploadPlaces
  <2>3. Moved(Place(w), Place(w)')
    BY <2>1, PlacesMove
  <2>4. Moved("elsewhere", "upload, band")
    BY <2>2, <2>3
  <2>5. /\ UB' = UB + 1 /\ RB' = RB /\ RC' = RC /\ UL' = UL + 1
        /\ UB \in Nat /\ RB \in Nat /\ RC \in Nat /\ UL \in Nat
    BY <2>4 DEF Moved
  <2>6. CountsAgreeWithTheAudit'
    <3>1. Fns!SumFunction(metrics'.band) = Fns!SumFunction(metrics.band)
      BY <1>2
    <3>2. metrics'.uploads = Fns!SumFunction(metrics'.band) + UB' + RB'
      BY <1>2, <2>5, <3>1, CountsNow
    <3>3. metrics'.uploads + RC' = audit'["UPLOAD_DONE"] + audit'["REGISTER"] + UL'
      BY <1>1, <1>2, <2>5, CountsNow
    <3> QED BY <3>2, <3>3, CountsNext
  <2>7. /\ <<job[w].isrc, job[w].file>> \in stored'
        /\ mode.bttc_dev \/ job[w].isrc \in ledger'
        /\ mode.ddex_dev \/ [isrc |-> job[w].isrc, band |-> job[w].band, contributors |-> {}]
                                \in delivered'
    BY <1>1, <1>3 DEF UploadIInv, UploadGood, AfterStore, AfterChain, AfterDelivery
  <2> QED BY <1>1, <1>2, <1>3, <2>6, <2>7, TypesOf, UploadGoesOn
<1>4. CASE job[w] \in Registration
  <2>1. /\ job' \in [Workers -> Jobs] /\ job'[w] \in Registration /\ job'[w].pc = "band"
        /\ job'[w].parties = job[w].parties /\ job'[w].seen = job[w].seen
        /\ job'[w].cleared = job[w].cleared
        /\ \A v \in Workers \ {w} : job'[v] = job[v]
    BY <1>1, <1>4, TypesOf, RegistrationStep
  <2>2. Place(w) = "register, count" /\ Place(w)' = "register, band"
    BY <1>1, <1>4, <2>1, RegistrationPlaces, NextRegistrationPlaces
  <2>3. Moved(Place(w), Place(w)')
    BY <2>1, PlacesMove
  <2>4. Moved("register, count", "register, band")
    BY <2>2, <2>3
  <2>5. /\ UB' = UB /\ RB' = RB + 1 /\ RC' = RC - 1 /\ UL' = UL
        /\ UB \in Nat /\ RB \in Nat /\ RC \in Nat /\ UL \in Nat
    BY <2>4 DEF Moved
  <2>6. CountsAgreeWithTheAudit'
    BY <1>1, <1>2, <2>5, CountsNow, CountsNext
  <2>7. RegistrationGood(w)'
    BY <1>1, <1>4, <2>1 DEF UploadIInv, RegistrationGood, Checked
  <2> QED BY <1>1, <1>2, <2>1, <2>6, <2>7, TypesOf, RegistrationGoesOn
<1> QED BY <1>1, <1>3, <1>4, TypesOf, WhichJob

\* The band is counted.
LEMMA CountBandKeeps ==
    ASSUME UploadIInv, NEW w \in Workers, CountBand(w)
    PROVE  UploadIInv'
<1> DEFINE b == job[w].band
<1>0. job[w] \in Upload \cup Registration /\ job[w].pc = "band"
  BY TypesOf, WhichJob DEF CountBand
<1>1. /\ UNCHANGED <<userVars, mode, stored, ledger, delivered, flagged, audit, answers, requests>>
      /\ Step(w, IF job[w].what = "upload" THEN "latency" ELSE "answer")
      /\ metrics' = [metrics EXCEPT !.band[b] = @ + 1]
  BY DEF CountBand
<1>2. b \in Bands
  BY <1>0 DEF Upload, Registration
<1>3. /\ metrics' \in [uploads : Nat, defects : Nat, band : [Bands -> Nat]]
      /\ metrics'.uploads = metrics.uploads
      /\ Fns!SumFunction(metrics'.band) = Fns!SumFunction(metrics.band) + 1
  <2> DEFINE f == metrics.band
             g == [f EXCEPT ![b] = @ + 1]
  <2>1. metrics \in [uploads : Nat, defects : Nat, band : [Bands -> Nat]] /\ f \in [Bands -> Nat]
    BY TypesOf
  <2>2. metrics' = [metrics EXCEPT !.band = g]
    BY <1>1, <2>1
  <2> HIDE DEF f
  <2>3. g \in [Bands -> Nat] /\ Fns!SumFunction(g) = Fns!SumFunction(f) + 1
    BY <1>2, <2>1, BandAdded
  <2> HIDE DEF g
  <2>4. metrics'.band = g /\ metrics'.uploads = metrics.uploads
        /\ metrics' \in [uploads : Nat, defects : Nat, band : [Bands -> Nat]]
    BY <2>1, <2>2, <2>3
  <2> QED BY <2>3, <2>4 DEF f
<1> HIDE DEF b
<1>4. CASE job[w] \in Upload
  <2>0. Step(w, "latency") /\ "latency" \in UploadSteps
    BY <1>1, <1>4 DEF Upload, UploadSteps
  <2>1. /\ job'[w] \in Upload /\ job'[w].pc = "latency"
        /\ \A v \in Workers \ {w} : job'[v] = job[v]
    BY <1>4, <2>0, TypesOf, UploadStep
  <2>2. Place(w) = "upload, band" /\ Place(w)' = "upload, end"
    BY <1>0, <1>4, <2>1, UploadPlaces, NextUploadPlaces
  <2>3. Moved(Place(w), Place(w)')
    BY <2>1, PlacesMove
  <2>4. Moved("upload, band", "upload, end")
    BY <2>2, <2>3
  <2>5. /\ UB' = UB - 1 /\ RB' = RB /\ RC' = RC /\ UL' = UL
        /\ UB \in Nat /\ RB \in Nat /\ RC \in Nat /\ UL \in Nat
    BY <2>4 DEF Moved
  <2>6. CountsAgreeWithTheAudit'
    BY <1>1, <1>3, <2>5, CountsNow, CountsNext
  <2>7. /\ <<job[w].isrc, job[w].file>> \in stored'
        /\ mode.bttc_dev \/ job[w].isrc \in ledger'
        /\ mode.ddex_dev \/ [isrc |-> job[w].isrc, band |-> job[w].band, contributors |-> {}]
                                \in delivered'
    BY <1>0, <1>1, <1>4 DEF UploadIInv, UploadGood, AfterStore, AfterChain, AfterDelivery
  <2> QED BY <1>1, <1>3, <1>4, <2>0, <2>6, <2>7, TypesOf, UploadGoesOn
<1>5. CASE job[w] \in Registration
  <2>0. Step(w, "answer") /\ "answer" \in RegistrationSteps
    BY <1>1, <1>5 DEF Registration, RegistrationSteps
  <2>1. /\ job' \in [Workers -> Jobs] /\ job'[w] \in Registration /\ job'[w].pc = "answer"
        /\ job'[w].parties = job[w].parties /\ job'[w].seen = job[w].seen
        /\ job'[w].cleared = job[w].cleared
        /\ \A v \in Workers \ {w} : job'[v] = job[v]
    BY <1>5, <2>0, TypesOf, RegistrationStep
  <2>2. Place(w) = "register, band" /\ Place(w)' = "elsewhere"
    BY <1>0, <1>5, <2>1, RegistrationPlaces, NextRegistrationPlaces
  <2>3. Moved(Place(w), Place(w)')
    BY <2>1, PlacesMove
  <2>4. Moved("register, band", "elsewhere")
    BY <2>2, <2>3
  <2>5. /\ UB' = UB /\ RB' = RB - 1 /\ RC' = RC /\ UL' = UL
        /\ UB \in Nat /\ RB \in Nat /\ RC \in Nat /\ UL \in Nat
    BY <2>4 DEF Moved
  <2>6. CountsAgreeWithTheAudit'
    BY <1>1, <1>3, <2>5, CountsNow, CountsNext
  <2>7. RegistrationGood(w)'
    BY <1>0, <1>5, <2>1 DEF UploadIInv, RegistrationGood, Checked
  <2> QED BY <1>1, <1>3, <2>1, <2>6, <2>7, TypesOf, RegistrationGoesOn
<1> QED BY <1>0, <1>4, <1>5

\* A request is taken up or refused.
LEMMA RefuseKeeps ==
    ASSUME UploadIInv, NEW w \in Workers, NEW n \in Nat, Refuse(w, n)
    PROVE  UploadIInv'
<1>1. /\ UNCHANGED <<userVars, mode, job, stored, ledger, delivered, flagged, audit, answers>>
      /\ metrics' = WithDefects(n) /\ requests' = requests + 1
  BY DEF Refuse
<1>2. /\ metrics' \in [uploads : Nat, defects : Nat, band : [Bands -> Nat]]
      /\ metrics'.uploads = metrics.uploads /\ metrics'.band = metrics.band
  BY <1>1, TypesOf, DefectsType
<1>3. UploadTypeOK'
  <2>1. /\ job' \in [Workers -> Jobs] /\ requests' \in Nat
        /\ stored' \subseteq Isrcs \X Files /\ ledger' \subseteq Isrcs
        /\ flagged' \subseteq Isrcs /\ audit' \in [AuditKinds -> Nat]
    BY <1>1, TypesOf DEF UploadTypeOK, Jobs
  <2> QED BY <1>1, <1>2, <2>1, TypesOf, TypesKept
<1>4. UploadGood(w)' /\ RegistrationGood(w)'
  BY <1>1 DEF UploadIInv, UploadGood, RegistrationGood
<1>5. Place(w)' = Place(w)
  BY <1>1 DEF Place
<1>6. CountsAgreeWithTheAudit'
  BY <1>1, <1>2, <1>5, NothingCounted
<1> QED BY <1>1, <1>3, <1>4, <1>6, OneMoves

LEMMA BeginUploadKeeps ==
    ASSUME UploadIInv, NEW w \in Workers, NEW isrc \in Isrcs, NEW f \in Files,
           BeginUpload(w, isrc, f)
    PROVE  UploadIInv'
<1> DEFINE j == [what |-> "upload", pc |-> "exists", isrc |-> isrc, file |-> f,
                 band |-> BandFromDigitRoot(FileRoot[<<isrc, f>>])]
<1>1. /\ job[w] = Idle /\ job' = [job EXCEPT ![w] = j] /\ requests' = requests + 1
      /\ metrics' = WithDefects(Cardinality(QcDefects(f))) /\ audit' = Logged("UPLOAD_START")
      /\ UNCHANGED <<userVars, mode, stored, ledger, delivered, flagged, answers>>
  BY DEF BeginUpload, Begin
<1>2. j \in Upload
  <2>1. BandFromDigitRoot(FileRoot[<<isrc, f>>]) \in Bands
    BY DEF BandFromDigitRoot, Bands
  <2> QED BY <2>1 DEF Upload, UploadSteps
<1>3. j.pc = "exists"
  OBVIOUS
<1> HIDE DEF j
<1>4. /\ job' \in [Workers -> Jobs] /\ job'[w] = j
      /\ \A v \in Workers \ {w} : job'[v] = job[v]
  <2>1. j \in Jobs
    BY <1>2 DEF Jobs
  <2> QED BY <1>1, <2>1, TypesOf, JobReplaced
<1>5. Cardinality(QcDefects(f)) \in Nat
  <2>1. IsFiniteSet({"format", "sample rate", "channels"})
    <3>1. IsFiniteSet({"format"}) /\ IsFiniteSet({"sample rate"}) /\ IsFiniteSet({"channels"})
      BY FS_Singleton
    <3>2. IsFiniteSet({"format"} \cup {"sample rate"})
      BY <3>1, FS_Union
    <3>3. IsFiniteSet({"format"} \cup {"sample rate"} \cup {"channels"})
      BY <3>1, <3>2, FS_Union
    <3>4. {"format"} \cup {"sample rate"} \cup {"channels"} = {"format", "sample rate", "channels"}
      OBVIOUS
    <3> QED BY <3>3, <3>4
  <2>2. QcDefects(f) \subseteq {"format", "sample rate", "channels"}
    BY DEF QcDefects
  <2> QED BY <2>1, <2>2, FS_Subset, FS_CardinalityType
<1>6. /\ metrics' \in [uploads : Nat, defects : Nat, band : [Bands -> Nat]]
      /\ metrics'.uploads = metrics.uploads /\ metrics'.band = metrics.band
  BY <1>1, <1>5, TypesOf, DefectsType
<1>7. /\ audit' \in [AuditKinds -> Nat]
      /\ audit'["UPLOAD_DONE"] = audit["UPLOAD_DONE"] /\ audit'["REGISTER"] = audit["REGISTER"]
  <2>1. "UPLOAD_START" \in AuditKinds /\ "UPLOAD_DONE" \in AuditKinds \ {"UPLOAD_START"}
        /\ "REGISTER" \in AuditKinds \ {"UPLOAD_START"}
    BY DEF AuditKinds
  <2> QED BY <1>1, <2>1, TypesOf, LoggedType
<1>8. UploadTypeOK'
  <2>1. /\ requests' \in Nat
        /\ stored' \subseteq Isrcs \X Files /\ ledger' \subseteq Isrcs
        /\ flagged' \subseteq Isrcs
    BY <1>1, TypesOf
  <2> QED BY <1>1, <1>4, <1>6, <1>7, <2>1, TypesOf, TypesKept
<1>9. UploadGood(w)' /\ RegistrationGood(w)'
  <2>1. job'[w] \notin Registration
    BY <1>2, <1>4 DEF Upload, Registration
  <2> QED BY <1>3, <1>4, <2>1
          DEF UploadGood, RegistrationGood, AfterStore, AfterChain, AfterDelivery
<1>10. Place(w)' = Place(w)
  <2>1. Place(w)' = "elsewhere"
    BY <1>2, <1>3, <1>4, NextUploadPlaces
  <2>2. Place(w) = "elsewhere"
    BY <1>1 DEF Place
  <2> QED BY <2>1, <2>2
<1>11. CountsAgreeWithTheAudit'
  BY <1>4, <1>6, <1>7, <1>10, NothingCounted
<1> QED BY <1>1, <1>4, <1>8, <1>9, <1>11, OneMoves

-----------------------------------------------------------------------------
(* The steps of a registration *)

\* A step of a registration before it is counted.
LEMMA NotYetCounted ==
    ASSUME UploadIInv, NEW w \in Workers, \A v \in Workers \ {w} : job'[v] = job[v],
           job[w] \in Registration, job[w].pc \notin {"count", "band"},
           job'[w] \in Registration, job'[w].pc \notin {"count", "band"},
           UNCHANGED <<metrics, audit>>
    PROVE  CountsAgreeWithTheAudit'
<1>1. Place(w) = "elsewhere" /\ Place(w)' = "elsewhere"
  BY RegistrationPlaces, NextRegistrationPlaces
<1> QED BY <1>1, NothingCounted

LEMMA BeginRegistrationKeeps ==
    ASSUME UploadIInv, NEW w \in Workers, NEW isrc \in Isrcs, NEW parties \in PartyLists,
           NEW claimed \in ClaimedBands, BeginRegistration(w, isrc, parties, claimed)
    PROVE  UploadIInv'
<1> DEFINE j == [what |-> "register", pc |-> "look", isrc |-> isrc,
                 parties |-> parties, claimed |-> claimed,
                 band |-> BandFromDigitRoot(ClaimRoot[<<isrc, claimed>>]),
                 seen |-> << >>, tier |-> "Tier0Unverified",
                 cleared |-> {}, ddex |-> FALSE]
<1>1. /\ job[w] = Idle /\ job' = [job EXCEPT ![w] = j] /\ requests' = requests + 1
      /\ UNCHANGED <<userVars, mode, stored, ledger, delivered, flagged, audit, metrics, answers>>
  BY DEF BeginRegistration, Begin
<1>2. j \in Registration
  <2>1. BandFromDigitRoot(ClaimRoot[<<isrc, claimed>>]) \in Bands
    BY DEF BandFromDigitRoot, Bands
  <2>2. << >> \in Seq([tier : Tiers, permitted : BOOLEAN]) /\ "Tier0Unverified" \in Tiers
    BY DEF Tiers
  <2> QED BY <2>1, <2>2 DEF Registration, RegistrationSteps
<1>3. j.pc = "look" /\ j.seen = << >> /\ j.parties = parties
  OBVIOUS
<1> HIDE DEF j
<1>4. /\ job' \in [Workers -> Jobs] /\ job'[w] = j
      /\ \A v \in Workers \ {w} : job'[v] = job[v]
  <2>1. j \in Jobs
    BY <1>2 DEF Jobs
  <2> QED BY <1>1, <2>1, TypesOf, JobReplaced
<1>5. RegistrationGood(w)'
  <2>1. Len(parties) \in Nat /\ Len(parties) > 0
    <3>1. parties \in Seq(Users) /\ parties # << >>
      BY UploadAssumption
    <3> QED BY <3>1
  <2>2. /\ Len(job'[w].seen) = 0 /\ DOMAIN job'[w].seen = {}
        /\ job'[w].pc = "look" /\ job'[w].parties = parties
    BY <1>3, <1>4
  <2> QED BY <2>1, <2>2 DEF RegistrationGood, Checked
<1>6. Place(w)' = Place(w)
  <2>1. Place(w)' = "elsewhere"
    BY <1>2, <1>3, <1>4, NextRegistrationPlaces
  <2>2. Place(w) = "elsewhere"
    BY <1>1 DEF Place
  <2> QED BY <2>1, <2>2
<1>7. CountsAgreeWithTheAudit'
  BY <1>1, <1>4, <1>6, NothingCounted
<1>8. /\ requests' \in Nat /\ audit' \in [AuditKinds -> Nat]
      /\ metrics' \in [uploads : Nat, defects : Nat, band : [Bands -> Nat]]
  BY <1>1, TypesOf
<1> QED BY <1>1, <1>2, <1>4, <1>5, <1>7, <1>8, RegistrationGoesOn

\* The list of parties and those seen of it.
LEMMA PartiesAre ==
    ASSUME UploadIInv, NEW w \in Workers, job[w] \in Registration
    PROVE  /\ job[w].parties \in Seq(Users) /\ Len(job[w].parties) \in Nat
           /\ DOMAIN job[w].parties = 1..Len(job[w].parties)
           /\ job[w].seen \in Seq([tier : Tiers, permitted : BOOLEAN])
           /\ Len(job[w].seen) \in Nat /\ DOMAIN job[w].seen = 1..Len(job[w].seen)
           /\ job[w].cleared \subseteq Users
           /\ RegistrationGood(w)
<1>1. job[w].parties \in Seq(Users)
  BY UploadAssumption DEF Registration
<1>2. job[w].seen \in Seq([tier : Tiers, permitted : BOOLEAN]) /\ job[w].cleared \subseteq Users
  BY DEF Registration
<1>3. RegistrationGood(w)
  BY DEF UploadIInv
<1> QED BY <1>1, <1>2, <1>3

LEMMA SeeKeeps ==
    ASSUME UploadIInv, NEW w \in Workers, job[w] \in Registration,
           job[w].pc \in {"look", "permit"},
           NEW tier \in Tiers, NEW permitted \in BOOLEAN, See(w, tier, permitted),
           UNCHANGED <<userVars, mode, stored, ledger, delivered, flagged, audit, metrics,
                       answers, requests>>
    PROVE  UploadIInv'
<1> DEFINE old == job[w].seen
           ps == job[w].parties
           x == [tier |-> tier, permitted |-> permitted]
           new == Append(old, x)
           cl == job[w].cleared
           cleared == IF permitted THEN cl \cup {Party(w)} ELSE cl
           pc == IF Len(new) = Len(ps) THEN "deliver" ELSE "look"
           n == Len(old)
           j == [[[job[w] EXCEPT !.seen = new] EXCEPT !.cleared = cleared] EXCEPT !.pc = pc]
<1>1. /\ ps \in Seq(Users) /\ Len(ps) \in Nat /\ DOMAIN ps = 1..Len(ps)
      /\ old \in Seq([tier : Tiers, permitted : BOOLEAN]) /\ n \in Nat /\ DOMAIN old = 1..n
      /\ cl \subseteq Users /\ RegistrationGood(w)
  BY PartiesAre
<1>2. /\ n < Len(ps) /\ n + 1 \in DOMAIN ps
      /\ \A i \in 1..n : i \in DOMAIN ps /\ (old[i].permitted => ps[i] \in cl)
  BY <1>1 DEF RegistrationGood
<1>3. Party(w) = ps[n + 1] /\ ps[n + 1] \in Users
  BY <1>1, <1>2 DEF Party
<1>4. /\ new \in Seq([tier : Tiers, permitted : BOOLEAN]) /\ Len(new) = n + 1
      /\ DOMAIN new = 1..(n + 1) /\ new[n + 1] = x
      /\ \A i \in 1..n : new[i] = old[i]
  <2>1. x \in [tier : Tiers, permitted : BOOLEAN]
    OBVIOUS
  <2> HIDE DEF x
  <2> QED BY <1>1, <2>1
<1>5. job' = [job EXCEPT ![w] = j]
  BY DEF See
<1>6. cleared \subseteq Users /\ cl \subseteq cleared /\ (permitted => ps[n + 1] \in cleared)
  BY <1>1, <1>3
<1>7. pc \in {"deliver", "look"} /\ (pc = "deliver" <=> n + 1 = Len(ps))
  BY <1>4
<1> HIDE DEF new, cleared, pc
<1>8. /\ j \in Registration /\ j.seen = new /\ j.cleared = cleared /\ j.pc = pc
      /\ j.parties = ps
  <2>1. [job[w] EXCEPT !.seen = new] \in Registration
    BY <1>4 DEF Registration
  <2> DEFINE j1 == [job[w] EXCEPT !.seen = new]
             j2 == [j1 EXCEPT !.cleared = cleared]
  <2>2. j1 \in Registration /\ j1.seen = new /\ j1.parties = ps
    BY <2>1 DEF Registration
  <2> HIDE DEF j1
  <2>3. j2 \in Registration /\ j2.seen = new /\ j2.parties = ps /\ j2.cleared = cleared
    BY <1>6, <2>2 DEF Registration
  <2> HIDE DEF j2
  <2>4. pc \in RegistrationSteps
    BY <1>7 DEF RegistrationSteps
  <2>5. LET k == [j2 EXCEPT !.pc = pc]
        IN  /\ k \in Registration /\ k.seen = new /\ k.parties = ps /\ k.cleared = cleared
            /\ k.pc = pc
    BY <2>3, <2>4 DEF Registration
  <2> QED BY <2>5 DEF j1, j2
<1> HIDE DEF j
<1>9. /\ job' \in [Workers -> Jobs] /\ job'[w] = j
      /\ \A v \in Workers \ {w} : job'[v] = job[v]
  <2>1. j \in Jobs
    BY <1>8 DEF Jobs
  <2> QED BY <1>5, <2>1, TypesOf, JobReplaced
<1>10. RegistrationGood(w)'
  <2>1. \A i \in DOMAIN new : i \in DOMAIN ps /\ (new[i].permitted => ps[i] \in cleared)
    <3> SUFFICES ASSUME NEW i \in 1..(n + 1)
                 PROVE  i \in DOMAIN ps /\ (new[i].permitted => ps[i] \in cleared)
      BY <1>4
    <3>1. CASE i = n + 1
      BY <1>2, <1>4, <1>6, <3>1
    <3>2. CASE i # n + 1
      <4>1. i \in 1..n
        BY <1>1, <3>2
      <4> QED BY <1>2, <1>4, <1>6, <4>1
    <3> QED BY <3>1, <3>2
  <2>2. pc = "look" => Len(new) < Len(ps)
    BY <1>1, <1>2, <1>4, <1>7
  <2>3. pc = "deliver" => Len(new) = Len(ps)
    BY <1>4, <1>7
  <2> HIDE DEF old, ps, cl, x, n
  <2> QED BY <1>7, <1>8, <1>9, <2>1, <2>2, <2>3 DEF RegistrationGood, Checked
<1>11. job'[w] \in Registration /\ job'[w].pc \notin {"count", "band"}
  BY <1>7, <1>8, <1>9
<1>12. CountsAgreeWithTheAudit'
  BY <1>9, <1>11, NotYetCounted
<1> QED BY <1>9, <1>10, <1>11, <1>12, TypesOf, RegistrationGoesOn

LEMMA LookUpKeeps ==
    ASSUME UploadIInv, NEW w \in Workers, LookUp(w)
    PROVE  UploadIInv'
<1>1. /\ job[w] \in Registration /\ job[w].pc = "look"
      /\ UNCHANGED <<userVars, mode, stored, ledger, delivered, flagged, audit, metrics,
                      answers, requests>>
  BY TypesOf, WhichJob DEF LookUp
<1>2. PICK record \in Read(Party(w)) :
         IF record = NoRecord THEN See(w, "Tier0Unverified", FALSE)
         ELSE job' = [job EXCEPT ![w].pc = "permit", ![w].tier = record.tier]
  BY DEF LookUp
<1>3. CASE record = NoRecord
  <2>1. "Tier0Unverified" \in Tiers /\ FALSE \in BOOLEAN /\ See(w, "Tier0Unverified", FALSE)
    BY <1>2, <1>3 DEF Tiers
  <2> QED BY <1>1, <2>1, SeeKeeps
<1>4. CASE record # NoRecord
  <2> DEFINE t == record.tier
             j == [[job[w] EXCEPT !.pc = "permit"] EXCEPT !.tier = t]
  <2>1. t \in Tiers
    <3>1. record = kyc[Party(w)]
      BY <1>4 DEF Read
    <3>2. Party(w) \in Users
      <4> DEFINE n == Len(job[w].seen)
                 ps == job[w].parties
      <4>1. /\ ps \in Seq(Users) /\ Len(ps) \in Nat /\ n \in Nat /\ n < Len(ps)
            /\ DOMAIN ps = 1..Len(ps)
        BY <1>1, PartiesAre DEF RegistrationGood
      <4>2. Party(w) = ps[n + 1]
        BY DEF Party
      <4> HIDE DEF n, ps
      <4> QED BY <4>1, <4>2
    <3>3. record \in KycRecord
      BY <1>4, <3>1, <3>2 DEF UploadIInv, UploadTypeOK, UserTypeOK
    <3> QED BY <3>3 DEF KycRecord
  <2>2. job' = [job EXCEPT ![w] = j]
    BY <1>2, <1>4
  <2> HIDE DEF t
  <2>3. /\ j \in Registration /\ j.pc = "permit" /\ j.parties = job[w].parties
        /\ j.seen = job[w].seen /\ j.cleared = job[w].cleared
    <3> DEFINE j1 == [job[w] EXCEPT !.pc = "permit"]
    <3>1. /\ j1 \in Registration /\ j1.pc = "permit" /\ j1.parties = job[w].parties
          /\ j1.seen = job[w].seen /\ j1.cleared = job[w].cleared
      BY <1>1 DEF Registration, RegistrationSteps
    <3> HIDE DEF j1
    <3>2. LET k == [j1 EXCEPT !.tier = t]
          IN  /\ k \in Registration /\ k.pc = "permit" /\ k.parties = job[w].parties
              /\ k.seen = job[w].seen /\ k.cleared = job[w].cleared
      BY <2>1, <3>1 DEF Registration
    <3> QED BY <3>2 DEF j1
  <2> HIDE DEF j
  <2>4. /\ job' \in [Workers -> Jobs] /\ job'[w] = j
        /\ \A v \in Workers \ {w} : job'[v] = job[v]
    <3>1. j \in Jobs
      BY <2>3 DEF Jobs
    <3> QED BY <2>2, <3>1, TypesOf, JobReplaced
  <2>5. RegistrationGood(w)'
    BY <1>1, <2>3, <2>4 DEF UploadIInv, RegistrationGood, Checked
  <2>6. CountsAgreeWithTheAudit'
    BY <1>1, <2>3, <2>4, NotYetCounted
  <2> QED BY <1>1, <2>3, <2>4, <2>5, <2>6, TypesOf, RegistrationGoesOn
<1> QED BY <1>3, <1>4

LEMMA CheckKeeps ==
    ASSUME UploadIInv, NEW w \in Workers, CheckPermitted(w)
    PROVE  UploadIInv'
<1>1. /\ job[w] \in Registration /\ job[w].pc = "permit"
      /\ UNCHANGED <<userVars, mode, stored, ledger, delivered, flagged, audit, metrics,
                      answers, requests>>
  BY TypesOf, WhichJob DEF CheckPermitted
<1>2. PICK record \in Read(Party(w)) : See(w, job[w].tier, Permits(record, 0))
  BY DEF CheckPermitted
<1> DEFINE t == job[w].tier
           p == Permits(record, 0)
<1>3. t \in Tiers /\ p \in BOOLEAN
  BY <1>1 DEF Registration, Permits
<1> HIDE DEF t, p
<1>4. See(w, t, p)
  BY <1>2 DEF t, p
<1> QED BY <1>1, <1>3, <1>4, SeeKeeps

LEMMA BlockKeeps ==
    ASSUME UploadIInv, NEW w \in Workers, BlockRegistration(w)
    PROVE  UploadIInv'
<1>1. /\ job[w] \in Registration /\ job[w].pc = "deliver" /\ metrics' = WithDefects(1)
      /\ job' = [job EXCEPT ![w] = Idle]
      /\ UNCHANGED <<userVars, mode, stored, ledger, delivered, flagged, audit, answers, requests>>
  BY TypesOf, WhichJob DEF BlockRegistration
<1>2. /\ metrics' \in [uploads : Nat, defects : Nat, band : [Bands -> Nat]]
      /\ metrics'.uploads = metrics.uploads /\ metrics'.band = metrics.band
  BY <1>1, TypesOf, DefectsType
<1>3. job'[w] = Idle /\ \A v \in Workers \ {w} : job'[v] = job[v]
  BY <1>1, TypesOf, JobReplaced DEF Jobs
<1>4. Place(w) = "elsewhere" /\ Place(w)' = "elsewhere"
  BY <1>1, <1>3, RegistrationPlaces DEF Place
<1>5. CountsAgreeWithTheAudit'
  BY <1>1, <1>2, <1>3, <1>4, NothingCounted
<1> QED BY <1>1, <1>2, <1>5, TypesOf, RequestEnds

LEMMA DeliverKeeps ==
    ASSUME UploadIInv, NEW w \in Workers, Deliver(w)
    PROVE  UploadIInv'
<1>1. /\ job[w] \in Registration /\ job[w].pc = "deliver" /\ AllPassed(job[w].seen)
      /\ UNCHANGED <<userVars, mode, stored, ledger, flagged, audit, metrics, answers, requests>>
  BY TypesOf, WhichJob DEF Deliver
<1>2. PICK ok \in BOOLEAN :
         /\ delivered' = IF ok /\ ~mode.ddex_dev
                         THEN delivered \cup {Message(w, Fns!Range(job[w].parties))}
                         ELSE delivered
         /\ job' = [job EXCEPT ![w].pc = "register", ![w].ddex = ok]
  BY DEF Deliver
<1> DEFINE j == [[job[w] EXCEPT !.pc = "register"] EXCEPT !.ddex = ok]
<1>3. job' = [job EXCEPT ![w] = j]
  BY <1>2
<1>4. /\ j \in Registration /\ j.pc = "register" /\ j.parties = job[w].parties
      /\ j.seen = job[w].seen /\ j.cleared = job[w].cleared
  <2> DEFINE j1 == [job[w] EXCEPT !.pc = "register"]
  <2>1. /\ j1 \in Registration /\ j1.pc = "register" /\ j1.parties = job[w].parties
        /\ j1.seen = job[w].seen /\ j1.cleared = job[w].cleared
    BY <1>1 DEF Registration, RegistrationSteps
  <2> HIDE DEF j1
  <2>2. LET k == [j1 EXCEPT !.ddex = ok]
        IN  /\ k \in Registration /\ k.pc = "register" /\ k.parties = job[w].parties
            /\ k.seen = job[w].seen /\ k.cleared = job[w].cleared
    BY <2>1 DEF Registration
  <2> QED BY <2>2 DEF j1
<1> HIDE DEF j
<1>5. /\ job' \in [Workers -> Jobs] /\ job'[w] = j
      /\ \A v \in Workers \ {w} : job'[v] = job[v]
  <2>1. j \in Jobs
    BY <1>4 DEF Jobs
  <2> QED BY <1>3, <2>1, TypesOf, JobReplaced
<1>6. Fns!Range(job[w].parties) \subseteq job[w].cleared
  <2> DEFINE ps == job[w].parties
             seen == job[w].seen
  <2>1. /\ Len(seen) = Len(ps) /\ DOMAIN seen = 1..Len(seen) /\ DOMAIN ps = 1..Len(ps)
        /\ \A i \in DOMAIN seen : seen[i].permitted => ps[i] \in job[w].cleared
    BY <1>1, PartiesAre DEF RegistrationGood
  <2>2. \A i \in DOMAIN seen : seen[i].permitted
    BY <1>1 DEF AllPassed
  <2>3. \A i \in DOMAIN ps : ps[i] \in job[w].cleared
    BY <2>1, <2>2
  <2> QED BY <2>3 DEF Fns!Range
<1>7. RegistrationGood(w)'
  BY <1>1, <1>4, <1>5, <1>6 DEF UploadIInv, RegistrationGood
<1>8. delivered \subseteq delivered'
  BY <1>2
<1>9. CountsAgreeWithTheAudit'
  BY <1>1, <1>4, <1>5, NotYetCounted
<1> QED BY <1>1, <1>4, <1>5, <1>7, <1>8, <1>9, TypesOf, RegistrationGoesOn

LEMMA AuditKeeps ==
    ASSUME UploadIInv, NEW w \in Workers, AuditRegistration(w)
    PROVE  UploadIInv'
<1>1. /\ job[w] \in Registration /\ job[w].pc = "register" /\ audit' = Logged("REGISTER")
      /\ Step(w, "count") /\ "count" \in RegistrationSteps
      /\ UNCHANGED <<userVars, mode, stored, ledger, delivered, flagged, metrics, answers,
                      requests>>
  BY TypesOf, WhichJob DEF AuditRegistration, RegistrationSteps
<1>2. /\ job' \in [Workers -> Jobs] /\ job'[w] \in Registration /\ job'[w].pc = "count"
      /\ job'[w].parties = job[w].parties /\ job'[w].seen = job[w].seen
      /\ job'[w].cleared = job[w].cleared
      /\ \A v \in Workers \ {w} : job'[v] = job[v]
  BY <1>1, TypesOf, RegistrationStep
<1>3. /\ audit' \in [AuditKinds -> Nat] /\ audit'["REGISTER"] = audit["REGISTER"] + 1
      /\ audit'["UPLOAD_DONE"] = audit["UPLOAD_DONE"]
  <2>1. "REGISTER" \in AuditKinds /\ "UPLOAD_DONE" \in AuditKinds \ {"REGISTER"}
    BY DEF AuditKinds
  <2> QED BY <1>1, <2>1, TypesOf, LoggedType
<1>4. Place(w) = "elsewhere" /\ Place(w)' = "register, count"
  BY <1>1, <1>2, RegistrationPlaces, NextRegistrationPlaces
<1>5. Moved(Place(w), Place(w)')
  BY <1>2, PlacesMove
<1>6. Moved("elsewhere", "register, count")
  BY <1>4, <1>5
<1>7. /\ UB' = UB /\ RB' = RB /\ RC' = RC + 1 /\ UL' = UL
      /\ UB \in Nat /\ RB \in Nat /\ RC \in Nat /\ UL \in Nat
  BY <1>6 DEF Moved
<1>8. CountsAgreeWithTheAudit'
  BY <1>1, <1>3, <1>7, CountsNow, CountsNext
<1>9. RegistrationGood(w)'
  BY <1>1, <1>2 DEF UploadIInv, RegistrationGood, Checked
<1> QED BY <1>1, <1>2, <1>3, <1>8, <1>9, TypesOf, RegistrationGoesOn

LEMMA FinishRegistrationKeeps ==
    ASSUME UploadIInv, NEW w \in Workers, FinishRegistration(w)
    PROVE  UploadIInv'
<1> DEFINE a == [what |-> "register", status |-> 200, isrc |-> job[w].isrc,
                 parties |-> Fns!Range(job[w].parties), cleared |-> job[w].cleared,
                 band |-> job[w].claimed, ddex_submitted |-> job[w].ddex]
<1>1. /\ job[w] \in Registration /\ job[w].pc = "answer"
      /\ answers' = answers \cup {a} /\ job' = [job EXCEPT ![w] = Idle]
      /\ UNCHANGED <<userVars, mode, stored, ledger, delivered, flagged, audit, metrics,
                      requests>>
  BY TypesOf, WhichJob DEF FinishRegistration, Answered
<1>2. Fns!Range(job[w].parties) \subseteq job[w].cleared
  BY <1>1 DEF UploadIInv, RegistrationGood, Checked
<1>3. ASSUME NEW x \in answers' \ answers PROVE AnswerGood(x)'
  <2>1. /\ x.what = "register" /\ x.parties = Fns!Range(job[w].parties)
        /\ x.cleared = job[w].cleared
    BY <1>1
  <2> QED BY <1>2, <2>1 DEF AnswerGood
<1> HIDE DEF a
<1>4. job'[w] = Idle /\ \A v \in Workers \ {w} : job'[v] = job[v]
  BY <1>1, TypesOf, JobReplaced DEF Jobs
<1>5. Place(w) = "elsewhere" /\ Place(w)' = "elsewhere"
  BY <1>1, <1>4, RegistrationPlaces DEF Place
<1>6. CountsAgreeWithTheAudit'
  BY <1>1, <1>4, <1>5, NothingCounted
<1> QED BY <1>1, <1>3, <1>6, TypesOf, RequestEnds

-----------------------------------------------------------------------------
(* The whole specification *)

AllIInv == UploadIInv /\ LastWordCounts

\* Handlers that serve nothing are counted nowhere, and fresh counters are 0.
LEMMA FreshCounts ==
    ASSUME NEW j, j = [w \in Workers |-> Idle]
    PROVE  /\ \A what, pcs : Cardinality({w \in Workers : /\ j[w] # Idle
                                                          /\ j[w].what = what
                                                          /\ j[w].pc \in pcs}) = 0
           /\ Fns!SumFunction(NoMetrics.band) = 0
           /\ NoMetrics \in [uploads : Nat, defects : Nat, band : [Bands -> Nat]]
           /\ NoAudit \in [AuditKinds -> Nat]
           /\ NoAudit["UPLOAD_DONE"] = 0 /\ NoAudit["REGISTER"] = 0
<1>1. ASSUME NEW what, NEW pcs
      PROVE  Cardinality({w \in Workers : /\ j[w] # Idle
                                          /\ j[w].what = what
                                          /\ j[w].pc \in pcs}) = 0
  <2>1. {w \in Workers : j[w] # Idle /\ j[w].what = what /\ j[w].pc \in pcs} = {}
    OBVIOUS
  <2> QED BY <2>1, FS_EmptySet
<1>2. Fns!SumFunction(NoMetrics.band) = 0
  <2> DEFINE f == NoMetrics.band
  <2>1. DOMAIN f = Bands /\ \A b \in Bands : f[b] = 0
    BY DEF NoMetrics
  <2> HIDE DEF f
  <2>2. SumOver(f, DOMAIN f) = 0
    BY <2>1, BandsAreFinite, SumOfZeros
  <2>3. SumOf(f) = 0
    BY <2>2 DEF SumOf
  <2> QED BY <2>3, BandsSum DEF f
<1>3. /\ NoMetrics \in [uploads : Nat, defects : Nat, band : [Bands -> Nat]]
      /\ NoAudit \in [AuditKinds -> Nat]
      /\ NoAudit["UPLOAD_DONE"] = 0 /\ NoAudit["REGISTER"] = 0
  BY DEF NoMetrics, NoAudit, AuditKinds
<1> QED BY <1>1, <1>2, <1>3

LEMMA UploadInitHolds == UploadInit => AllIInv
<1> SUFFICES ASSUME UploadInit PROVE AllIInv
  OBVIOUS
<1>1. UserTypeOK /\ LastWordCounts
  BY UserInitHolds DEF UploadInit, UserIInv
<1>2. /\ job = [w \in Workers |-> Idle] /\ mode \in Modes /\ answers = {}
      /\ stored = {} /\ ledger = {} /\ flagged = {} /\ requests = 0
      /\ audit = NoAudit /\ metrics = NoMetrics
  BY DEF UploadInit
<1>3. UploadTypeOK
  BY <1>1, <1>2, FreshCounts DEF UploadTypeOK
<1>4. CountsAgreeWithTheAudit
  <2>1. \A what, pcs : At(what, pcs) = 0
    BY <1>2, FreshCounts DEF At
  <2>2. Fns!SumFunction(metrics.band) = 0 /\ audit["UPLOAD_DONE"] = 0 /\ audit["REGISTER"] = 0
    BY <1>2, FreshCounts
  <2>3. metrics.uploads = 0
    BY <1>2 DEF NoMetrics
  <2> QED BY <2>1, <2>2, <2>3 DEF CountsAgreeWithTheAudit
<1>5. ASSUME NEW w \in Workers PROVE UploadGood(w) /\ RegistrationGood(w)
  <2>1. job[w] = Idle
    BY <1>2
  <2>2. Idle \notin Upload /\ Idle \notin Registration
    BY DEF Idle, Upload, Registration, UploadSteps, RegistrationSteps
  <2> QED BY <2>1, <2>2 DEF UploadGood, RegistrationGood
<1> QED BY <1>1, <1>2, <1>3, <1>4, <1>5 DEF AllIInv, UploadIInv

LEMMA RestartKeeps == UploadIInv /\ Restart => UploadIInv'
<1> SUFFICES ASSUME UploadIInv, Restart PROVE UploadIInv'
  OBVIOUS
<1>1. /\ job' = [w \in Workers |-> Idle] /\ audit' = NoAudit /\ metrics' = NoMetrics
      /\ UNCHANGED <<userVars, mode, stored, ledger, delivered, flagged, answers, requests>>
  BY DEF Restart
<1>2. UploadTypeOK'
  <2>1. job' \in [Workers -> Jobs]
    BY <1>1 DEF Jobs
  <2> QED BY <1>1, <2>1, FreshCounts, TypesOf, TypesKept
<1>3. CountsAgreeWithTheAudit'
  <2>1. \A what, pcs : At(what, pcs)' = 0
    BY <1>1, FreshCounts DEF At
  <2>2. /\ Fns!SumFunction(metrics'.band) = 0
        /\ audit'["UPLOAD_DONE"] = 0 /\ audit'["REGISTER"] = 0
    BY <1>1, FreshCounts
  <2>3. metrics'.uploads = 0
    BY <1>1 DEF NoMetrics
  <2>4. UB' = 0 /\ RB' = 0 /\ RC' = 0 /\ UL' = 0
    BY <2>1 DEF UB, RB, RC, UL
  <2> QED BY <2>2, <2>3, <2>4, CountsNext
<1>4. ASSUME NEW w \in Workers PROVE UploadGood(w)' /\ RegistrationGood(w)'
  <2>1. job'[w] = Idle
    BY <1>1
  <2>2. Idle \notin Upload /\ Idle \notin Registration
    BY DEF Idle, Upload, Registration, UploadSteps, RegistrationSteps
  <2> QED BY <2>1, <2>2 DEF UploadGood, RegistrationGood
<1>5. ASSUME NEW a \in answers PROVE AnswerGood(a)'
  <2>1. AnswerGood(a)
    BY DEF UploadIInv
  <2> QED BY <1>1, <2>1 DEF AnswerGood
<1> QED BY <1>1, <1>2, <1>3, <1>4, <1>5 DEF UploadIInv

\* Neither a step of a user nor a stutter moves a request.
LEMMA UsersDisturbNothing ==
    ASSUME UploadIInv, UNCHANGED trackVars, UserTypeOK'
    PROVE  UploadIInv'
<1>1. UNCHANGED <<mode, job, stored, ledger, delivered, flagged, audit, metrics, answers, requests>>
  BY DEF trackVars
<1>2. UploadTypeOK'
  BY <1>1 DEF UploadIInv, UploadTypeOK
<1>3. CountsAgreeWithTheAudit'
  BY <1>1 DEF UploadIInv, CountsAgreeWithTheAudit, At
<1>4. ASSUME NEW w \in Workers PROVE UploadGood(w)' /\ RegistrationGood(w)'
  <2>1. UploadGood(w) /\ RegistrationGood(w)
    BY DEF UploadIInv
  <2> QED BY <1>1, <2>1 DEF UploadGood, RegistrationGood
<1>5. ASSUME NEW a \in answers PROVE AnswerGood(a)'
  <2>1. AnswerGood(a)
    BY DEF UploadIInv
  <2> QED BY <1>1, <2>1 DEF AnswerGood
<1> QED BY <1>1, <1>2, <1>3, <1>4, <1>5 DEF UploadIInv

LEMMA HandlersKeep == UploadIInv /\ TrackNext => UploadIInv' /\ UNCHANGED userVars
<1> SUFFICES ASSUME UploadIInv, TrackNext PROVE UploadIInv' /\ UNCHANGED userVars
  OBVIOUS
<1>1. CASE Restart
  BY <1>1, RestartKeeps DEF Restart
<1>2. ASSUME NEW w \in Workers, RefuseUpload(w) \/ RefuseRegistration(w)
      PROVE  UploadIInv' /\ UNCHANGED userVars
  <2>1. PICK n \in Nat : Refuse(w, n)
    BY <1>2 DEF RefuseUpload, RefuseRegistration
  <2> QED BY <2>1, RefuseKeeps DEF Refuse
<1>3. ASSUME NEW w \in Workers, NEW isrc \in Isrcs, NEW f \in Files, BeginUpload(w, isrc, f)
      PROVE  UploadIInv' /\ UNCHANGED userVars
  BY <1>3, BeginUploadKeeps DEF BeginUpload
<1>4. ASSUME NEW w \in Workers, NEW b \in BOOLEAN, ArticleSeventeen(w, b)
      PROVE  UploadIInv' /\ UNCHANGED userVars
  BY <1>4, ArticleKeeps DEF ArticleSeventeen
<1>5. ASSUME NEW w \in Workers, NEW b \in BOOLEAN, Enrich(w, b)
      PROVE  UploadIInv' /\ UNCHANGED userVars
  BY <1>5, EnrichKeeps DEF Enrich
<1>6. ASSUME NEW w \in Workers, NEW b \in BOOLEAN, SubmitDistribution(w, b)
      PROVE  UploadIInv' /\ UNCHANGED userVars
  BY <1>6, SubmitKeeps DEF SubmitDistribution, FailUpload
<1>7. ASSUME NEW w \in Workers, NEW b \in BOOLEAN, RecordLatency(w, b)
      PROVE  UploadIInv' /\ UNCHANGED userVars
  BY <1>7, LatencyKeeps DEF RecordLatency
<1>8. ASSUME NEW w \in Workers, StoreFile(w) PROVE UploadIInv' /\ UNCHANGED userVars
  BY <1>8, StoreFileKeeps DEF StoreFile, FailUpload
<1>9. ASSUME NEW w \in Workers, DdexRegister(w) PROVE UploadIInv' /\ UNCHANGED userVars
  BY <1>9, DdexKeeps DEF DdexRegister
<1>10. ASSUME NEW w \in Workers, PushMirrors(w) PROVE UploadIInv' /\ UNCHANGED userVars
  BY <1>10, MirrorsKeep DEF PushMirrors
<1>11. ASSUME NEW w \in Workers, FinishUpload(w) PROVE UploadIInv' /\ UNCHANGED userVars
  BY <1>11, FinishKeeps DEF FinishUpload
<1>12. ASSUME NEW w \in Workers, NEW isrc \in Isrcs, NEW parties \in PartyLists,
              NEW band \in ClaimedBands, BeginRegistration(w, isrc, parties, band)
       PROVE  UploadIInv' /\ UNCHANGED userVars
  BY <1>12, BeginRegistrationKeeps DEF BeginRegistration
<1>13. ASSUME NEW w \in Workers, LookUp(w) PROVE UploadIInv' /\ UNCHANGED userVars
  BY <1>13, LookUpKeeps DEF LookUp
<1>14. ASSUME NEW w \in Workers, CheckPermitted(w) PROVE UploadIInv' /\ UNCHANGED userVars
  BY <1>14, CheckKeeps DEF CheckPermitted
<1>15. ASSUME NEW w \in Workers, BlockRegistration(w) PROVE UploadIInv' /\ UNCHANGED userVars
  BY <1>15, BlockKeeps DEF BlockRegistration
<1>16. ASSUME NEW w \in Workers, Deliver(w) PROVE UploadIInv' /\ UNCHANGED userVars
  BY <1>16, DeliverKeeps DEF Deliver
<1>17. ASSUME NEW w \in Workers, AuditRegistration(w) PROVE UploadIInv' /\ UNCHANGED userVars
  BY <1>17, AuditKeeps DEF AuditRegistration
<1>18. ASSUME NEW w \in Workers, FinishRegistration(w) PROVE UploadIInv' /\ UNCHANGED userVars
  BY <1>18, FinishRegistrationKeeps DEF FinishRegistration
<1>19. ASSUME NEW w \in Workers, CountUpload(w) PROVE UploadIInv' /\ UNCHANGED userVars
  BY <1>19, CountUploadKeeps DEF CountUpload
<1>20. ASSUME NEW w \in Workers, CountBand(w) PROVE UploadIInv' /\ UNCHANGED userVars
  BY <1>20, CountBandKeeps DEF CountBand
<1> QED BY <1>1, <1>2, <1>3, <1>4, <1>5, <1>6, <1>7, <1>8, <1>9, <1>10, <1>11, <1>12, <1>13,
           <1>14, <1>15, <1>16, <1>17, <1>18, <1>19, <1>20 DEF TrackNext

LEMMA UploadNextKeeps == AllIInv /\ [UploadNext]_uploadVars => AllIInv'
<1> SUFFICES ASSUME AllIInv, [UploadNext]_uploadVars PROVE AllIInv'
  OBVIOUS
<1>1. UploadIInv /\ UserIInv
  BY DEF AllIInv, UploadIInv, UploadTypeOK, UserIInv
<1>2. CASE TrackNext
  <2>1. UploadIInv' /\ UNCHANGED userVars
    BY <1>1, <1>2, HandlersKeep
  <2>2. UserIInv'
    BY <1>1, <2>1, UserNextKeeps
  <2> QED BY <2>1, <2>2 DEF AllIInv, UserIInv
<1>3. CASE (UserNext \/ UNCHANGED userVars) /\ UNCHANGED trackVars
  <2>1. UserIInv'
    BY <1>1, <1>3, UserNextKeeps
  <2>2. UploadIInv'
    BY <1>1, <1>3, <2>1, UsersDisturbNothing DEF UserIInv
  <2> QED BY <2>1, <2>2 DEF AllIInv, UserIInv
<1> QED BY <1>2, <1>3 DEF UploadNext, uploadVars

\* The variables have their types: every handler is idle or has all that its
\* request needs at its step, in every interleaving with users and restarts.
THEOREM UploadTypeCorrect == UploadSpec => []UploadTypeOK
<1>1. AllIInv => UploadTypeOK
  BY DEF AllIInv, UploadIInv
<1> QED BY <1>1, UploadInitHolds, UploadNextKeeps, PTL DEF UploadSpec

\* PrivacyStore: the consent looked up is the last one the user was told is
\* recorded, however the consents to other purposes are mixed with it.
THEOREM LastWordHolds == UploadSpec => []LastWordCounts
<1>1. AllIInv => LastWordCounts
  BY DEF AllIInv
<1> QED BY <1>1, UploadInitHolds, UploadNextKeeps, PTL DEF UploadSpec

\* upload_track: an answer of 200 means that the file is stored, the
\* distribution sent and the message delivered, whatever other requests do.
THEOREM UploadsAreWhole == UploadSpec => []AnsweredUploadsAreWhole
<1>1. AllIInv => AnsweredUploadsAreWhole
  BY DEF AllIInv, UploadIInv, AnswerGood, AnsweredUploadsAreWhole, Uploads
<1> QED BY <1>1, UploadInitHolds, UploadNextKeeps, PTL DEF UploadSpec

\* register_track: nobody is named in a delivered or answered registration whose
\* check failed, though records may change between the two reads of each.
THEOREM RegistrantsCleared == UploadSpec => []RegistrantsWereCleared
<1>1. AllIInv => RegistrantsWereCleared
  <2> SUFFICES ASSUME AllIInv PROVE RegistrantsWereCleared
    OBVIOUS
  <2>1. \A a \in Registrations : a.parties \subseteq a.cleared
    BY DEF AllIInv, UploadIInv, AnswerGood, Registrations
  <2>2. ASSUME NEW w \in Workers, job[w] # Idle, job[w].what = "register",
               job[w].pc \in {"register", "count", "band", "answer"}
        PROVE  Fns!Range(job[w].parties) \subseteq job[w].cleared
    <3>1. job[w] \in Registration
      BY <2>2, TypesOf, WhichJob DEF AllIInv, Upload
    <3> QED BY <2>2, <3>1 DEF AllIInv, UploadIInv, RegistrationGood, Checked
  <2> QED BY <2>1, <2>2 DEF RegistrantsWereCleared
<1> QED BY <1>1, UploadInitHolds, UploadNextKeeps, PTL DEF UploadSpec

\* CtqMetrics and AuditStore: the total, the counts by band and the audit log
\* differ by the requests between two of them, for any number of handlers.
THEOREM CountsAgree == UploadSpec => []CountsAgreeWithTheAudit
<1>1. AllIInv => CountsAgreeWithTheAudit
  BY DEF AllIInv, UploadIInv
<1> QED BY <1>1, UploadInitHolds, UploadNextKeeps, PTL DEF UploadSpec
=============================================================================
