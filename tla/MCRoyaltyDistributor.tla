------------------------ MODULE MCRoyaltyDistributor ------------------------
(* A small instance of RoyaltyDistributor: two CIDs, three artists, amounts *)
(* on both sides of the cap, and one request per way to be invalid.         *)
EXTENDS RoyaltyDistributor

\* A sound and complete verifier: it accepts the proof of exactly this band
\* and commitment.
MCVerifyProof(band, commitment, proof) ==
    proof = [band |-> band, commitment |-> commitment]

MCAccounts == 1..4
MCAdmin == 3
MCSelf == 4

Request(artists, bps, band, total) ==
    [artists |-> artists, bps |-> bps, band |-> band, total |-> total,
     proof |-> [band |-> band, commitment |-> SplitCommitment(artists, bps)]]

\* 7 splits with dust; 10 is the cap and pays an artist listed twice.
Small == Request(<<1, 2, 3>>, <<3333, 3333, 3334>>, 1, 7)
AtCap == Request(<<1, 1>>, <<2500, 7500>>, 0, 10)
Large == Request(<<1, 2>>, <<4999, 5001>>, 2, 13)
Larger == Request(<<2>>, <<10000>>, 2, 17)

Invalid == {
    Request(<< >>, << >>, 0, 5),
    Request(<<1, 2, 1, 2>>, <<2500, 2500, 2500, 2500>>, 0, 5),
    Request(<<1>>, <<9999>>, 0, 5),
    Request(<<ZeroAddress, 1>>, <<5000, 5000>>, 0, 5),
    Request(<<1>>, <<10000>>, 3, 5),
    Request(<<1>>, <<10000>>, 0, 0),
    [Request(<<1>>, <<10000>>, 0, 5) EXCEPT !.bps = <<5000, 5000>>],
    [Request(<<1, 2>>, <<5000, 5000>>, 0, 5) EXCEPT !.artists = <<2, 2>>] }

MCRequests == {Small, AtCap, Large, Larger} \cup Invalid
=============================================================================
