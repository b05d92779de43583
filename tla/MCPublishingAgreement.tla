----------------------- MODULE MCPublishingAgreement -----------------------
(* A small instance of PublishingAgreement: two tracks, three wallets, and  *)
(* proposals of one to three parties, one of them naming a wallet twice and *)
(* one in a band the token contract does not know, and one per refusal.     *)
EXTENDS PublishingAgreement

CONSTANTS w1, w2, w3

Proposal(wallets, bps, band) ==
    [wallets |-> wallets, bps |-> bps, band |-> band,
     ipis |-> [i \in DOMAIN wallets |-> 11]]

Solo == Proposal(<<w1>>, <<10000>>, 0)
Trio == Proposal(<<w1, w2, w3>>, <<5000, 3000, 2000>>, 1)
WriterPublisher == Proposal(<<w2, w2>>, <<6000, 4000>>, 1)
UnknownBand == Proposal(<<w3, w1>>, <<5000, 5000>>, 3)

Refused == {
    Proposal(<< >>, << >>, 0),
    Proposal(<<w1, w2>>, <<5000, 4999>>, 0),
    Proposal(<<ZeroAddress, w2>>, <<5000, 5000>>, 0),
    Proposal(<<w1>>, <<5000, 5000>>, 0),
    [Proposal(<<w1>>, <<10000>>, 0) EXCEPT !.ipis = <<8>>] }

MCProposals == {Solo, Trio, WriterPublisher, UnknownBand} \cup Refused
=============================================================================
