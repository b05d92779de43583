------------------------ MODULE MCStreamingRoyalties ------------------------
(* A small instance of StreamingRoyalties: one track of two parties with    *)
(* dust, one or three hosts, and a cash-out that an artist can cover once.  *)
EXTENDS StreamingRoyalties, TLC

CONSTANTS alice, bob, host

Symmetry == Permutations(CashoutIds)

MCSplits == {[wallets |-> <<alice, bob>>, bps |-> <<3333, 6667>>],
             [wallets |-> <<alice, bob>>, bps |-> <<5000, 4999>>],
             [wallets |-> <<ZeroAddress, bob>>, bps |-> <<5000, 5000>>]}

MCHostLists == {<<host>>, <<host, bob, host>>, <<ZeroAddress>>, << >>}
=============================================================================
