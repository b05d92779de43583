--------------------------- MODULE MCRoyaltyOffice ---------------------------
(* The four components behind royalty payments, which share no state: the   *)
(* initial state picks the one a behaviour is about, and the others stand   *)
(* still.                                                                   *)
EXTENDS Naturals, Integers, Sequences, FiniteSets, MultisigVault, SapPosting, Gtms, RightsDesk, TLC

CONSTANTS Wallet1, Wallet2

VARIABLE unit

MCPayouts == {<<[wallet |-> Wallet1, bps |-> 5001], [wallet |-> Wallet2, bps |-> 4999]>>,
              <<[wallet |-> Wallet1, bps |-> 9000], [wallet |-> Wallet2, bps |-> 9000]>>,
              <<[wallet |-> Wallet1, bps |-> 1000], [wallet |-> Wallet2, bps |-> 1000]>>,
              <<[wallet |-> MalformedWallet, bps |-> 10000]>>}

MCSapAmounts == {-1, 1, 2, 4}

-----------------------------------------------------------------------------
(* Inputs of the desk *)

W(role, society, controlled) ==
  [role |-> role, ipi |-> "ipi", society |-> society, controlled |-> controlled]

WriterLists == {<<>>, <<W("Composer", "KodaDk", TRUE)>>,
                <<W("ComposerLyricist", "", TRUE), W("Lyricist", "012", FALSE)>>,
                <<W("Arranger", "SabamBe", FALSE), W("Composer", "Socan", TRUE)>>}

Works == [writers : WriterLists,
          publishers : {<<>>, <<[ipi |-> "ipi", society |-> "PrsUk"], [ipi |-> "", society |-> ""]>>},
          titles : {0, 2}, artists : {1}, recording : BOOLEAN, society : {"PrsUk"},
          territories : {<<"World">>, <<"GB", "Europe">>}]

OneOf == CHOOSE w \in Works : w.writers # <<>> /\ w.publishers # <<>>

TheBatches == {<<>>} \cup {<<w>> : w \in Works} \cup {<<w, OneOf>> : w \in Works}

AllValid == [n \in Names |-> "valid"]

Heavy == {f[1] : f \in {g \in Fields : g[2] >= 4}}

Silent == {f[1] : f \in {g \in Fields : g[3] # "required"}}

TheTracks ==
  {[AllValid EXCEPT ![n] = a, ![m] = b] : n \in Names, m \in Names,
                                          a \in {"absent", "invalid"}, b \in {"absent", "invalid"}}
  \cup {[n \in Names |-> IF n \in missing THEN "absent" ELSE "valid"] : missing \in SUBSET Silent}
  \cup {[n \in Names |-> IF n \in bad THEN "invalid" ELSE "valid"] : bad \in SUBSET Heavy}

Holder(name, type, pct, pro) == [name |-> name, type |-> type, pct |-> pct, pro |-> pro]

TheRecords ==
  [isrc : BOOLEAN, iswc : {FALSE}, unconfirmed : {0, 1}, state : {"Unregistered"},
   confirmed : SUBSET {"bmi", "prs", "soundexchange", "mlc"},
   holders : {{}, {Holder("a", "Songwriter", 60, FALSE), Holder("b", "CoSongwriter", 40, TRUE)},
              {Holder("a", "Songwriter", 60, TRUE), Holder("b", "CoSongwriter", 60, TRUE)},
              {Holder("p", "Publisher", 101, TRUE)}}]

TheSheets == {"apra_amcos", "gema", "nordic"}

TheSlugs == {"apra", "tono", "gema", "prs", "none"}

TheTerritories == PrimaryTerritories \cup {"XX", Malformed}

-----------------------------------------------------------------------------

vars == <<unit, vaultVars, sapVars, gtmsVars, answer>>

Init == /\ unit \in {"vault", "sap", "gtms", "desk"}
        /\ VaultInit /\ SapInit /\ GtmsInit /\ DeskInit
        /\ unit # "vault" => vaultCfg = [requireZkProof |-> FALSE, devMode |-> FALSE]
        /\ unit # "sap" => sapMode = "s4"

Next == \/ unit = "vault" /\ VaultNext /\ UNCHANGED <<unit, sapVars, gtmsVars, answer>>
        \/ unit = "sap"   /\ SapNext   /\ UNCHANGED <<unit, vaultVars, gtmsVars, answer>>
        \/ unit = "gtms"  /\ GtmsNext  /\ UNCHANGED <<unit, vaultVars, sapVars, answer>>
        \/ unit = "desk"  /\ DeskNext /\ UNCHANGED <<unit, vaultVars, sapVars, gtmsVars>>

Spec == Init /\ [][Next]_vars /\ SapFairness

=============================================================================
