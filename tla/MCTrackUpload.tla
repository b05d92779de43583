--------------------------- MODULE MCTrackUpload ---------------------------
(* A small instance of TrackUpload.  Consents and deletions share no state  *)
(* with uploads and registrations: a behaviour is about one or the other.   *)
EXTENDS TrackUpload, TLC

VARIABLE half

\* A good file, one of low quality that passes, and two that are refused.
MCFiles == {[magic |-> "RIFF", oversize |-> FALSE, rate |-> 44100, channels |-> 2],
            [magic |-> "ID3", oversize |-> FALSE, rate |-> 8000, channels |-> 1],
            [magic |-> "RIFF", oversize |-> TRUE, rate |-> 44100, channels |-> 2],
            [magic |-> "PK", oversize |-> FALSE, rate |-> 44100, channels |-> 2]}

MCFileRoot == [i \in Isrcs, f \in MCFiles |-> IF f.channels = 2 THEN 3 ELSE 7]

MCClaimRoot == [i \in Isrcs, b \in Bands |-> 2]

MCInit == UploadInit /\ half \in {"tracks", "privacy"}

MCNext == /\ UNCHANGED half
          /\ \/ half = "tracks" /\ TrackNext
             \/ half = "tracks" /\ KycNext /\ UNCHANGED trackVars
             \/ half = "privacy" /\ PrivacyNext /\ UNCHANGED trackVars

MCSpec == MCInit /\ [][MCNext]_<<uploadVars, half>>

CONSTANTS u1, u2

MCPartyLists == {<<u1>>, <<u1, u2>>}

Symmetry == Permutations(Workers)
=============================================================================
