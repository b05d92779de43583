------------------------------ MODULE MCGateway ------------------------------
(* Small instances of the gateway's two halves, which share nothing but the *)
(* numbers of their events: the initial state picks the one a behaviour is  *)
(* about.  The pull has a store whose reports are deleted after they are    *)
(* read and one whose reports stay; the push has two stores that take       *)
(* messages and one that does not.                                          *)
EXTENDS DsrGateway, ErnPush

CONSTANTS good, small, badname, nontext, kept, p1, p2

VARIABLE half

MCDspOrder == <<"Tidal", "Spotify">>

MCAt == [f \in Files |-> IF f = kept THEN "Spotify" ELSE "Tidal"]

MCKind == [f \in Files |-> CASE f = small -> "small"
                             [] f = badname -> "badname"
                             [] f = nontext -> "nontext"
                             [] OTHER -> "report"]

MCDeletes == {"Tidal"}

MCIsrcs       == {"isrc"}
MCErnStores   == {"Tidal", "Spotify"}
MCOtherStores == {"SoundCloud"}

\* The pull has two reports at a time: `good` is dropped at any time, and one of
\* the others, or none, is there from the start.
GatewayInit == /\ Init /\ ErnInit
               /\ \/ /\ half = "pull"
                     /\ \E other \in Files \ {good} : remote \subseteq {other}
                  \/ half = "push" /\ remote = {}

OnlyGoodIsLate == \A f \in Files \ {good} : f \in remote' => f \in remote

PullNext == half = "pull" /\ Next /\ OnlyGoodIsLate /\ UNCHANGED <<half, ernVars>>
PushNext == half = "push" /\ ErnNext /\ UNCHANGED <<half, vars>>

GatewaySpec == /\ GatewayInit
               /\ [][PullNext \/ PushNext]_<<half, vars, ernVars>>
               /\ Fairness
=============================================================================
