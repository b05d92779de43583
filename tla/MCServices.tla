----------------------------- MODULE MCServices -----------------------------
(* Small instances of three services every request goes by, which share no  *)
(* state: the moderation queue, over a store that may fail, the rate        *)
(* limiter, and the login.  The initial state picks the one a behaviour is  *)
(* about.                                                                   *)
EXTENDS Moderation, RateLimiter, WalletAuth

VARIABLE unit

MCBaseLimit == [general |-> 2]

ServicesInit == /\ unit \in {"moderation", "limiter", "login"}
                /\ Init /\ LimiterInit /\ AuthInit
                /\ unit # "login" => bypass = FALSE

ServicesNext ==
    /\ UNCHANGED unit
    /\ \/ unit = "moderation" /\ Next /\ UNCHANGED <<limiterVars, authVars>>
       \/ unit = "limiter" /\ LimiterNext /\ UNCHANGED <<vars, authVars>>
       \/ unit = "login" /\ AuthNext /\ UNCHANGED <<vars, limiterVars>>

ServicesSpec == ServicesInit /\ [][ServicesNext]_<<unit, vars, limiterVars, authVars>>
=============================================================================
