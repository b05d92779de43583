----------------------------- MODULE ZKVerifier -----------------------------
(***************************************************************************)
(* contracts/src/ZKVerifier.sol: the admin sets the verifying key once,    *)
(* after which anybody may have a proof verified.  A proof is its length   *)
(* in bytes and the statement it proves; the pairing equation is taken to  *)
(* hold exactly for the proofs of the statement asked about.               *)
(***************************************************************************)
EXTENDS Integers

CONSTANTS Commitments,  \* split commitments
          NoAnswer      \* nothing has been asked yet

VARIABLES keySet,  \* vk.set
          answer   \* the last call of verifyProof, whether the key was set
                   \* by then, and what came of it

vars == <<keySet, answer>>

Bands == 0..3
BASIS_POINTS == 10000
ProofLength == 192

Statement == [band : Bands, sum : {BASIS_POINTS, BASIS_POINTS - 1},
              commitment : Commitments]
Proof == [length : {ProofLength - 1, ProofLength}, proves : Statement]

Init == keySet = FALSE /\ answer = NoAnswer

SetVerifyingKey == ~keySet /\ keySet' = TRUE /\ UNCHANGED answer

\* abi.decode of the bytes from..to-1 into so many 32-byte words: it reverts
\* when they are too few.
Decodes(from, to, words) == to - from >= 32 * words

\* Points a and c are 2 words, b is 4.
DecodeProof == /\ Decodes(0, 64, 2)
               /\ Decodes(64, 128, 4)
               /\ Decodes(128, 192, 2)

Groth16Verify(asked, proof) == proof.proves = asked

Result(asked, proof) ==
    CASE ~(keySet /\ asked.band <= 2 /\ asked.sum = BASIS_POINTS) -> "reverted"
      [] proof.length # ProofLength -> "false"
      [] ~DecodeProof -> "reverted"
      [] OTHER -> IF Groth16Verify(asked, proof) THEN "true" ELSE "false"

VerifyProof(asked, proof) ==
    /\ answer' = [asked |-> asked, proof |-> proof, active |-> keySet,
                  result |-> Result(asked, proof)]
    /\ UNCHANGED keySet

Next == \/ SetVerifyingKey
        \/ \E asked \in Statement, proof \in Proof : VerifyProof(asked, proof)

Spec == Init /\ [][Next]_vars

-----------------------------------------------------------------------------
\* "After this, verifyProof() is active" (line 57): with the key set, a valid
\* "192-byte encoded Groth16 proof" (line 83) of a band in range and a sum of
\* 10000 is accepted.
ValidProofsAreAccepted ==
    answer # NoAnswer =>
        LET valid == /\ answer.active
                     /\ answer.asked.band <= 2 /\ answer.asked.sum = BASIS_POINTS
                     /\ answer.proof = [length |-> ProofLength, proves |-> answer.asked]
        IN  valid => answer.result = "true"
=============================================================================
