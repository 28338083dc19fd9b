---------------------------- MODULE OneTimeCodes ----------------------------
(***************************************************************************)
(* What the services that ask for a code (login, registration, password    *)
(* reset) may rely on: a code is issued for a purpose, is open until it is *)
(* accepted or runs out, and a caller that claims it while it is open is   *)
(* told later that it is accepted.  Claiming and accepting are two steps,  *)
(* so callers that overlap may all be told so; once one has been told, no  *)
(* other caller can claim the code.                                        *)
(*                                                                         *)
(* VerificationCodes implements this (ImplementsOneTimeCodes there), and   *)
(* Accounts is built on it.                                                *)
(***************************************************************************)
EXTENDS Naturals, Sequences

CONSTANTS
    Callers,
    Purposes        \* what a code is for: records [target, type]

VARIABLES
    issued,         \* issued[i]: the purpose of code i
    open,           \* the codes that can still be claimed
    claim,          \* claim[r]: the code caller r has claimed, 0 if none
    accepts         \* accepts[i]: how often code i was accepted

codesVars == <<issued, open, claim, accepts>>

OneTimeTypeOK ==
    /\ issued \in Seq(Purposes)
    /\ open \subseteq 1..Len(issued)
    /\ claim \in [Callers -> 0..Len(issued)]
    /\ accepts \in Seq(Nat) /\ Len(accepts) = Len(issued)

OneTimeInit ==
    /\ issued = << >>
    /\ open = {}
    /\ claim = [r \in Callers |-> 0]
    /\ accepts = << >>

Issue(p) ==
    /\ issued' = Append(issued, p)
    /\ open' = open \cup {Len(issued) + 1}
    /\ accepts' = Append(accepts, 0)
    /\ UNCHANGED claim

Claim(r, i) ==
    /\ claim[r] = 0 /\ i \in open
    /\ claim' = [claim EXCEPT ![r] = i]
    /\ UNCHANGED <<issued, open, accepts>>

Accept(r) ==
    /\ claim[r] # 0
    /\ open' = open \ {claim[r]}
    /\ accepts' = [accepts EXCEPT ![claim[r]] = @ + 1]
    /\ claim' = [claim EXCEPT ![r] = 0]
    /\ UNCHANGED issued

\* Callers that fail, or die with their process, are never told.
GiveUp(S) ==
    /\ claim' = [r \in Callers |-> IF r \in S THEN 0 ELSE claim[r]]
    /\ UNCHANGED <<issued, open, accepts>>

\* A code runs out.
Close(i) ==
    /\ open' = open \ {i}
    /\ UNCHANGED <<issued, claim, accepts>>

OneTimeNext ==
    \/ \E p \in Purposes : Issue(p)
    \/ \E r \in Callers : Accept(r) \/ \E i \in 1..Len(issued) : Claim(r, i)
    \/ \E S \in SUBSET Callers : GiveUp(S)
    \/ \E i \in 1..Len(issued) : Close(i)

OneTimeSpec == OneTimeInit /\ [][OneTimeNext]_codesVars
=============================================================================
