------------------------ MODULE MCVerificationCodes ------------------------
EXTENDS VerificationCodes, TLC

\* Slots, targets and addresses are interchangeable.
Symmetry == Permutations(Requests) \cup Permutations(Targets) \cup Permutations(Ips)
=============================================================================
