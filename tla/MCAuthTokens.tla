---------------------------- MODULE MCAuthTokens ----------------------------
EXTENDS AuthTokens, TLC

CONSTANTS p1, p2, p3

\* The refresh token of p1 may run out; the others outlive the behaviour.
MCExpirable == {<<"refresh", p1>>}

NoneExpirable == {}

\* Pairs other than p1 and all requests are interchangeable.
Symmetry == Permutations(Pairs \ {p1}) \cup Permutations(Requests)
FullSymmetry == Permutations(Pairs) \cup Permutations(Requests)
=============================================================================
