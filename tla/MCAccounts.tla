----------------------------- MODULE MCAccounts -----------------------------
EXTENDS Accounts, TLC

CONSTANTS ann, p1, cn

\* One user, who registered by telephone and has not set a password.
MCSeedUsers ==
    <<[columns |-> [NoColumns EXCEPT !.phone = p1], password |-> None,
       emailVerified |-> FALSE, phoneVerified |-> TRUE]>>

ByEmail == [NoColumns EXCEPT !.email = ann]
ByPhone == [NoColumns EXCEPT !.phone = p1]
WithCountry == [ByPhone EXCEPT !.country = cn]

MCRegistrations == {ByEmail, ByPhone, WithCountry}
MCUpdates == {ByEmail, WithCountry}

RequestSymmetry == Permutations(Requests)
=============================================================================
