SPECIFICATION FairSpec
CONSTANTS
    u1 = u1
    u2 = u2
    User = {u1, u2}
    Nobody = Nobody
    NoLogin = NoLogin
    Setting <- AloneOrShared
    Account <- WithEmail
    LoginTimeout = 0
    MaxTime = 1
    MaxElsewhere = 1
PROPERTIES AddressesChecked SecondFactorChecked CodeChecked RedirectsEnd
