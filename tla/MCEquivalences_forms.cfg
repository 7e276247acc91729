\* Two people and two lists over three forms: two of them the same one, one seeded.
CONSTANTS
    f1 = f1  f2 = f2  f3 = f3  k1 = k1  k2 = k2
    None = None
    NotListed = NotListed
    Forms = {f1, f2, f3}
    Keys = {k1, k2}
    KeyOf <- Mixed
    Seeded <- Third
    Products = {p1}
    Rubros = {r1}
    People = {u1, u2}
    MaxCases = 2
    MaxRules = 3
    MaxLists = 2
SPECIFICATION Spec
SYMMETRY Interchangeable
INVARIANTS
    NothingLost
    CaseFollowsRule
    AliasFollowsRule
PROPERTY
    RevokedSeedsGoBack
