\* One person at a time, and the lists going on meanwhile.
CONSTANTS
    f1 = f1  f2 = f2  f3 = f3  k1 = k1  k2 = k2
    None = None
    NotListed = NotListed
    Forms = {f1}
    Keys = {k1}
    KeyOf <- One
    Seeded <- Nothing
    Products = {p1, p2}
    Rubros = {r1, r2}
    People = {u1}
    MaxCases = 2
    MaxRules = 2
    MaxLists = 2
SPECIFICATION Spec
SYMMETRY Interchangeable
INVARIANTS
    HandDecisionStands
