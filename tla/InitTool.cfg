SPECIFICATION Spec
CONSTANTS
    home = home
    office = office
    s1 = s1
    s2 = s2
    Values = {home, office}
    Empty = Empty
    Torn = Torn
    Savers = {s1, s2}
    Factory <- MCFactory
    Forms <- MCForms
SYMMETRY Symmetry
INVARIANTS TypeOK CopiesAgree SavedMeansStored SessionUsesSaved
