----------------------------- MODULE MCInitTool ------------------------------
EXTENDS InitTool, TLC

CONSTANTS home, office, s1, s2

MCFactory == [s \in Settings |-> home]

\* Two complete forms, and one with an empty field.
MCForms ==
    {MCFactory, [s \in Settings |-> office],
      [MCFactory EXCEPT !["SERVER_NAME"] = Empty]}
Symmetry == Permutations({s1, s2})
=============================================================================
