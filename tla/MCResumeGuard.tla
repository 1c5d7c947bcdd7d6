--------------------------- MODULE MCResumeGuard ---------------------------
EXTENDS ResumeGuard, TLC

CONSTANTS g1, g2

\* Ranges that are equal, overlap in one slot and touch; a named group and all
\* groups; unranged runs with a time window, with slices and with a group (which
\* then does not bind them); every mode.
MCInvocations ==
    {Invocation(0, 2, TRUE, g1, FALSE, "a", "resume"),
     Invocation(2, 3, TRUE, g2, FALSE, "a", "force"),
     Invocation(1, 2, TRUE, AllGroups, FALSE, "a", "plain"),
     Invocation(1, 2, FALSE, g1, TRUE, "b", "plain"),
     Invocation(0, 1, FALSE, AllGroups, FALSE, "a", "plain"),
     Invocation(0, 1, FALSE, AllGroups, TRUE, "a", "resume")}

RunSymmetry == Permutations(Runs)

=============================================================================
