------------------------------ MODULE MCLedger ------------------------------
(* Loads of the ledger for TLC.                                            *)
EXTENDS Ledger

Load(runs, slots, kinds, serial, crashes, errors) ==
    [runs |-> runs, slots |-> slots, kinds |-> kinds,
     serial |-> serial, crashes |-> crashes, errors |-> errors]

\* Forced reingestions and deletions in turn, three runs on three slots, and two
\* that may fail; and two runs interleaved with crashes and errors.
InTurnAndTogether ==
    {Load({1, 2, 3}, {1, 2, 3}, {"force", "delete"}, TRUE, FALSE, FALSE),
     Load({1, 2}, {1, 2}, {"force", "delete"}, TRUE, TRUE, TRUE),
     Load({1, 2}, {1}, {"force", "delete"}, FALSE, TRUE, TRUE),
     Load({1, 2}, {1}, {"ingest"}, FALSE, TRUE, TRUE)}

\* Two plain runs in turn that may die.
WithCrashes == {Load({1, 2}, {1}, {"ingest"}, TRUE, TRUE, FALSE)}

\* Three forced runs in turn.
Reingestions == {Load({1, 2, 3}, {1, 2}, {"force"}, TRUE, FALSE, FALSE)}
=============================================================================
