------------------------------ MODULE MCIngest ------------------------------
(***************************************************************************)
(* The two halves of an ingesting process, checked in one run: the batches *)
(* of the pipeline, and the write session of a run.  They share no state   *)
(* in the model; `part` is the half whose steps a behaviour takes.         *)
(***************************************************************************)
EXTENDS Pipeline

CONSTANTS t1, t2, t3

VARIABLES part,
          writeMode, state, inFlight, closed, drainFailed, seeding, publishing,
          touched, written, claimLatch, pc, landed, seeded, workspace,
          mpc, recorded, puts, docs, cpc

sessionVars == <<writeMode, state, inFlight, closed, drainFailed, seeding, publishing,
                 touched, written, claimLatch, pc, landed, seeded, workspace,
                 mpc, recorded, puts, docs, cpc>>

\* A pool batch shares a unit with a stray one; another stray has its own.
W == INSTANCE WriteSession WITH
    Threads <- {t1, t2, t3},
    Strays <- {t2, t3},
    Units <- {{t1, t2}, {t3}},
    WriteModes <- {"staged", "direct"},
    latch <- claimLatch,
    verdict <- recorded

ASSUME W!SessionAssumption

-----------------------------------------------------------------------------
(* One of the halves; the other one stays at an initial state.             *)

OfPipeline == part = "pipeline"
OfSession == part = "session"

MCInit ==
    /\ part \in {"pipeline", "session"}
    /\ Init /\ (OfSession => host = "append" /\ mode = "parallel")
    /\ W!Init /\ (OfPipeline => writeMode = "direct")

Runs == OfPipeline /\ Next /\ UNCHANGED sessionVars
Writes == OfSession /\ W!Next /\ UNCHANGED vars

MCNext == UNCHANGED part /\ (Runs \/ Writes)

MCVars == <<part, vars, sessionVars>>
MCSpec == MCInit /\ [][MCNext]_MCVars

\* The fairness of the half that moves: FairSpec of Pipeline and of WriteSession.
MCFairSpec ==
    /\ MCSpec
    /\ \A b \in Batches : WF_vars(OfPipeline /\ Worker(b))
    /\ WF_vars(OfPipeline /\ Main) /\ WF_vars(OfPipeline /\ HookUnlocks)
    /\ WF_sessionVars(OfSession /\ W!Batch(t1))
    /\ WF_sessionVars(OfSession /\ W!Main) /\ WF_sessionVars(OfSession /\ W!CloseStarts("run"))
    /\ \A c \in W!Closers : WF_sessionVars(OfSession /\ W!Close(c))

-----------------------------------------------------------------------------
(* The properties of the halves, each said of its own behaviours; the      *)
(* invariants of Pipeline hold in its initial states too.                  *)

\* The run of the pipeline ends; so does the one that owns the session, and whoever closes
\* it is answered.
RunsEnd ==
    /\ OfPipeline => RunEnds
    /\ OfSession => W!RunIsOver

\* SessionIsSound of WriteSession.
SessionIsSound ==
    /\ [](OfSession => W!SessionInvariant)
    /\ [][OfSession => W!SessionStep]_MCVars
=============================================================================
