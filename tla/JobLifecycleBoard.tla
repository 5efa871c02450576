------------------------ MODULE JobLifecycleBoard ------------------------
(* The supervisor's life cycle implements the job board.                   *)
EXTENDS JobLifecycle

Board == INSTANCE JobBoard

\* Every step of dispatcher, agents, watchers and management is a move of the
\* board or leaves it as it is; in particular a job is set to done only by the
\* handler whose merge landed (finalizeMergingJob).
ImplementsBoard == Board!Spec
=============================================================================
