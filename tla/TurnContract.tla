---------------------------- MODULE TurnContract ----------------------------
(***************************************************************************)
(* What a caller of agent_session_run_turn may rely on, with no tool, no   *)
(* history and no sub-agent in sight: a turn takes at most MaxIters steps, *)
(* and it ends in exactly one of four ways.  AgentTurn implements this     *)
(* specification (AgentTurn!Contract).                                     *)
(***************************************************************************)
EXTENDS Naturals

CONSTANT MaxIters      \* cfg->max_iters, "hard cap on loop turns"

VARIABLES
  phase,        \* "idle": at the prompt; "working": in a turn; "dead"
  steps,        \* loop iterations the turn has completed
  interrupt,    \* the Ctrl+C flag
  how           \* how the last turn ended

vars == <<phase, steps, interrupt, how>>

Endings == {"replied", "final", "capped", "interrupted"}

TypeOK ==
  /\ phase \in {"idle", "working", "dead"}
  /\ steps \in 0 .. MaxIters
  /\ interrupt \in BOOLEAN
  /\ how \in Endings \cup {"none"}

Init ==
  /\ phase = "idle"
  /\ steps = 0
  /\ interrupt = FALSE
  /\ how = "none"

Begin ==                      \* a new turn forgets an earlier Ctrl+C
  /\ phase = "idle"
  /\ phase' = "working"
  /\ interrupt' = FALSE
  /\ UNCHANGED <<steps, how>>

Step ==                       \* one generation answered, the turn goes on
  /\ phase = "working"
  /\ steps < MaxIters
  /\ steps' = steps + 1
  /\ UNCHANGED <<phase, interrupt, how>>

End(ending) ==
  /\ phase = "working"
  /\ phase' = "idle"
  /\ steps' = 0
  /\ interrupt' = FALSE
  /\ how' = ending

Answer ==                     \* only a generation can answer
  /\ steps < MaxIters
  /\ \/ End("replied")
     \/ End("final")

Cap ==                        \* only a spent budget caps a turn
  /\ steps = MaxIters
  /\ ~interrupt
  /\ End("capped")

Stop ==                       \* only the user interrupts it
  /\ interrupt
  /\ End("interrupted")

Press ==
  /\ phase # "dead"
  /\ IF interrupt
       THEN /\ phase' = "dead"
            /\ UNCHANGED interrupt
       ELSE /\ interrupt' = TRUE
            /\ UNCHANGED phase
  /\ UNCHANGED <<steps, how>>

Next == Begin \/ Step \/ Answer \/ Cap \/ Stop \/ Press

Spec == Init /\ [][Next]_vars
=============================================================================
