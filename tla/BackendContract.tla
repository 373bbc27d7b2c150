-------------------------- MODULE BackendContract --------------------------
(***************************************************************************)
(* What infer_generate promises its caller of a backend that asks a        *)
(* server: no transport, no retry and no status in sight.  A call ends     *)
(* with one reply the server made for this very call, shown whole, or with *)
(* a failure and nothing shown; the usage it leaves behind is nothing or   *)
(* that reply's.  HostedBackend implements this (HostedBackend!Contract).  *)
(***************************************************************************)
EXTENDS Integers, Sequences

VARIABLES
  phase,      \* "idle" or "busy"
  replies,    \* what servers have answered to the last call: [ok, text]
  shown,      \* what on_token was given in the last call
  usage,      \* whose token counts last_usage reports: 0 is nobody's
  rc          \* what the last call returned

vars == <<phase, replies, shown, usage, rc>>

Init ==
  /\ phase = "idle"
  /\ replies = <<>>
  /\ shown = <<>>
  /\ usage = 0
  /\ rc = 0

Ask ==
  /\ phase = "idle"
  /\ phase' = "busy"
  /\ replies' = <<>>
  /\ shown' = <<>>
  /\ usage' = 0
  /\ UNCHANGED rc

Serve(reply) ==
  /\ phase = "busy"
  /\ replies' = Append(replies, reply)
  /\ UNCHANGED <<phase, shown, usage, rc>>

Reply(i) ==
  /\ phase = "busy"
  /\ phase' = "idle"
  /\ replies[i].ok
  /\ shown' = replies[i].text
  /\ usage' \in {0, i}
  /\ rc' = 0
  /\ UNCHANGED replies

Refuse ==
  /\ phase = "busy"
  /\ phase' = "idle"
  /\ usage' \in DOMAIN replies \cup {0}
  /\ rc' = -1
  /\ UNCHANGED <<replies, shown>>

Next(answers) ==
  \/ Ask
  \/ \E reply \in answers : Serve(reply)
  \/ \E i \in DOMAIN replies : Reply(i)
  \/ Refuse
=============================================================================
