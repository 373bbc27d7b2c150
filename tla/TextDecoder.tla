---------------------------- MODULE TextDecoder ----------------------------
(***************************************************************************)
(* What infer_generate promises of the local backend: the model reads the  *)
(* prompt it was given, all of it and nothing else, and writes from there; *)
(* no cache, no token, no earlier prompt in sight.  KvCache implements     *)
(* this specification (KvCache!Decoder).                                   *)
(***************************************************************************)
EXTENDS Sequences

CONSTANTS Prompts, Pieces     \* Pieces: the texts of the single tokens

VARIABLES
  phase,      \* "idle", "reading" the prompt or "writing" the reply
  prompt,     \* the prompt of the call
  seen        \* while writing, the text the next token follows from

vars == <<phase, prompt, seen>>

Init ==
  /\ phase = "idle"
  /\ prompt = <<>>
  /\ seen = <<>>

Ask(p) ==
  /\ phase = "idle"
  /\ phase' = "reading"
  /\ prompt' = p
  /\ UNCHANGED seen

Ready ==
  /\ phase = "reading"
  /\ phase' = "writing"
  /\ seen' = prompt
  /\ UNCHANGED prompt

Write(piece) ==
  /\ phase = "writing"
  /\ seen' = seen \o piece
  /\ UNCHANGED <<phase, prompt>>

Stop ==              \* done, out of room, interrupted, failed or killed
  /\ phase # "idle"
  /\ phase' = "idle"
  /\ prompt' = <<>>
  /\ seen' = <<>>

Next ==
  \/ \E p \in Prompts : Ask(p)
  \/ Ready
  \/ \E piece \in Pieces : Write(piece)
  \/ Stop

Spec == Init /\ [][Next]_vars
=============================================================================
