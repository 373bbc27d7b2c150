----------------------------- MODULE MCSession -----------------------------
(***************************************************************************)
(* Small instances of Session for TLC: a clock that goes forward.          *)
(***************************************************************************)
EXTENDS Session

Forward == [t \in 0 .. 1 |-> t]
=============================================================================
