---------------------------- MODULE MCAgentTurn ----------------------------
(***************************************************************************)
(* Small instances of AgentTurn for TLC: which calls the model may emit    *)
(* and which permissions apply.                                            *)
(***************************************************************************)
EXTENDS AgentTurn

Call(kind, target, content, rest) ==
  [kind |-> kind, target |-> target, content |-> content, rest |-> rest,
   batch |-> FALSE]

Batch == [kind |-> "agent", target |-> "-", content |-> "-", rest |-> "t",
          batch |-> TRUE]

Read(page) == Call("read_file", "a", "-", page)
WriteA == Call("write_file", "a", "x", "-")
RunIt == Call("run_command", "make", "-", "-")
Delegate == Call("agent", "-", "-", "t")
PlanIt == Call("plan", "-", "-", "p")
AskUser == Call("ask", "-", "-", "q")
Finish == Call("final", "-", "-", "m")

(* main.c:2902-2908: the gated tools ask, the read-only ones are allowed.  *)
DefaultPerm ==
  [k \in Kinds |-> IF k \in {"write_file", "edit", "run_command", "screenshot",
                             "fetch", "websearch", "agent"}
                   THEN "ask" ELSE "allow"]

(* config "permission": {"run_command": "deny"}.                           *)
NoShellPerm == [DefaultPerm EXCEPT !["run_command"] = "deny"]

(* config "permission": {"run_command": "deny", "agent": "deny"}.          *)
StrictPerm == [NoShellPerm EXCEPT !["agent"] = "deny"]

TurnCalls == {WriteA, RunIt, Delegate, Batch, AskUser}
PrintCalls == {PlanIt, AskUser, WriteA, Delegate, Batch, Finish}
PagingCalls == {Read("1"), Read("2")}
=============================================================================
