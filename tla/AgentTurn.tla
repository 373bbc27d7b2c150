----------------------------- MODULE AgentTurn -----------------------------
(***************************************************************************)
(* One conversation of core/agent.c: agent_session_run_turn as the REPL of *)
(* main.c drives it, the in-process sub-agent it may call, the user at the *)
(* permission gate and at the `ask` prompt, and the SIGINT flag of         *)
(* core/interrupt.c that any moment may raise.                             *)
(*                                                                         *)
(* The model's text is data: an output is a plain reply (that may announce *)
(* an action it does not take), a botched call, or a call of Calls.  What  *)
(* a tool does to the files is module FileStore's subject; here a dispatch *)
(* succeeds or fails.  Rendering and compaction are module Compaction's.   *)
(***************************************************************************)
EXTENDS Integers, Sequences

CONSTANTS
  Calls,        \* the tool calls the model may emit
  Perm,         \* cfg->tool_perm: "ask", "allow" or "deny" per tool
  MaxIters,     \* cfg->max_iters
  PlanEnabled,  \* cfg->plan_enabled (--plan)
  BaseDepth,    \* cfg->depth of the session: 1 in a spawned child process
  Mode,         \* who is at the terminal: see Modes
  MaxTurns      \* bound of the model: turns the user starts

Kinds == {"read_file", "write_file", "list_dir", "run_command", "edit",
          "search", "glob", "screenshot", "fetch", "websearch", "agent",
          "ask", "plan", "final"}

(* `target` stands for the path or the command, `content` for the content  *)
(* whose hash is signed, `rest` for every other argument (offset, find,    *)
(* pattern, url, query, task), and `batch` tells agent's {"tasks": [...]}. *)
CallShape(c) ==
  /\ DOMAIN c = {"kind", "target", "content", "rest", "batch"}
  /\ c.kind \in Kinds
  /\ c.batch \in BOOLEAN

Modes == {"repl",      \* interactive: the gate asks
          "yolo",      \* gate bypassed, the user still answers `ask`
          "print"}     \* -p: the gate is the invocation, on_ask is NULL

ASSUME TurnAssumption ==
  /\ \A c \in Calls : CallShape(c)
  /\ Perm \in [Kinds -> {"ask", "allow", "deny"}]
  /\ MaxIters \in Nat
  /\ PlanEnabled \in BOOLEAN
  /\ BaseDepth \in {0, 1}
  /\ Mode \in Modes
  /\ MaxTurns \in Nat

VARIABLES
  top,         \* the running frame: 0 the user's turn, 1 its sub-agent, or Idle
  frame,       \* the locals of run_turn, per frame
  hist,        \* the roles of each session's history, oldest first
  interrupt,   \* interrupt.c: g_flag
  killed,      \* the second Ctrl+C went to the default handler
  turns,       \* turns the user has started
  late,        \* history variable: tools run since the flag was raised
  ran,         \* history variable: the calls whose tool ran, each with its
               \* place in a series of identical calls
  last         \* history variable: how the last turn ended

vars == <<top, frame, hist, interrupt, killed, turns, late, ran, last>>

Idle == -1
Levels == {0, 1}

NoCall == [kind |-> "none"]
NoOut == [form |-> "none"]

Plain == [form : {"text"}, intent : BOOLEAN]
Botched == [form |-> "botched"]
Outputs == Plain \cup {Botched} \cup [form : {"call"}, call : Calls]

(* tc_signature: the kind, the path or command, the hash of the content.   *)
Signature(c) == <<c.kind, c.target, c.content>>
NoSig == <<>>
Signatures == {Signature(c) : c \in Calls} \cup {NoSig}

(* The locals of run_turn.  intents, recovers, streak and lastCall are     *)
(* history variables: the nudges sent by reason, and the length of the     *)
(* current series of identical calls.                                      *)
NewFrame ==
  [pc |-> "head", iter |-> 0, out |-> NoOut, nudges |-> 0, unsaved |-> FALSE,
   repeat |-> 0, lastSig |-> NoSig, plan |-> FALSE, replans |-> 0,
   intents |-> 0, recovers |-> 0, streak |-> 0, lastCall |-> NoCall]

FrameType ==
  [pc : {"head", "gen", "act", "confirm", "ask"}, iter : 0 .. MaxIters,
   out : Outputs \cup {NoOut}, nudges : 0 .. 4, unsaved : BOOLEAN,
   repeat : Nat, lastSig : Signatures,
   plan : BOOLEAN, replans : Nat, intents : Nat, recovers : Nat,
   streak : Nat, lastCall : Calls \cup {NoCall}]

NoTurn == [how |-> "none", unsaved |-> FALSE, recovers |-> 0]

LastType ==
  [how : {"none", "replied", "final", "capped", "interrupted"},
   unsaved : BOOLEAN, recovers : Nat]

Roles == {"user", "assistant", "tool"}

(* Type invariant: every local stays in its range, in particular the loop  *)
(* counter never passes max_iters and a turn is nudged at most four times. *)
TypeOK ==
  /\ top \in Levels \cup {Idle}
  /\ frame \in [Levels -> FrameType]
  /\ hist \in [Levels -> Seq(Roles)]
  /\ interrupt \in BOOLEAN
  /\ killed \in BOOLEAN
  /\ turns \in 0 .. MaxTurns
  /\ late \in Nat
  /\ ran \subseteq [call : Calls, streak : Nat]
  /\ last \in LastType

Init ==
  /\ top = Idle
  /\ frame = [l \in Levels |-> NewFrame]
  /\ hist = [l \in Levels |-> <<>>]
  /\ interrupt = FALSE
  /\ killed = FALSE
  /\ turns = 0
  /\ late = 0
  /\ ran = {}
  /\ last = NoTurn

-----------------------------------------------------------------------------
(* Vocabulary of the loop body. *)

At(pc) == ~killed /\ top # Idle /\ frame[top].pc = pc
Out == frame[top].out
Acting(form) == At("act") /\ Out.form = form
Calling(kinds) == Acting("call") /\ Out.call.kind \in kinds

Goto(pc) == frame' = [frame EXCEPT ![top].pc = pc]
NextIter(f) == [f EXCEPT !.pc = "head", !.iter = @ + 1, !.out = NoOut]
Continue(f) == frame' = [frame EXCEPT ![top] = NextIter(f)]
Push(role) == hist' = [hist EXCEPT ![top] = Append(@, role)]

Quiet == UNCHANGED <<top, interrupt, killed, turns, late, ran, last>>

(* Every refusal answers the call with a tool result and loops.            *)
Refuse(f) == Continue(f) /\ Push("tool") /\ Quiet

(* run_turn returns: to the REPL, which clears the flag for the next       *)
(* prompt, or to the parent's loop, which records the child's report.      *)
ReturnToRepl(how) ==
  /\ top = 0
  /\ top' = Idle
  /\ frame' = [frame EXCEPT ![0] = NewFrame]
  /\ interrupt' = FALSE
  /\ late' = 0
  /\ last' = [how |-> how, unsaved |-> frame[0].unsaved, recovers |-> frame[0].recovers]
  /\ UNCHANGED <<hist, killed, turns, ran>>

ReturnToParent ==
  /\ top = 1
  /\ top' = 0
  /\ frame' = [l \in Levels |-> IF l = 0 THEN NextIter(frame[0]) ELSE NewFrame]
  /\ hist' = [l \in Levels |-> IF l = 0 THEN Append(hist[0], "tool") ELSE <<>>]
  /\ UNCHANGED <<interrupt, killed, turns, late, ran, last>>

Return(how) == ReturnToRepl(how) \/ ReturnToParent

-----------------------------------------------------------------------------
(* The user and the signal. *)

StartTurn ==
  /\ top = Idle
  /\ ~killed
  /\ turns < MaxTurns
  /\ turns' = turns + 1
  /\ top' = 0
  /\ frame' = [frame EXCEPT ![0] = NewFrame]
  /\ hist' = [hist EXCEPT ![0] = Append(@, "user")]
  /\ interrupt' = FALSE
  /\ late' = 0
  /\ UNCHANGED <<killed, ran, last>>

Sigint ==
  /\ ~killed
  /\ IF interrupt
       THEN /\ killed' = TRUE
            /\ UNCHANGED interrupt
       ELSE /\ interrupt' = TRUE
            /\ UNCHANGED killed
  /\ UNCHANGED <<top, frame, hist, turns, late, ran, last>>

-----------------------------------------------------------------------------
(* One iteration: generate, then talk or act. *)

(* Mutant of BeginIteration: one iteration too many.                       *)
BeginIterationOffByOne ==
  /\ At("head")
  /\ frame[top].iter <= MaxIters
  /\ Goto("gen")
  /\ UNCHANGED hist
  /\ Quiet

BeginIteration ==
  /\ At("head")
  /\ frame[top].iter < MaxIters
  /\ Goto("gen")
  /\ UNCHANGED hist
  /\ Quiet

(* Mutant of LoopExhausted: Ctrl+C in the last tool is taken for the cap.  *)
LoopExhaustedBlind ==
  /\ At("head")
  /\ frame[top].iter >= MaxIters
  /\ Return("capped")

LoopExhausted ==
  /\ At("head")
  /\ frame[top].iter >= MaxIters
  /\ Return(IF interrupt THEN "interrupted" ELSE "capped")

GenerateAborted ==            \* the partial output is dropped
  /\ At("gen")
  /\ interrupt
  /\ Return("interrupted")

(* Mutant of GenerateDone: the flag is not looked at after a generate.     *)
GenerateDoneUnchecked ==
  /\ At("gen")
  /\ \E out \in Outputs :
       frame' = [frame EXCEPT ![top].pc = "act", ![top].out = out]
  /\ Push("assistant")
  /\ Quiet

GenerateDone ==
  /\ At("gen")
  /\ ~interrupt
  /\ \E out \in Outputs :
       frame' = [frame EXCEPT ![top].pc = "act", ![top].out = out]
  /\ Push("assistant")
  /\ Quiet

(* Mutant of BotchedCall: a botched call is regenerated at no cost.        *)
BotchedCallRetried ==
  /\ Acting("botched")
  /\ frame' = [frame EXCEPT ![top].pc = "gen", ![top].out = NoOut]
  /\ hist' = [hist EXCEPT ![top] = SubSeq(@, 1, Len(@) - 1)]
  /\ Quiet

BotchedCall ==
  /\ Acting("botched")
  /\ Refuse(frame[top])

-----------------------------------------------------------------------------
(* TALK: nudge a reply that should have been an action, or end the turn.   *)

(* Mutant of NudgeCap: no nudge is reserved for an unsaved write.          *)
NudgeCapUnreserved(f) == IF f.plan THEN 4 ELSE 2

NudgeCap(f) == IF f.plan THEN 4 ELSE IF f.unsaved THEN 3 ELSE 2

ShouldNudge(f) ==
  /\ f.plan \/ f.unsaved \/ f.out.intent
  /\ f.nudges < NudgeCap(f)

Nudge ==
  LET f == frame[top] IN
  /\ Acting("text")
  /\ ShouldNudge(f)
  /\ Continue([f EXCEPT !.nudges = @ + 1,
                        !.recovers = IF f.unsaved THEN @ + 1 ELSE @,
                        !.intents = IF f.unsaved \/ f.plan THEN @ ELSE @ + 1])
  /\ Push("user")
  /\ Quiet

PlainReply ==
  /\ Acting("text")
  /\ ~ShouldNudge(frame[top])
  /\ Return("replied")

-----------------------------------------------------------------------------
(* ACT: the tools the loop itself implements. *)

Final ==
  /\ Calling({"final"})
  /\ Return("final")

RecordPlan ==
  LET f == frame[top] IN
  /\ PlanEnabled
  /\ top = 0                               \* a child's plan_enabled is 0
  /\ Calling({"plan"})
  /\ ~f.plan
  /\ Refuse([f EXCEPT !.plan = TRUE, !.nudges = 0])

RejectReplan ==                            \* the second one drops the plan
  LET f == frame[top] IN
  /\ PlanEnabled
  /\ top = 0
  /\ Calling({"plan"})
  /\ f.plan
  /\ Refuse([f EXCEPT !.replans = @ + 1, !.plan = f.replans + 1 < 2])

(* Mutant of Ask: the question is asked whether or not anybody is there.   *)
AskBlocks ==
  /\ Calling({"ask"})
  /\ Goto("ask")
  /\ UNCHANGED hist
  /\ Quiet

Ask ==
  /\ Calling({"ask"})
  /\ IF Mode = "print"
       THEN Refuse(frame[top])
       ELSE Goto("ask") /\ UNCHANGED hist /\ Quiet

(* Mutant of AskAnswered: an EOF at the question leaves it unanswered.     *)
AskAbandoned ==
  /\ At("ask")
  /\ Continue(frame[top])
  /\ UNCHANGED hist
  /\ Quiet

AskAnswered ==                             \* with a line, or with EOF
  /\ At("ask")
  /\ Refuse(frame[top])

Depth == BaseDepth + top

AgentTooDeep ==
  /\ Calling({"agent"})
  /\ Depth >= 1
  /\ Refuse(frame[top])

BatchDenied ==
  /\ Calling({"agent"})
  /\ Depth < 1
  /\ Out.call.batch
  /\ Perm["agent"] = "deny"
  /\ Refuse(frame[top])

Gated(c) == Perm[c.kind] = "ask" /\ Mode = "repl"

(* A tool runs, as the streak-th of a series of identical calls.           *)
Ran(c, streak) ==
  /\ ran' = ran \cup {[call |-> c, streak |-> streak]}
  /\ late' = IF interrupt THEN late + 1 ELSE late
  /\ UNCHANGED <<top, interrupt, killed, turns, last>>

(* agent_run_parallel: the processes run, the combined report comes back.  *)
RunBatch(c) ==
  /\ Continue(frame[top])
  /\ Push("tool")
  /\ Ran(c, 0)

BatchRun ==
  /\ Calling({"agent"})
  /\ Depth < 1
  /\ Out.call.batch
  /\ Perm["agent"] # "deny"
  /\ IF Gated(Out.call)
       THEN Goto("confirm") /\ UNCHANGED hist /\ Quiet
       ELSE RunBatch(Out.call)

SpawnChild ==
  /\ Calling({"agent"})
  /\ Depth < 1
  /\ ~Out.call.batch
  /\ top' = 1
  /\ frame' = [frame EXCEPT ![1] = NewFrame]
  /\ hist' = [hist EXCEPT ![1] = <<"user">>]
  /\ ran' = ran \cup {[call |-> Out.call, streak |-> 0]}
  /\ UNCHANGED <<interrupt, killed, turns, late, last>>

-----------------------------------------------------------------------------
(* ACT: the generic tools, behind the repeat guard and the permissions.    *)

Own == {"final", "ask", "agent"} \cup (IF PlanEnabled /\ top = 0 THEN {"plan"} ELSE {})

(* Mutant of Guarded: the first call of a series is not counted.           *)
GuardedFromZero(f, c) ==
  [f EXCEPT !.repeat = IF f.lastSig = Signature(c) THEN @ + 1 ELSE 0,
            !.lastSig = Signature(c),
            !.streak = IF f.lastCall = c THEN @ + 1 ELSE 1,
            !.lastCall = c]

(* The frame after the repeat guard has looked at call c.                  *)
Guarded(f, c) ==
  [f EXCEPT !.repeat = IF f.lastSig = Signature(c) THEN @ + 1 ELSE 1,
            !.lastSig = Signature(c),
            !.streak = IF f.lastCall = c THEN @ + 1 ELSE 1,
            !.lastCall = c]

RepeatLimit == 3

RepeatRefused ==
  LET f == Guarded(frame[top], Out.call) IN
  /\ Calling(Kinds \ Own)
  /\ f.repeat >= RepeatLimit
  /\ Refuse(f)

PolicyDenied ==
  LET f == Guarded(frame[top], Out.call) IN
  /\ Calling(Kinds \ Own)
  /\ f.repeat < RepeatLimit
  /\ Perm[Out.call.kind] = "deny"
  /\ Refuse(f)

Wrote(f, ok) == [f EXCEPT !.unsaved = ~ok]

(* tools_dispatch and what the loop does with its ok flag; "plan" without  *)
(* --plan is not dispatchable.                                             *)
Dispatch(f, c) ==
  /\ IF c.kind \in {"write_file", "edit"}
       THEN \E ok \in BOOLEAN : Continue(Wrote(f, ok))
       ELSE Continue(f)
  /\ Push("tool")
  /\ Ran(c, f.streak)

(* Mutant of ToolCall: only the gate is consulted, not the policy.         *)
ToolCallUnpoliced ==
  LET f == Guarded(frame[top], Out.call) IN
  /\ Calling(Kinds \ Own)
  /\ f.repeat < RepeatLimit
  /\ IF Gated(Out.call)
       THEN /\ frame' = [frame EXCEPT ![top] = [f EXCEPT !.pc = "confirm"]]
            /\ UNCHANGED hist
            /\ Quiet
       ELSE Dispatch(f, Out.call)

ToolCall ==
  LET f == Guarded(frame[top], Out.call) IN
  /\ Calling(Kinds \ Own)
  /\ f.repeat < RepeatLimit
  /\ Perm[Out.call.kind] # "deny"
  /\ IF Gated(Out.call)
       THEN /\ frame' = [frame EXCEPT ![top] = [f EXCEPT !.pc = "confirm"]]
            /\ UNCHANGED hist
            /\ Quiet
       ELSE Dispatch(f, Out.call)

GateDeclined ==
  /\ At("confirm")
  /\ Refuse(frame[top])

GateAccepted ==
  /\ At("confirm")
  /\ IF Out.call.kind = "agent"
       THEN RunBatch(Out.call)
       ELSE Dispatch(frame[top], Out.call)

-----------------------------------------------------------------------------
Program ==
  \/ BeginIteration \/ LoopExhausted \/ GenerateAborted \/ GenerateDone
  \/ BotchedCall \/ Nudge \/ PlainReply \/ Final \/ RecordPlan \/ RejectReplan
  \/ Ask \/ AgentTooDeep \/ BatchDenied \/ BatchRun \/ SpawnChild
  \/ RepeatRefused \/ PolicyDenied \/ ToolCall

User == StartTurn \/ AskAnswered \/ GateDeclined \/ GateAccepted

(* The model's end: the process is gone or the user has left the prompt.   *)
Terminated ==
  /\ killed \/ (top = Idle /\ turns = MaxTurns)
  /\ UNCHANGED vars

Next == Program \/ User \/ Sigint \/ Terminated

(* The program keeps running (a generate returns: every backend bounds its *)
(* output and its waits); nothing is assumed of the user.                  *)
Spec == Init /\ [][Next]_vars /\ WF_vars(Program)

-----------------------------------------------------------------------------
(* Properties *)

(* The conversation every backend is sent is well formed, whatever mix of  *)
(* nudges, refusals, sub-agents, interrupts and caps built it: it opens    *)
(* with the user, a tool result answers the assistant message before it,   *)
(* and two assistant messages are never adjacent (core/agent.c run_turn).  *)
WellFormed(h) ==
  /\ h # <<>> => h[1] = "user"
  /\ \A i \in 1 .. Len(h) - 1 :
       /\ h[i] = "assistant" => h[i + 1] # "assistant"
       /\ h[i + 1] = "tool" => h[i] = "assistant"

HistoryWellFormed == \A l \in Levels : WellFormed(hist[l])

(* Ctrl+C stops the agent: from the moment the flag is up, at most the one *)
(* call already decided runs, in the parent and its sub-agent together,    *)
(* although the flag is only read after a generate (agent.c:370).          *)
InterruptBounded == late <= 1

(* The recovery guard: without --plan, a turn never ends in a plain reply  *)
(* over an unsaved write unless the model was told at least once that the  *)
(* write did not land, although all nudges share one counter.              *)
UnsavedReplyWasChallenged ==
  ~PlanEnabled /\ last.how = "replied" /\ last.unsaved => last.recovers >= 1

(* The loop guard: a call that is identical in every argument to the two   *)
(* calls before it is never dispatched, at any depth (agent.c:610-625).    *)
IdenticalCallNeverRunsThrice == \A r \in ran : r.streak < RepeatLimit

(* The policy: a denied tool never runs, neither for the user's agent nor  *)
(* for the sub-agent that inherits its configuration; a batch of           *)
(* sub-agents counts as the agent tool.                                    *)
DeniedToolNeverRuns ==
  \A r \in ran : r.call.kind # "agent" \/ r.call.batch => Perm[r.call.kind] # "deny"

(* Nothing but the user keeps a turn from ending: the loop, its nudges and *)
(* its sub-agent come to rest at the prompt or at a question again.        *)
Resting == killed \/ top = Idle \/ At("confirm") \/ At("ask")

AlwaysComesToRest == []<>Resting

(* Without anybody at the terminal a turn ends by itself: that of a -p     *)
(* process and so of each child the parallel batch waits for, although the *)
(* model may ask, delegate or fan out (main.c:2936, agent.c:490-495).      *)
HeadlessTurnEnds == []<>(Mode = "print" => killed \/ top = Idle)

(* A turn keeps its contract: at most MaxIters iterations, "capped" only   *)
(* when they are spent, "interrupted" only after Ctrl+C.                   *)
Contract == INSTANCE TurnContract WITH
  phase <- IF killed THEN "dead" ELSE IF top = Idle THEN "idle" ELSE "working",
  steps <- frame[0].iter,
  how <- last.how

KeepsContract == Contract!Spec

-----------------------------------------------------------------------------
(* Statements of the repository's comments that the code does not keep.    *)

(* core/agent.c:610-612 "stop the model re-issuing the same failing call   *)
(* ... After 3 identical calls, intervene": what the guard refuses is a    *)
(* third identical call.                                                   *)
OnlyIdenticalCallsAreRefused ==
  [][RepeatRefused => frame'[top].streak >= RepeatLimit]_vars

=============================================================================
