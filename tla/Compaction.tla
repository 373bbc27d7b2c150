----------------------------- MODULE Compaction -----------------------------
(***************************************************************************)
(* How a conversation is kept inside the context window: the render-and-   *)
(* shrink loop of agent_session_run_turn (core/agent.c), history_shrink    *)
(* (core/prompt.c) one step at a time, /compact, /model and /new of        *)
(* main.c, and the measured chars-per-token ratio the budget rests on.     *)
(*                                                                         *)
(* A text is its two sizes, [chars, toks]: the program sees the characters *)
(* and has to guess the tokens.  The local backend refuses a prompt of     *)
(* more tokens than the window (infer_llama.cpp:491).                      *)
(***************************************************************************)
EXTENDS Integers, Sequences

CONSTANTS
  Texts,        \* what a user, the model or a tool may say
  Overhead,     \* system prompt, few-shot and AGENTS.md, rendered every time
  Windows,      \* the context sizes /model may bring, in tokens
  MaxItems      \* bound of the model: messages in the history

IsText(t) == DOMAIN t = {"chars", "toks"} /\ t.chars \in Nat /\ t.toks \in Nat

ASSUME CompactionAssumption ==
  /\ \A t \in Texts : IsText(t)
  /\ IsText(Overhead)
  /\ Windows # {} /\ Windows \subseteq Nat
  /\ MaxItems \in Nat

VARIABLES
  h,        \* the history: role, is it a call, is it tagged, text, elided
  said,     \* history variable: the text each message came with
  phase,    \* "idle", "prepare", "generate", "act" or "compact"
  ratio,    \* chars_per_tok, in twentieths
  window    \* cfg->ctx_tokens

vars == <<h, said, phase, ratio, window>>

ElidedNote == [chars |-> 42, toks |-> 9]
KeepRecent == 2
MinLen == 400

(* The first 200 characters and the note that the rest is gone.            *)
Cut(t) == [chars |-> 246, toks |-> (200 * t.toks) \div t.chars + 10]

Long(t) == t.chars >= MinLen
Empty == [chars |-> 0, toks |-> 0]
Kept == Texts \cup {Empty, ElidedNote} \cup {Cut(t) : t \in {u \in Texts : Long(u)}}
Roles == {"user", "assistant", "tool"}
Message ==
  [role : Roles, call : BOOLEAN, tag : BOOLEAN, text : Kept, elided : BOOLEAN]

(* A call comes in the <tool_call> tag or, as toolcall_parse takes it too, *)
(* as bare JSON.                                                           *)
Fresh(role, call, tag, t) ==
  [role |-> role, call |-> call, tag |-> tag, text |-> t, elided |-> FALSE]

HistoryOK ==
  /\ h \in Seq(Message)
  /\ said \in Seq(Texts \cup {Empty})
  /\ Len(said) = Len(h)

TypeOK ==
  /\ HistoryOK
  /\ phase \in {"idle", "prepare", "generate", "act", "compact"}
  /\ ratio \in 50 .. 84
  /\ window \in Windows

Init ==
  /\ h = <<>>
  /\ said = <<>>
  /\ phase = "idle"
  /\ ratio = 60
  /\ window \in Windows

-----------------------------------------------------------------------------
(* The prompt is rendered message after message.                           *)
Total(sizes) ==
  LET upTo[n \in 0 .. Len(sizes)] == IF n = 0 THEN 0 ELSE upTo[n - 1] + sizes[n]
  IN upTo[Len(sizes)]

Chars == Overhead.chars + Total([i \in 1 .. Len(h) |-> h[i].text.chars])
Toks == Overhead.toks + Total([i \in 1 .. Len(h) |-> h[i].text.toks])

(* Mutant of Budget: nothing is left for the generation.                   *)
BudgetUnreserved == (window * ratio) \div 20

(* A quarter of the window is left for the generation.                     *)
Budget == ((window - window \div 4) * ratio) \div 20
Limit == IF phase = "compact" THEN Budget \div 2 ELSE Budget

(* history_shrink, least loss first: the messages each tier may rewrite.   *)
OldResults ==
  {i \in 2 .. Len(h) - KeepRecent : h[i].role = "tool" /\ ~h[i].elided}

(* Mutant of LongMessages: a tool call is as good as any message.          *)
LongMessagesAll ==
  {i \in 2 .. Len(h) - KeepRecent : ~h[i].elided /\ Long(h[i].text)}

LongMessages ==
  {i \in 2 .. Len(h) - KeepRecent :
     ~h[i].elided /\ ~h[i].tag /\ Long(h[i].text)}

Results == {i \in 2 .. Len(h) : h[i].role = "tool" /\ ~h[i].elided}

Oldest(i, S) == i \in S /\ \A j \in S : i <= j

(* Mutant of Rewrite: the message is not marked.                           *)
RewriteUnmarked(i, t) == h' = [h EXCEPT ![i].text = t]

Rewrite(i, t) == h' = [h EXCEPT ![i].text = t, ![i].elided = TRUE]

ElideOldResult == \E i \in OldResults : Oldest(i, OldResults) /\ Rewrite(i, ElidedNote)

CutLongMessage ==
  /\ OldResults = {}
  /\ \E i \in LongMessages : Oldest(i, LongMessages) /\ Rewrite(i, Cut(h[i].text))

ElideRecentResult ==
  /\ OldResults = {} /\ LongMessages = {}
  /\ \E i \in Results : Oldest(i, Results) /\ Rewrite(i, ElidedNote)

NothingLeft == OldResults = {} /\ LongMessages = {} /\ Results = {}

(* Mutant of ShrinkStep: the results go before anything else is tried.     *)
ShrinkStepResultsFirst ==
  /\ phase \in {"prepare", "compact"}
  /\ Chars > Limit
  /\ \/ \E i \in Results : Oldest(i, Results) /\ Rewrite(i, ElidedNote)
     \/ Results = {} /\ CutLongMessage
  /\ UNCHANGED <<said, phase, ratio, window>>

(* One turn of the render-and-shrink loop that has to shrink: the loop of  *)
(* run_turn, or the one of /compact with half its budget.                  *)
ShrinkStep ==
  /\ phase \in {"prepare", "compact"}
  /\ Chars > Limit
  /\ ElideOldResult \/ CutLongMessage \/ ElideRecentResult
  /\ UNCHANGED <<said, phase, ratio, window>>

LoopDone == Chars <= Limit \/ NothingLeft

Send ==
  /\ phase = "prepare"
  /\ LoopDone
  /\ phase' = "generate"
  /\ UNCHANGED <<h, said, ratio, window>>

CompactDone ==
  /\ phase = "compact"
  /\ LoopDone
  /\ phase' = "idle"
  /\ UNCHANGED <<h, said, ratio, window>>

-----------------------------------------------------------------------------
Push(m) ==
  /\ Len(h) < MaxItems
  /\ h' = Append(h, m)
  /\ said' = Append(said, m.text)

UserTurn(t) ==
  /\ phase = "idle"
  /\ Push(Fresh("user", FALSE, FALSE, t))
  /\ phase' = "prepare"
  /\ UNCHANGED <<ratio, window>>

(* The ratio this prompt had, less five percent, within its clamps.        *)
Measured ==
  LET r == (19 * Chars) \div Toks IN
  IF Toks > 200 THEN (IF r < 50 THEN 50 ELSE IF r > 84 THEN 84 ELSE r) ELSE ratio

(* A generate that worked; the model calls a tool, or tries to, or it      *)
(* replies, which ends the turn unless the loop nudges it (a UserTurn).    *)
Generated(call, tag, t) ==
  /\ phase = "generate"
  /\ Toks <= window
  /\ tag => call
  /\ ratio' = Measured
  /\ Push(Fresh("assistant", call, tag, t))
  /\ phase' = IF call THEN "act" ELSE "idle"
  /\ UNCHANGED window

(* The prompt was refused: an empty reply, and nothing is measured.        *)
GenerateFailed ==
  /\ phase = "generate"
  /\ Toks > window
  /\ Push(Fresh("assistant", FALSE, FALSE, Empty))
  /\ phase' = "idle"
  /\ UNCHANGED <<ratio, window>>

(* Ctrl+C: the output is dropped, but a prompt that was accepted has been  *)
(* measured.                                                               *)
Interrupted ==
  /\ phase = "generate"
  /\ ratio' = IF Toks <= window THEN Measured ELSE ratio
  /\ phase' = "idle"
  /\ UNCHANGED <<h, said, window>>

ToolAnswers(t) ==
  /\ phase = "act"
  /\ Push(Fresh("tool", FALSE, FALSE, t))
  /\ phase' = "prepare"
  /\ UNCHANGED <<ratio, window>>

Compact ==
  /\ phase = "idle"
  /\ phase' = "compact"
  /\ UNCHANGED <<h, said, ratio, window>>

SwitchModel(w) ==
  /\ phase = "idle"
  /\ window' = w
  /\ UNCHANGED <<h, said, phase, ratio>>

(* /new: the ratio survives, the history does not.                         *)
NewConversation ==
  /\ phase = "idle"
  /\ h' = <<>>
  /\ said' = <<>>
  /\ UNCHANGED <<phase, ratio, window>>

Shrinking == ShrinkStep \/ Send \/ CompactDone

Terminated == Len(h) = MaxItems /\ UNCHANGED vars

Next ==
  \/ Shrinking
  \/ \E t \in Texts :
       \/ UserTurn(t)
       \/ ToolAnswers(t)
       \/ \E call, tag \in BOOLEAN : Generated(call, tag, t)
  \/ GenerateFailed \/ Interrupted \/ Compact \/ NewConversation
  \/ \E w \in Windows : SwitchModel(w)
  \/ Terminated

(* The loop runs on by itself; nothing is assumed of anyone else.          *)
Spec == Init /\ [][Next]_vars /\ WF_vars(Shrinking)

-----------------------------------------------------------------------------
(* Properties *)

(* The tagged "assistant tool calls (the flow needs them)" and "the        *)
(* original task" survive any number of compactions, /compact, model       *)
(* switches and turns word for word (prompt.c history_shrink).             *)
TaskAndCallsIntact ==
  \A i \in DOMAIN h : i = 1 \/ h[i].tag => h[i].text = said[i]

(* What the model has just been told goes last: one of the two newest      *)
(* messages is rewritten only when every older message that may be cut is  *)
(* cut already (prompt.c "(3) Last resort").                               *)
FreshestGoesLast ==
  [][h' # <<>> =>
       \A i \in DOMAIN h :
         i > Len(h) - KeepRecent /\ h'[i] # h[i] =>
           \A j \in 2 .. Len(h) - KeepRecent :
             h[j].elided \/ (h[j].role # "tool" /\ (h[j].tag \/ ~Long(h[j].text)))]_vars

(* A prompt inside the budget is inside the window, quarter for the        *)
(* generation apart: the reserve, the margin and the clamps cover what the *)
(* texts may deviate from the last measurement (agent.c:289-300, 352-366). *)
BudgetFitsWindow == phase = "generate" /\ Chars <= Budget => Toks <= window

(* The loop ends, also for a session nothing more can be cut from.         *)
LoopsEnd == phase \in {"prepare", "compact"} ~> phase \in {"generate", "idle"}
=============================================================================
