-------------------------- MODULE AgentTurnProofs --------------------------
(***************************************************************************)
(* Proofs about AgentTurn, for every set of calls, every permission table, *)
(* every max_iters and every number of turns.                              *)
(***************************************************************************)
EXTENDS AgentTurn, TLAPS

-----------------------------------------------------------------------------
(* The inductive invariant, part by part. *)

CallOuts == [form : {"call"}, call : Calls]

(* Past the head of the loop an iteration is still in the budget, and the  *)
(* output is there to be acted on.                                         *)
Located(f) ==
  /\ f.pc # "head" => f.iter < MaxIters
  /\ f.pc = "act" => f.out \in Outputs
  /\ f.pc \in {"confirm", "ask"} => f.out \in CallOuts

(* What waits at the gate has passed the policy and the repeat guard.      *)
GateReady(f) ==
  f.pc = "confirm" =>
    /\ Perm[f.out.call.kind] # "deny"
    /\ f.out.call.kind = "agent" => f.out.call.batch
    /\ f.out.call.kind # "agent" => f.streak < RepeatLimit

(* Every nudge is accounted for by its reason; announced actions get two.  *)
NudgesCounted(f) ==
  ~PlanEnabled =>
    /\ ~f.plan
    /\ f.nudges = f.intents + f.recovers
    /\ f.intents <= 2

(* The signature belongs to the last call, and a series of identical calls *)
(* is never longer than the series of equal signatures the code counts.    *)
StreakCounted(f) ==
  /\ f.lastCall # NoCall => f.lastSig = Signature(f.lastCall)
  /\ f.streak <= f.repeat

FrameInv(f) == Located(f) /\ GateReady(f) /\ NudgesCounted(f) /\ StreakCounted(f)

FramesInv == \A l \in Levels : FrameInv(frame[l])

(* The parent of a running child waits inside its `agent` call.            *)
ParentWaits == top = 1 => frame[0].pc = "act"

Answering(f) == f.pc \in {"act", "confirm", "ask"}

(* A live history ends in an assistant message exactly while that message  *)
(* is being acted on.                                                      *)
HistTail(h, f) ==
  /\ h # <<>>
  /\ (h[Len(h)] = "assistant") <=> Answering(f)

HistInv ==
  /\ HistoryWellFormed
  /\ \A l \in Levels : top # Idle /\ l <= top => HistTail(hist[l], frame[l])

(* Once a tool has run under a raised flag, the next stop is the check.    *)
LateInv ==
  /\ late <= 1
  /\ ~interrupt => late = 0
  /\ late = 1 /\ top # Idle => frame[top].pc \in {"head", "gen"}

IInv ==
  /\ TypeOK
  /\ FramesInv
  /\ ParentWaits
  /\ HistInv
  /\ LateInv
  /\ UnsavedReplyWasChallenged
  /\ IdenticalCallNeverRunsThrice
  /\ DeniedToolNeverRuns

-----------------------------------------------------------------------------
(* Frames. *)

LEMMA MaxItersNat == MaxIters \in Nat
BY TurnAssumption

(* The frame a turn starts with is a frame in good order. *)
LEMMA NewFrameOK == NewFrame \in FrameType /\ FrameInv(NewFrame)
<1>1. NewFrame \in FrameType
  BY MaxItersNat DEF NewFrame, FrameType, Signatures
<1>2. FrameInv(NewFrame)
  BY DEF NewFrame, FrameInv, Located, GateReady, NudgesCounted, StreakCounted
<1>3. QED BY <1>1, <1>2

(* Going round the loop keeps a frame in good order. *)
LEMMA NextIterOK ==
  ASSUME NEW f \in FrameType, FrameInv(f), f.iter < MaxIters
  PROVE  /\ NextIter(f) \in FrameType
         /\ FrameInv(NextIter(f))
         /\ NextIter(f).pc = "head"
<1>1. NextIter(f).pc = "head"
  BY DEF NextIter, FrameType
<1>2. NextIter(f) \in FrameType
  <2>1. f.iter + 1 \in 0 .. MaxIters
    BY MaxItersNat DEF FrameType
  <2>2. QED BY <2>1 DEF NextIter, FrameType
<1>3. FrameInv(NextIter(f))
  BY DEF NextIter, FrameType, FrameInv, Located, GateReady, NudgesCounted, StreakCounted
<1>4. QED BY <1>1, <1>2, <1>3

(* A frame keeps its good order when only the program counter moves to a   *)
(* place whose demands it meets.                                           *)
LEMMA GotoOK ==
  ASSUME NEW f \in FrameType, FrameInv(f), f.iter < MaxIters,
         NEW pc \in {"gen", "confirm", "ask"},
         pc # "gen" => f.out \in CallOuts,
         pc = "confirm" =>
           /\ Perm[f.out.call.kind] # "deny"
           /\ f.out.call.kind = "agent" => f.out.call.batch
           /\ f.out.call.kind # "agent" => f.streak < RepeatLimit
  PROVE  /\ [f EXCEPT !.pc = pc] \in FrameType
         /\ FrameInv([f EXCEPT !.pc = pc])
         /\ [f EXCEPT !.pc = pc].pc = pc
<1>1. [f EXCEPT !.pc = pc] \in FrameType
  BY DEF FrameType
<1>2. FrameInv([f EXCEPT !.pc = pc])
  BY DEF FrameType, FrameInv, Located, GateReady, NudgesCounted, StreakCounted
<1>3. [f EXCEPT !.pc = pc].pc = pc
  BY DEF FrameType
<1>4. QED BY <1>1, <1>2, <1>3

LEMMA CallIsNotNone == ASSUME NEW c \in Calls PROVE c # NoCall
BY TurnAssumption DEF CallShape, NoCall, Kinds

(* The repeat guard keeps its books: the series of equal signatures covers *)
(* the series of identical calls.                                          *)
LEMMA GuardedOK ==
  ASSUME NEW f \in FrameType, FrameInv(f), f.pc = "act", NEW c \in Calls
  PROVE  /\ Guarded(f, c) \in FrameType
         /\ FrameInv(Guarded(f, c))
         /\ Guarded(f, c).pc = "act"
         /\ Guarded(f, c).iter = f.iter
         /\ Guarded(f, c).out = f.out
         /\ Guarded(f, c).streak <= Guarded(f, c).repeat
<1> DEFINE g == Guarded(f, c)
<1>1. c # NoCall
  BY CallIsNotNone
<1>2. /\ (IF f.lastSig = Signature(c) THEN f.repeat + 1 ELSE 1) \in Nat
      /\ (IF f.lastCall = c THEN f.streak + 1 ELSE 1) \in Nat
  BY DEF FrameType
<1>3. (IF f.lastCall = c THEN f.streak + 1 ELSE 1)
        <= (IF f.lastSig = Signature(c) THEN f.repeat + 1 ELSE 1)
  BY <1>1, <1>2 DEF FrameType, FrameInv, StreakCounted
<1>4. Signature(c) \in Signatures
  BY DEF Signatures
<1>5. g \in FrameType
  BY <1>2, <1>4 DEF Guarded, FrameType
<1>6. /\ g.pc = "act" /\ g.iter = f.iter /\ g.out = f.out
      /\ g.lastCall = c /\ g.lastSig = Signature(c)
      /\ g.plan = f.plan /\ g.nudges = f.nudges
      /\ g.intents = f.intents /\ g.recovers = f.recovers
      /\ g.streak = (IF f.lastCall = c THEN f.streak + 1 ELSE 1)
      /\ g.repeat = (IF f.lastSig = Signature(c) THEN f.repeat + 1 ELSE 1)
  BY DEF Guarded, FrameType
<1>7. FrameInv(g)
  BY <1>3, <1>6 DEF FrameInv, Located, GateReady, NudgesCounted, StreakCounted
<1> HIDE DEF g
<1>8. g = Guarded(f, c)
  BY DEF g
<1>9. QED BY <1>3, <1>5, <1>6, <1>7, <1>8
-----------------------------------------------------------------------------
(* Histories. *)

(* A message that may follow the last one keeps a history well formed. *)
LEMMA AppendWellFormed ==
  ASSUME NEW h \in Seq(Roles), WellFormed(h), NEW r \in Roles,
         h = <<>> => r = "user",
         h # <<>> => /\ h[Len(h)] = "assistant" => r # "assistant"
                     /\ r = "tool" => h[Len(h)] = "assistant"
  PROVE  /\ Append(h, r) \in Seq(Roles)
         /\ WellFormed(Append(h, r))
         /\ Append(h, r) # <<>>
         /\ Append(h, r)[Len(Append(h, r))] = r
<1> DEFINE g == Append(h, r)
<1>1. /\ g \in Seq(Roles)
      /\ Len(g) = Len(h) + 1
      /\ \A i \in 1 .. Len(h) : g[i] = h[i]
      /\ g[Len(h) + 1] = r
      /\ Len(h) \in Nat
  OBVIOUS
<1>2. g # <<>>
  OBVIOUS
<1>3. g[1] = "user"
  <2>1. CASE h = <<>>
    BY <2>1, <1>1
  <2>2. CASE h # <<>>
    BY <2>2, <1>1 DEF WellFormed
  <2>3. QED BY <2>1, <2>2
<1>4. ASSUME NEW i \in 1 .. Len(g) - 1
      PROVE  /\ g[i] = "assistant" => g[i + 1] # "assistant"
             /\ g[i + 1] = "tool" => g[i] = "assistant"
  <2>1. CASE i = Len(h)
    BY <2>1, <1>1
  <2>2. CASE i # Len(h)
    <3>1. i \in 1 .. Len(h) - 1 /\ i \in 1 .. Len(h) /\ i + 1 \in 1 .. Len(h)
      BY <2>2, <1>1
    <3>2. QED BY <3>1, <1>1 DEF WellFormed
  <2>3. QED BY <2>1, <2>2
<1>5. QED BY <1>1, <1>2, <1>3, <1>4 DEF WellFormed
-----------------------------------------------------------------------------
(* Steps.  Most handlers end the iteration in one of three ways: an answer *)
(* to the call without running it, an answer after a tool ran, or the end  *)
(* of the turn.                                                            *)

(* Replacing the running frame by one in good order at the head. *)
LEMMA ContinueStep ==
  ASSUME IInv, top \in Levels, NEW f \in FrameType, FrameInv(f),
         f.iter < MaxIters, Continue(f)
  PROVE  /\ frame' \in [Levels -> FrameType]
         /\ \A l \in Levels : FrameInv(frame'[l])
         /\ frame'[top].pc = "head"
         /\ \A l \in Levels : l # top => frame'[l] = frame[l]
BY NextIterOK DEF IInv, TypeOK, FramesInv, Continue

(* The running history takes an answer to its assistant message. *)
LEMMA AnswerStep ==
  ASSUME IInv, top \in Levels, Answering(frame[top]), NEW role \in {"user", "tool"},
         Push(role), top' = top, ~Answering(frame'[top]),
         \A l \in Levels : l # top => frame'[l] = frame[l]
  PROVE  /\ hist' \in [Levels -> Seq(Roles)]
         /\ HistInv'
<1>1. HistTail(hist[top], frame[top])
  BY DEF IInv, HistInv, Levels, Idle
<1>2. /\ hist[top] \in Seq(Roles) /\ WellFormed(hist[top])
      /\ hist[top] # <<>> /\ hist[top][Len(hist[top])] = "assistant"
  BY <1>1 DEF IInv, TypeOK, HistInv, HistoryWellFormed, HistTail
<1>3. /\ Append(hist[top], role) \in Seq(Roles)
      /\ WellFormed(Append(hist[top], role))
      /\ Append(hist[top], role) # <<>>
      /\ Append(hist[top], role)[Len(Append(hist[top], role))] = role
  BY <1>2, AppendWellFormed DEF Roles
<1>4. /\ hist' \in [Levels -> Seq(Roles)]
      /\ hist'[top] = Append(hist[top], role)
      /\ \A l \in Levels : l # top => hist'[l] = hist[l]
  BY <1>3 DEF IInv, TypeOK, Push
<1>5. HistoryWellFormed'
  BY <1>3, <1>4 DEF IInv, HistInv, HistoryWellFormed
<1>6. ASSUME NEW l \in Levels, l <= top
      PROVE  HistTail(hist'[l], frame'[l])
  <2>1. CASE l = top
    BY <2>1, <1>3, <1>4 DEF HistTail
  <2>2. CASE l # top
    BY <2>2, <1>4, <1>6 DEF IInv, HistInv, Levels, Idle
  <2>3. QED BY <2>1, <2>2
<1>7. QED BY <1>4, <1>5, <1>6 DEF HistInv

LEMMA RefuseStep ==
  ASSUME IInv, top \in Levels, Answering(frame[top]),
         NEW f \in FrameType, FrameInv(f), f.iter < MaxIters, Refuse(f)
  PROVE  IInv'
<1>1. /\ frame' \in [Levels -> FrameType]
      /\ \A l \in Levels : FrameInv(frame'[l])
      /\ frame'[top].pc = "head"
      /\ \A l \in Levels : l # top => frame'[l] = frame[l]
  BY ContinueStep DEF Refuse
<1>2. hist' \in [Levels -> Seq(Roles)] /\ HistInv'
  BY <1>1, AnswerStep DEF Refuse, Quiet, Answering
<1>3. UNCHANGED <<top, interrupt, killed, turns, late, ran, last>>
  BY DEF Refuse, Quiet
<1>4. TypeOK'
  BY <1>1, <1>2, <1>3 DEF IInv, TypeOK
<1>5. FramesInv' /\ ParentWaits' /\ LateInv'
  BY <1>1, <1>3 DEF IInv, FramesInv, ParentWaits, LateInv, Levels
<1>6. UnsavedReplyWasChallenged' /\ IdenticalCallNeverRunsThrice' /\ DeniedToolNeverRuns'
  BY <1>3 DEF IInv, UnsavedReplyWasChallenged, IdenticalCallNeverRunsThrice,
     DeniedToolNeverRuns
<1>7. QED BY <1>2, <1>4, <1>5, <1>6 DEF IInv

LEMMA RanStep ==
  ASSUME IInv, top \in Levels, Answering(frame[top]),
         NEW f \in FrameType, FrameInv(f), f.iter < MaxIters,
         NEW c \in Calls, NEW streak \in Nat, streak < RepeatLimit,
         c.kind # "agent" \/ c.batch, Perm[c.kind] # "deny",
         Continue(f), Push("tool"), Ran(c, streak)
  PROVE  IInv'
<1>1. /\ frame' \in [Levels -> FrameType]
      /\ \A l \in Levels : FrameInv(frame'[l])
      /\ frame'[top].pc = "head"
      /\ \A l \in Levels : l # top => frame'[l] = frame[l]
  BY ContinueStep
<1>2. hist' \in [Levels -> Seq(Roles)] /\ HistInv'
  BY <1>1, AnswerStep DEF Ran, Answering
<1>3. UNCHANGED <<top, interrupt, killed, turns, last>>
  BY DEF Ran
<1>4. late = 0
  BY DEF IInv, LateInv, Answering, Levels, Idle, TypeOK
<1>5. /\ late' \in {0, 1}
      /\ late' = 1 => interrupt
  BY <1>4 DEF Ran
<1>6. ran' = ran \cup {[call |-> c, streak |-> streak]}
  BY DEF Ran
<1>7. TypeOK'
  BY <1>1, <1>2, <1>3, <1>5, <1>6 DEF IInv, TypeOK
<1>8. FramesInv' /\ ParentWaits'
  BY <1>1, <1>3 DEF IInv, FramesInv, ParentWaits, Levels
<1>9. LateInv'
  BY <1>1, <1>3, <1>5 DEF LateInv
<1>10. UnsavedReplyWasChallenged'
  BY <1>3 DEF IInv, UnsavedReplyWasChallenged
<1>11. IdenticalCallNeverRunsThrice' /\ DeniedToolNeverRuns'
  BY <1>6 DEF IInv, IdenticalCallNeverRunsThrice, DeniedToolNeverRuns
<1>12. QED BY <1>2, <1>7, <1>8, <1>9, <1>10, <1>11 DEF IInv

LEMMA ReturnStep ==
  ASSUME IInv, top \in Levels,
         NEW how \in {"replied", "final", "capped", "interrupted"},
         Return(how),
         how = "replied" /\ ~PlanEnabled /\ frame[top].unsaved
           => frame[top].recovers >= 1
  PROVE  IInv'
<1>1. CASE ReturnToRepl(how)
  <2>1. /\ frame' \in [Levels -> FrameType]
        /\ \A l \in Levels : FrameInv(frame'[l])
    BY <1>1, NewFrameOK DEF ReturnToRepl, IInv, TypeOK, FramesInv, Levels
  <2>2. /\ top = 0 /\ top' = Idle /\ interrupt' = FALSE /\ late' = 0
        /\ UNCHANGED <<hist, killed, turns, ran>>
    BY <1>1 DEF ReturnToRepl
  <2>3. frame[0] \in FrameType
    BY DEF IInv, TypeOK, Levels
  <2>4. /\ last'.how = how /\ last'.unsaved = frame[0].unsaved
        /\ last'.recovers = frame[0].recovers
    BY <1>1 DEF ReturnToRepl
  <2>5. last' \in LastType
    BY <1>1, <2>3 DEF ReturnToRepl, LastType, FrameType
  <2>6. TypeOK'
    BY <2>1, <2>2, <2>5 DEF IInv, TypeOK
  <2>7. FramesInv' /\ ParentWaits' /\ LateInv'
    BY <2>1, <2>2 DEF FramesInv, ParentWaits, LateInv, Idle
  <2>8. HistInv'
    BY <2>2 DEF IInv, HistInv, HistoryWellFormed
  <2>9. UnsavedReplyWasChallenged'
    BY <2>2, <2>4 DEF UnsavedReplyWasChallenged
  <2>10. IdenticalCallNeverRunsThrice' /\ DeniedToolNeverRuns'
    BY <2>2 DEF IInv, IdenticalCallNeverRunsThrice, DeniedToolNeverRuns
  <2>11. QED BY <2>6, <2>7, <2>8, <2>9, <2>10 DEF IInv
<1>2. CASE ReturnToParent
  <2>1. /\ top = 1 /\ top' = 0
        /\ UNCHANGED <<interrupt, killed, turns, late, ran, last>>
    BY <1>2 DEF ReturnToParent
  <2>2. /\ frame[0] \in FrameType /\ FrameInv(frame[0])
        /\ frame[0].pc = "act" /\ frame[0].iter < MaxIters
    BY <2>1 DEF IInv, TypeOK, FramesInv, ParentWaits, Levels, FrameInv, Located
  <2>3. /\ frame' \in [Levels -> FrameType]
        /\ \A l \in Levels : FrameInv(frame'[l])
        /\ frame'[0].pc = "head"
    BY <1>2, <2>2, NewFrameOK, NextIterOK DEF ReturnToParent, Levels
  <2>4. /\ hist[0] \in Seq(Roles) /\ WellFormed(hist[0])
        /\ hist[0] # <<>> /\ hist[0][Len(hist[0])] = "assistant"
    BY <2>1, <2>2 DEF IInv, TypeOK, HistInv, HistoryWellFormed, HistTail, Levels, Idle, Answering
  <2>5. /\ Append(hist[0], "tool") \in Seq(Roles)
        /\ WellFormed(Append(hist[0], "tool"))
        /\ Append(hist[0], "tool") # <<>>
        /\ Append(hist[0], "tool")[Len(Append(hist[0], "tool"))] = "tool"
    BY <2>4, AppendWellFormed DEF Roles
  <2>6. /\ hist' \in [Levels -> Seq(Roles)]
        /\ hist'[0] = Append(hist[0], "tool") /\ hist'[1] = <<>>
    BY <1>2, <2>5 DEF ReturnToParent, Levels
  <2>7. HistInv'
    <3>1. WellFormed(<<>>)
      BY DEF WellFormed
    <3>2. HistoryWellFormed'
      BY <2>5, <2>6, <3>1 DEF HistoryWellFormed, Levels
    <3>3. HistTail(hist'[0], frame'[0])
      BY <2>3, <2>5, <2>6 DEF HistTail, Answering
    <3>4. QED BY <2>1, <3>2, <3>3 DEF HistInv, Levels
  <2>8. TypeOK'
    BY <2>1, <2>3, <2>6 DEF IInv, TypeOK, Levels
  <2>9. FramesInv' /\ ParentWaits' /\ LateInv'
    <3>1. FramesInv' /\ ParentWaits'
      BY <2>1, <2>3 DEF FramesInv, ParentWaits
    <3>2. LateInv
      BY DEF IInv
    <3>3. LateInv'
      BY <2>1, <2>3, <3>2 DEF LateInv, Idle
    <3>4. QED BY <3>1, <3>3
  <2>10. UnsavedReplyWasChallenged' /\ IdenticalCallNeverRunsThrice' /\ DeniedToolNeverRuns'
    BY <2>1 DEF IInv, UnsavedReplyWasChallenged, IdenticalCallNeverRunsThrice,
       DeniedToolNeverRuns
  <2>11. QED BY <2>7, <2>8, <2>9, <2>10 DEF IInv
<1>3. QED BY <1>1, <1>2 DEF Return

(* What the invariant says of the running frame, wherever it is. *)
LEMMA TopFrame ==
  ASSUME IInv, top \in Levels
  PROVE  /\ frame[top] \in FrameType
         /\ FrameInv(frame[top])
         /\ frame[top].pc # "head" => frame[top].iter < MaxIters
         /\ Calling(Kinds) => frame[top].out.call \in Calls
<1>1. frame[top] \in FrameType /\ FrameInv(frame[top])
  BY DEF IInv, TypeOK, FramesInv
<1>2. frame[top].pc # "head" => frame[top].iter < MaxIters
  BY <1>1 DEF FrameInv, Located
<1>3. ASSUME Calling(Kinds)
      PROVE  frame[top].out.call \in Calls
  BY <1>1, <1>3 DEF Calling, Acting, At, Out, FrameInv, Located, Outputs, Plain, Botched
<1>4. QED BY <1>1, <1>2, <1>3

LEMMA CallingKinds ==
  ASSUME NEW K \in SUBSET Kinds, Calling(K)
  PROVE  Calling(Kinds)
BY DEF Calling

(* A step that only moves the running frame's program counter forward and  *)
(* records nothing, from a place where nothing is being recorded either.   *)
LEMMA GotoStep ==
  ASSUME IInv, top \in Levels, NEW f \in FrameType, FrameInv(f),
         frame' = [frame EXCEPT ![top] = f],
         Answering(f) <=> Answering(frame[top]),
         f.pc # "head", ~Answering(f) => f.pc = "gen",
         UNCHANGED hist, Quiet
  PROVE  IInv'
<1>1. /\ frame' \in [Levels -> FrameType]
      /\ frame'[top] = f
      /\ \A l \in Levels : l # top => frame'[l] = frame[l]
  BY DEF IInv, TypeOK
<1>2. UNCHANGED <<top, interrupt, killed, turns, late, ran, last>>
  BY DEF Quiet
<1>3. TypeOK'
  BY <1>1, <1>2 DEF IInv, TypeOK
<1>4. FramesInv' /\ ParentWaits'
  BY <1>1, <1>2 DEF IInv, FramesInv, ParentWaits, Levels
<1>5. LateInv'
  BY <1>1, <1>2 DEF IInv, LateInv, Answering, Idle, Levels
<1>6. HistInv'
  <2>1. HistoryWellFormed'
    BY DEF IInv, HistInv, HistoryWellFormed
  <2>2. ASSUME NEW l \in Levels, l <= top
        PROVE  HistTail(hist'[l], frame'[l])
    BY <1>1, <2>2 DEF IInv, HistInv, HistTail, Answering, Levels, Idle
  <2>3. QED BY <1>2, <2>1, <2>2 DEF HistInv
<1>7. UnsavedReplyWasChallenged' /\ IdenticalCallNeverRunsThrice' /\ DeniedToolNeverRuns'
  BY <1>2 DEF IInv, UnsavedReplyWasChallenged, IdenticalCallNeverRunsThrice,
     DeniedToolNeverRuns
<1>8. QED BY <1>3, <1>4, <1>5, <1>6, <1>7 DEF IInv

-----------------------------------------------------------------------------
(* Each action keeps the invariant. *)

LEMMA StartTurnInv == IInv /\ StartTurn => IInv'
<1> SUFFICES ASSUME IInv, StartTurn PROVE IInv'
  OBVIOUS
<1>1. /\ top = Idle /\ top' = 0 /\ interrupt' = FALSE /\ late' = 0
      /\ turns' = turns + 1 /\ turns < MaxTurns
      /\ UNCHANGED <<killed, ran, last>>
  BY DEF StartTurn
<1>2. /\ frame' \in [Levels -> FrameType]
      /\ \A l \in Levels : FrameInv(frame'[l])
      /\ frame'[0].pc = "head"
  BY NewFrameOK DEF StartTurn, IInv, TypeOK, FramesInv, Levels, NewFrame
<1>3. /\ hist[0] \in Seq(Roles) /\ WellFormed(hist[0])
  BY DEF IInv, TypeOK, HistInv, HistoryWellFormed, Levels
<1>4. /\ Append(hist[0], "user") \in Seq(Roles)
      /\ WellFormed(Append(hist[0], "user"))
      /\ Append(hist[0], "user") # <<>>
      /\ Append(hist[0], "user")[Len(Append(hist[0], "user"))] = "user"
  BY <1>3, AppendWellFormed DEF Roles
<1>5. /\ hist' \in [Levels -> Seq(Roles)]
      /\ hist'[0] = Append(hist[0], "user") /\ hist'[1] = hist[1]
  BY <1>4 DEF StartTurn, IInv, TypeOK, Levels
<1>6. HistoryWellFormed'
  BY <1>4, <1>5 DEF IInv, HistInv, HistoryWellFormed, Levels
<1>7. HistTail(hist'[0], frame'[0])
  BY <1>2, <1>4, <1>5 DEF HistTail, Answering
<1>8. HistInv'
  BY <1>1, <1>6, <1>7 DEF HistInv, Levels
<1>9. TypeOK'
  <2>1. MaxTurns \in Nat
    BY TurnAssumption
  <2>2. turns' \in 0 .. MaxTurns
    BY <1>1, <2>1 DEF IInv, TypeOK
  <2>3. QED BY <1>1, <1>2, <1>5, <2>2 DEF IInv, TypeOK, Levels
<1>10. FramesInv' /\ ParentWaits' /\ LateInv'
  BY <1>1, <1>2 DEF IInv, FramesInv, ParentWaits, LateInv
<1>11. UnsavedReplyWasChallenged' /\ IdenticalCallNeverRunsThrice' /\ DeniedToolNeverRuns'
  BY <1>1 DEF IInv, UnsavedReplyWasChallenged, IdenticalCallNeverRunsThrice,
     DeniedToolNeverRuns
<1>12. QED BY <1>8, <1>9, <1>10, <1>11 DEF IInv

LEMMA SigintInv == IInv /\ Sigint => IInv'
<1> SUFFICES ASSUME IInv, Sigint PROVE IInv'
  OBVIOUS
<1>1. /\ UNCHANGED <<top, frame, hist, turns, late, ran, last>>
      /\ interrupt' \in BOOLEAN /\ killed' \in BOOLEAN
      /\ interrupt'
  BY DEF Sigint, IInv, TypeOK
<1>2. TypeOK'
  BY <1>1 DEF IInv, TypeOK
<1>3. FramesInv' /\ ParentWaits' /\ HistInv' /\ LateInv'
  BY <1>1 DEF IInv, FramesInv, ParentWaits, HistInv, HistoryWellFormed, LateInv
<1>4. UnsavedReplyWasChallenged' /\ IdenticalCallNeverRunsThrice' /\ DeniedToolNeverRuns'
  BY <1>1 DEF IInv, UnsavedReplyWasChallenged, IdenticalCallNeverRunsThrice,
     DeniedToolNeverRuns
<1>5. QED BY <1>2, <1>3, <1>4 DEF IInv

LEMMA GenerateDoneInv == IInv /\ GenerateDone => IInv'
<1> SUFFICES ASSUME IInv, GenerateDone PROVE IInv'
  OBVIOUS
<1>1. top \in Levels /\ frame[top].pc = "gen" /\ ~interrupt
  BY DEF GenerateDone, At, IInv, TypeOK
<1>2. frame[top] \in FrameType /\ FrameInv(frame[top]) /\ frame[top].iter < MaxIters
  BY <1>1, TopFrame
<1>3. PICK out \in Outputs :
        frame' = [frame EXCEPT ![top].pc = "act", ![top].out = out]
  BY DEF GenerateDone
<1> DEFINE f == [frame[top] EXCEPT !.pc = "act", !.out = out]
<1>4. f \in FrameType /\ f.pc = "act"
  BY <1>2 DEF FrameType
<1>5. FrameInv(f)
  <2>1. /\ f.iter = frame[top].iter /\ f.out = out /\ f.plan = frame[top].plan
        /\ f.nudges = frame[top].nudges /\ f.intents = frame[top].intents
        /\ f.recovers = frame[top].recovers /\ f.streak = frame[top].streak
        /\ f.repeat = frame[top].repeat /\ f.lastSig = frame[top].lastSig
        /\ f.lastCall = frame[top].lastCall
    BY <1>2 DEF FrameType
  <2>2. QED
    BY <1>2, <1>4, <2>1 DEF FrameInv, Located, GateReady, NudgesCounted, StreakCounted
<1>6. /\ frame' \in [Levels -> FrameType]
      /\ frame'[top] = f
      /\ \A l \in Levels : l # top => frame'[l] = frame[l]
  BY <1>1, <1>3, <1>4 DEF IInv, TypeOK
<1> HIDE DEF f
<1>7. UNCHANGED <<top, interrupt, killed, turns, late, ran, last>>
  BY DEF GenerateDone, Quiet
<1>8. /\ hist[top] \in Seq(Roles) /\ WellFormed(hist[top])
      /\ hist[top] # <<>> /\ hist[top][Len(hist[top])] # "assistant"
  BY <1>1 DEF IInv, TypeOK, HistInv, HistoryWellFormed, HistTail, Answering, Levels, Idle
<1>9. /\ Append(hist[top], "assistant") \in Seq(Roles)
      /\ WellFormed(Append(hist[top], "assistant"))
      /\ Append(hist[top], "assistant") # <<>>
      /\ Append(hist[top], "assistant")[Len(Append(hist[top], "assistant"))] = "assistant"
  BY <1>8, AppendWellFormed DEF Roles
<1>10. /\ hist' \in [Levels -> Seq(Roles)]
       /\ hist'[top] = Append(hist[top], "assistant")
       /\ \A l \in Levels : l # top => hist'[l] = hist[l]
  BY <1>1, <1>9 DEF IInv, TypeOK, GenerateDone, Push
<1>11. HistoryWellFormed'
  BY <1>9, <1>10 DEF IInv, HistInv, HistoryWellFormed
<1>12. ASSUME NEW l \in Levels, l <= top
       PROVE  HistTail(hist'[l], frame'[l])
  <2>1. CASE l = top
    BY <2>1, <1>4, <1>6, <1>9, <1>10 DEF HistTail, Answering
  <2>2. CASE l # top
    BY <2>2, <1>1, <1>6, <1>10, <1>12 DEF IInv, HistInv, Levels, Idle
  <2>3. QED BY <2>1, <2>2
<1>13. HistInv'
  BY <1>7, <1>11, <1>12 DEF HistInv
<1>14. TypeOK'
  BY <1>6, <1>7, <1>10 DEF IInv, TypeOK
<1>15. FramesInv' /\ ParentWaits'
  BY <1>1, <1>4, <1>5, <1>6, <1>7 DEF IInv, FramesInv, ParentWaits, Levels
<1>16. LateInv'
  BY <1>1, <1>7 DEF IInv, LateInv
<1>17. UnsavedReplyWasChallenged' /\ IdenticalCallNeverRunsThrice' /\ DeniedToolNeverRuns'
  BY <1>7 DEF IInv, UnsavedReplyWasChallenged, IdenticalCallNeverRunsThrice,
     DeniedToolNeverRuns
<1>18. QED BY <1>13, <1>14, <1>15, <1>16, <1>17 DEF IInv

LEMMA SpawnChildInv == IInv /\ SpawnChild => IInv'
<1> SUFFICES ASSUME IInv, SpawnChild PROVE IInv'
  OBVIOUS
<1>1. /\ top = 0 /\ frame[0].pc = "act" /\ Calling(Kinds)
  BY TurnAssumption DEF SpawnChild, Calling, Acting, At, Depth, IInv, TypeOK, Levels, Idle,
     Kinds
<1>2. Out.call \in Calls /\ ~Out.call.batch /\ Out.call.kind = "agent"
  BY <1>1, TopFrame DEF Levels, Out, SpawnChild, Calling
<1>3. /\ frame' \in [Levels -> FrameType]
      /\ \A l \in Levels : FrameInv(frame'[l])
      /\ frame'[0] = frame[0] /\ frame'[1].pc = "head"
  BY NewFrameOK DEF SpawnChild, IInv, TypeOK, FramesInv, Levels, NewFrame
<1>4. /\ top' = 1 /\ UNCHANGED <<interrupt, killed, turns, late, last>>
      /\ ran' = ran \cup {[call |-> Out.call, streak |-> 0]}
  BY DEF SpawnChild
<1>5. /\ hist' \in [Levels -> Seq(Roles)]
      /\ hist'[0] = hist[0] /\ hist'[1] = <<"user">>
  BY DEF SpawnChild, IInv, TypeOK, Levels, Roles
<1>6. WellFormed(<<"user">>) /\ HistTail(<<"user">>, frame'[1])
  BY <1>3 DEF WellFormed, HistTail, Answering
<1>7. HistInv'
  BY <1>1, <1>3, <1>4, <1>5, <1>6 DEF IInv, HistInv, HistoryWellFormed, Levels, Idle
<1>8. TypeOK'
  BY <1>2, <1>3, <1>4, <1>5 DEF IInv, TypeOK, Levels
<1>9. FramesInv' /\ ParentWaits' /\ LateInv'
  BY <1>1, <1>3, <1>4 DEF IInv, FramesInv, ParentWaits, LateInv, Levels
<1>10. IdenticalCallNeverRunsThrice' /\ DeniedToolNeverRuns'
  BY <1>2, <1>4 DEF IInv, IdenticalCallNeverRunsThrice, DeniedToolNeverRuns, RepeatLimit
<1>11. UnsavedReplyWasChallenged'
  BY <1>4 DEF IInv, UnsavedReplyWasChallenged
<1>12. QED BY <1>7, <1>8, <1>9, <1>10, <1>11 DEF IInv

LEMMA BeginIterationInv == IInv /\ BeginIteration => IInv'
<1> SUFFICES ASSUME IInv, BeginIteration PROVE IInv'
  OBVIOUS
<1>1. top \in Levels /\ frame[top].pc = "head" /\ frame[top].iter < MaxIters
  BY DEF BeginIteration, At, IInv, TypeOK
<1> DEFINE f == [frame[top] EXCEPT !.pc = "gen"]
<1>2. f \in FrameType /\ FrameInv(f) /\ f.pc = "gen"
  BY <1>1, TopFrame, GotoOK
<1>3. frame' = [frame EXCEPT ![top] = f]
  BY DEF BeginIteration, Goto
<1> HIDE DEF f
<1>4. QED BY <1>1, <1>2, <1>3, GotoStep DEF BeginIteration, Answering

LEMMA ReturnsInv ==
  IInv /\ (LoopExhausted \/ GenerateAborted \/ PlainReply \/ Final) => IInv'
<1> SUFFICES ASSUME IInv, LoopExhausted \/ GenerateAborted \/ PlainReply \/ Final
             PROVE  IInv'
  OBVIOUS
<1>1. top \in Levels
  BY DEF LoopExhausted, GenerateAborted, PlainReply, Final, Calling, Acting, At, IInv, TypeOK
<1>2. frame[top] \in FrameType /\ FrameInv(frame[top])
  BY <1>1, TopFrame
<1>3. CASE LoopExhausted
  <2>1. CASE interrupt
    BY <1>1, <1>3, <2>1, ReturnStep DEF LoopExhausted
  <2>2. CASE ~interrupt
    BY <1>1, <1>3, <2>2, ReturnStep DEF LoopExhausted
  <2>3. QED BY <2>1, <2>2
<1>4. CASE GenerateAborted
  BY <1>1, <1>4, ReturnStep DEF GenerateAborted
<1>5. CASE PlainReply
  <2>1. Return("replied")
    BY <1>5 DEF PlainReply
  <2>2. ASSUME ~PlanEnabled, frame[top].unsaved
        PROVE  frame[top].recovers >= 1
    <3>1. frame[top].nudges >= 3
      BY <1>2, <1>5, <2>2 DEF PlainReply, ShouldNudge, NudgeCap, FrameInv, NudgesCounted,
         FrameType
    <3>2. QED BY <1>2, <2>2, <3>1 DEF FrameInv, NudgesCounted, FrameType
  <2>3. QED BY <1>1, <2>1, <2>2, ReturnStep
<1>6. CASE Final
  BY <1>1, <1>6, ReturnStep DEF Final
<1>7. QED BY <1>3, <1>4, <1>5, <1>6

LEMMA NudgeInv == IInv /\ Nudge => IInv'
<1> SUFFICES ASSUME IInv, Nudge PROVE IInv'
  OBVIOUS
<1>1. top \in Levels /\ Answering(frame[top]) /\ frame[top].pc = "act"
  BY DEF Nudge, Acting, At, Answering, IInv, TypeOK
<1>2. frame[top] \in FrameType /\ FrameInv(frame[top]) /\ frame[top].iter < MaxIters
  BY <1>1, TopFrame
<1> DEFINE e == frame[top]
           g == [e EXCEPT !.nudges = @ + 1,
                          !.recovers = IF e.unsaved THEN @ + 1 ELSE @,
                          !.intents = IF e.unsaved \/ e.plan THEN @ ELSE @ + 1]
<1>3. Continue(g) /\ Push("user") /\ Quiet /\ ShouldNudge(e)
  BY DEF Nudge
<1>4. /\ e.nudges + 1 \in 0 .. 4
      /\ (IF e.unsaved THEN e.recovers + 1 ELSE e.recovers) \in Nat
      /\ (IF e.unsaved \/ e.plan THEN e.intents ELSE e.intents + 1) \in Nat
  BY <1>2, <1>3 DEF FrameType, ShouldNudge, NudgeCap
<1>5. g \in FrameType
  BY <1>2, <1>4 DEF FrameType
<1>6. /\ g.pc = "act" /\ g.iter = e.iter /\ g.out = e.out /\ g.plan = e.plan
      /\ g.nudges = e.nudges + 1
      /\ g.recovers = (IF e.unsaved THEN e.recovers + 1 ELSE e.recovers)
      /\ g.intents = (IF e.unsaved \/ e.plan THEN e.intents ELSE e.intents + 1)
      /\ g.repeat = e.repeat /\ g.streak = e.streak
      /\ g.lastSig = e.lastSig /\ g.lastCall = e.lastCall
  BY <1>1, <1>2 DEF FrameType
<1>7. NudgesCounted(g)
  <2>1. ASSUME ~PlanEnabled
        PROVE  /\ g.nudges = g.intents + g.recovers
               /\ g.intents <= 2
    BY <1>2, <1>3, <1>6, <2>1 DEF FrameType, FrameInv, NudgesCounted, ShouldNudge, NudgeCap
  <2>2. QED BY <1>2, <1>6, <2>1 DEF FrameInv, NudgesCounted
<1>8. FrameInv(g)
  BY <1>2, <1>6, <1>7 DEF FrameInv, Located, GateReady, StreakCounted
<1> HIDE DEF g
<1>9. g.iter < MaxIters
  BY <1>2, <1>6
<1>10. /\ frame' \in [Levels -> FrameType]
       /\ \A l \in Levels : FrameInv(frame'[l])
       /\ frame'[top].pc = "head"
       /\ \A l \in Levels : l # top => frame'[l] = frame[l]
  BY <1>1, <1>3, <1>5, <1>8, <1>9, ContinueStep
<1>11. UNCHANGED <<top, interrupt, killed, turns, late, ran, last>>
  BY <1>3 DEF Quiet
<1>12. hist' \in [Levels -> Seq(Roles)] /\ HistInv'
  BY <1>1, <1>3, <1>10, <1>11, AnswerStep DEF Answering
<1>13. TypeOK'
  BY <1>10, <1>11, <1>12 DEF IInv, TypeOK
<1>14. FramesInv' /\ ParentWaits' /\ LateInv'
  BY <1>10, <1>11 DEF IInv, FramesInv, ParentWaits, LateInv, Levels
<1>15. UnsavedReplyWasChallenged' /\ IdenticalCallNeverRunsThrice' /\ DeniedToolNeverRuns'
  BY <1>11 DEF IInv, UnsavedReplyWasChallenged, IdenticalCallNeverRunsThrice,
     DeniedToolNeverRuns
<1>16. QED BY <1>12, <1>13, <1>14, <1>15 DEF IInv

(* The plan and its refusals keep a frame in good order. *)
LEMMA PlanInv == IInv /\ (RecordPlan \/ RejectReplan) => IInv'
<1> SUFFICES ASSUME IInv, RecordPlan \/ RejectReplan PROVE IInv'
  OBVIOUS
<1>1. top \in Levels /\ Answering(frame[top]) /\ PlanEnabled
  BY DEF RecordPlan, RejectReplan, Calling, Acting, At, Answering, IInv, TypeOK
<1>2. frame[top] \in FrameType /\ FrameInv(frame[top]) /\ frame[top].iter < MaxIters
  BY <1>1, TopFrame DEF Answering
<1> DEFINE e == frame[top]
<1>3. CASE RecordPlan
  <2> DEFINE g == [e EXCEPT !.plan = TRUE, !.nudges = 0]
  <2>1. g \in FrameType
    <3>1. 0 \in 0 .. 4
      OBVIOUS
    <3>2. QED BY <1>2, <3>1 DEF FrameType
  <2>2. /\ g.pc = e.pc /\ g.iter = e.iter /\ g.out = e.out /\ g.repeat = e.repeat
        /\ g.streak = e.streak /\ g.lastSig = e.lastSig /\ g.lastCall = e.lastCall
    BY <1>2 DEF FrameType
  <2>3. FrameInv(g)
    BY <1>1, <1>2, <2>2 DEF FrameInv, Located, GateReady, NudgesCounted, StreakCounted
  <2>4. Refuse(g)
    BY <1>3 DEF RecordPlan
  <2> HIDE DEF g
  <2>5. QED BY <1>1, <1>2, <2>1, <2>2, <2>3, <2>4, RefuseStep
<1>4. CASE RejectReplan
  <2> DEFINE g == [e EXCEPT !.replans = @ + 1, !.plan = e.replans + 1 < 2]
  <2>1. e.replans + 1 \in Nat /\ (e.replans + 1 < 2) \in BOOLEAN
    BY <1>2 DEF FrameType
  <2>2. g \in FrameType
    BY <1>2, <2>1 DEF FrameType
  <2>3. /\ g.pc = e.pc /\ g.iter = e.iter /\ g.out = e.out /\ g.repeat = e.repeat
        /\ g.streak = e.streak /\ g.lastSig = e.lastSig /\ g.lastCall = e.lastCall
    BY <1>2 DEF FrameType
  <2>4. FrameInv(g)
    BY <1>1, <1>2, <2>3 DEF FrameInv, Located, GateReady, NudgesCounted, StreakCounted
  <2>5. Refuse(g)
    BY <1>4 DEF RejectReplan
  <2> HIDE DEF g
  <2>6. QED BY <1>1, <1>2, <2>2, <2>3, <2>4, <2>5, RefuseStep
<1>5. QED BY <1>3, <1>4

(* Refusals that leave the frame's books alone. *)
LEMMA PlainRefusalsInv ==
  IInv /\ (BotchedCall \/ AskAnswered \/ AgentTooDeep \/ BatchDenied \/ GateDeclined)
    => IInv'
<1> SUFFICES ASSUME IInv,
                    BotchedCall \/ AskAnswered \/ AgentTooDeep \/ BatchDenied \/ GateDeclined
             PROVE  IInv'
  OBVIOUS
<1>1. top \in Levels /\ Answering(frame[top]) /\ Refuse(frame[top])
  BY DEF BotchedCall, AskAnswered, AgentTooDeep, BatchDenied, GateDeclined, Calling, Acting,
     At, Answering, IInv, TypeOK
<1>2. frame[top] \in FrameType /\ FrameInv(frame[top]) /\ frame[top].iter < MaxIters
  BY <1>1, TopFrame DEF Answering
<1>3. QED BY <1>1, <1>2, RefuseStep

LEMMA AskInv == IInv /\ Ask => IInv'
<1> SUFFICES ASSUME IInv, Ask PROVE IInv'
  OBVIOUS
<1>1. top \in Levels /\ frame[top].pc = "act" /\ Out.form = "call"
  BY DEF Ask, Calling, Acting, At, IInv, TypeOK
<1>2. frame[top] \in FrameType /\ FrameInv(frame[top]) /\ frame[top].iter < MaxIters
  BY <1>1, TopFrame
<1>3. CASE Mode = "print"
  BY <1>1, <1>2, <1>3, RefuseStep DEF Ask, Answering
<1>4. CASE Mode # "print"
  <2> DEFINE f == [frame[top] EXCEPT !.pc = "ask"]
  <2>1. frame[top].out \in CallOuts
    BY <1>1, <1>2 DEF FrameInv, Located, Out, Outputs, Plain, Botched, CallOuts
  <2>2. f \in FrameType /\ FrameInv(f) /\ f.pc = "ask"
    BY <1>2, <2>1, GotoOK
  <2>3. frame' = [frame EXCEPT ![top] = f] /\ UNCHANGED hist /\ Quiet
    BY <1>4 DEF Ask, Goto
  <2> HIDE DEF f
  <2>4. QED BY <1>1, <2>2, <2>3, GotoStep DEF Answering
<1>5. QED BY <1>3, <1>4

(* tools_dispatch and what the loop remembers of its outcome. *)
LEMMA DispatchStep ==
  ASSUME IInv, top \in Levels, Answering(frame[top]),
         NEW f \in FrameType, FrameInv(f), f.iter < MaxIters, Answering(f),
         NEW c \in Calls, f.streak < RepeatLimit,
         c.kind # "agent", Perm[c.kind] # "deny", Dispatch(f, c)
  PROVE  IInv'
<1>1. f.streak \in Nat
  BY DEF FrameType
<1>2. Push("tool") /\ Ran(c, f.streak)
  BY DEF Dispatch
<1>3. ASSUME NEW ok \in BOOLEAN, Continue(Wrote(f, ok))
      PROVE  IInv'
  <2> DEFINE g == Wrote(f, ok)
  <2>1. (~ok) \in BOOLEAN
    OBVIOUS
  <2>2. g \in FrameType
    BY <2>1 DEF Wrote, FrameType
  <2>3. /\ g.pc = f.pc /\ g.iter = f.iter /\ g.out = f.out /\ g.repeat = f.repeat
        /\ g.streak = f.streak /\ g.lastSig = f.lastSig /\ g.lastCall = f.lastCall
        /\ g.plan = f.plan /\ g.nudges = f.nudges /\ g.intents = f.intents
        /\ g.recovers = f.recovers
    BY DEF Wrote, FrameType
  <2>4. FrameInv(g)
    BY <2>3 DEF FrameInv, Located, GateReady, NudgesCounted, StreakCounted
  <2> HIDE DEF g
  <2>5. Continue(g)
    BY <1>3 DEF g
  <2>6. QED BY <1>1, <1>2, <2>2, <2>3, <2>4, <2>5, RanStep
<1>4. ASSUME Continue(f)
      PROVE  IInv'
  BY <1>1, <1>2, <1>4, RanStep
<1>5. QED BY <1>3, <1>4 DEF Dispatch

LEMMA GuardedInv == IInv /\ (RepeatRefused \/ PolicyDenied \/ ToolCall) => IInv'
<1> SUFFICES ASSUME IInv, RepeatRefused \/ PolicyDenied \/ ToolCall PROVE IInv'
  OBVIOUS
<1> DEFINE c == Out.call
           g == Guarded(frame[top], c)
<1>1. top \in Levels /\ frame[top].pc = "act" /\ Answering(frame[top]) /\ Calling(Kinds \ Own)
  BY DEF RepeatRefused, PolicyDenied, ToolCall, Calling, Acting, At, Answering, IInv, TypeOK
<1>2. frame[top] \in FrameType /\ FrameInv(frame[top]) /\ frame[top].iter < MaxIters
  BY <1>1, TopFrame
<1>3. c \in Calls /\ c.kind # "agent" /\ Out = frame[top].out
  <2>1. Calling(Kinds)
    BY <1>1 DEF Calling
  <2>2. QED BY <1>1, <2>1, TopFrame DEF Calling, Own, Out
<1>4. /\ g \in FrameType /\ FrameInv(g) /\ g.pc = "act" /\ g.iter = frame[top].iter
      /\ g.out = frame[top].out /\ g.streak <= g.repeat
  BY <1>1, <1>2, <1>3, GuardedOK
<1>5. g.streak \in Nat /\ g.repeat \in Nat
  BY <1>4 DEF FrameType
<1>6. CASE RepeatRefused \/ PolicyDenied
  <2>1. Refuse(g)
    BY <1>6 DEF RepeatRefused, PolicyDenied
  <2> HIDE DEF g
  <2>2. QED BY <1>1, <1>2, <1>4, <2>1, RefuseStep
<1>7. CASE ToolCall
  <2>1. g.streak < RepeatLimit /\ Perm[c.kind] # "deny"
    BY <1>4, <1>5, <1>7 DEF ToolCall, RepeatLimit
  <2>2. CASE Gated(c)
    <3> DEFINE w == [g EXCEPT !.pc = "confirm"]
    <3>1. g.out \in CallOuts /\ g.out.call = c
      BY <1>1, <1>2, <1>3, <1>4
      DEF FrameInv, Located, Outputs, Plain, Botched, CallOuts, Calling, Acting
    <3> HIDE DEF g
    <3>2. w \in FrameType /\ FrameInv(w) /\ w.pc = "confirm"
      BY <1>2, <1>3, <1>4, <2>1, <3>1, GotoOK
    <3>3. frame' = [frame EXCEPT ![top] = w] /\ UNCHANGED hist /\ Quiet
      BY <1>7, <2>2 DEF ToolCall, g
    <3> HIDE DEF w
    <3>4. QED BY <1>1, <3>2, <3>3, GotoStep DEF Answering
  <2>3. CASE ~Gated(c)
    <3>1. Dispatch(g, c)
      BY <1>7, <2>3 DEF ToolCall
    <3> HIDE DEF g
    <3>2. QED BY <1>1, <1>2, <1>3, <1>4, <2>1, <3>1, DispatchStep DEF Answering
  <2>4. QED BY <2>2, <2>3
<1>8. QED BY <1>6, <1>7

LEMMA BatchRunInv == IInv /\ BatchRun => IInv'
<1> SUFFICES ASSUME IInv, BatchRun PROVE IInv'
  OBVIOUS
<1> DEFINE c == Out.call
<1>1. /\ top \in Levels /\ frame[top].pc = "act" /\ Answering(frame[top])
      /\ Calling(Kinds) /\ c.kind = "agent" /\ c.batch /\ Perm[c.kind] # "deny"
  BY DEF BatchRun, Calling, Acting, At, Answering, IInv, TypeOK, Kinds
<1>2. frame[top] \in FrameType /\ FrameInv(frame[top]) /\ frame[top].iter < MaxIters
  BY <1>1, TopFrame
<1>3. c \in Calls /\ Out = frame[top].out
  BY <1>1, TopFrame DEF Out
<1>4. CASE Gated(c)
  <2> DEFINE f == [frame[top] EXCEPT !.pc = "confirm"]
  <2>1. frame[top].out \in CallOuts
    BY <1>1, <1>2 DEF FrameInv, Located, Out, Outputs, Plain, Botched, CallOuts, Calling, Acting
  <2>2. f \in FrameType /\ FrameInv(f) /\ f.pc = "confirm"
    BY <1>1, <1>2, <1>3, <2>1, GotoOK
  <2>3. frame' = [frame EXCEPT ![top] = f] /\ UNCHANGED hist /\ Quiet
    BY <1>4 DEF BatchRun, Goto
  <2> HIDE DEF f
  <2>4. QED BY <1>1, <2>2, <2>3, GotoStep DEF Answering
<1>5. CASE ~Gated(c)
  <2>1. Continue(frame[top]) /\ Push("tool") /\ Ran(c, 0)
    BY <1>5 DEF BatchRun, RunBatch
  <2>2. QED BY <1>1, <1>2, <1>3, <2>1, RanStep DEF RepeatLimit
<1>6. QED BY <1>4, <1>5

LEMMA GateAcceptedInv == IInv /\ GateAccepted => IInv'
<1> SUFFICES ASSUME IInv, GateAccepted PROVE IInv'
  OBVIOUS
<1> DEFINE c == Out.call
<1>1. top \in Levels /\ frame[top].pc = "confirm" /\ Answering(frame[top])
  BY DEF GateAccepted, At, Answering, IInv, TypeOK
<1>2. frame[top] \in FrameType /\ FrameInv(frame[top]) /\ frame[top].iter < MaxIters
  BY <1>1, TopFrame
<1>3. /\ c \in Calls /\ Perm[c.kind] # "deny"
      /\ c.kind = "agent" => c.batch
      /\ c.kind # "agent" => frame[top].streak < RepeatLimit
  BY <1>1, <1>2 DEF FrameInv, Located, GateReady, CallOuts, Out
<1>4. CASE c.kind = "agent"
  <2>1. Continue(frame[top]) /\ Push("tool") /\ Ran(c, 0)
    BY <1>4 DEF GateAccepted, RunBatch
  <2>2. QED BY <1>1, <1>2, <1>3, <1>4, <2>1, RanStep DEF RepeatLimit
<1>5. CASE c.kind # "agent"
  <2>1. Dispatch(frame[top], c)
    BY <1>5 DEF GateAccepted
  <2>2. QED BY <1>1, <1>2, <1>3, <1>5, <2>1, DispatchStep
<1>6. QED BY <1>4, <1>5

-----------------------------------------------------------------------------
(* The invariant is inductive. *)

LEMMA InitInv == Init => IInv
<1> SUFFICES ASSUME Init PROVE IInv
  OBVIOUS
<1>1. TypeOK
  <2>1. 0 \in 0 .. MaxTurns
    BY TurnAssumption
  <2>2. NoTurn \in LastType
    BY DEF NoTurn, LastType
  <2>3. QED BY <2>1, <2>2, NewFrameOK DEF Init, TypeOK, Levels, Idle, Roles
<1>2. FramesInv /\ ParentWaits /\ LateInv
  BY NewFrameOK DEF Init, FramesInv, ParentWaits, LateInv, Idle
<1>3. HistInv
  BY DEF Init, HistInv, HistoryWellFormed, WellFormed
<1>4. UnsavedReplyWasChallenged /\ IdenticalCallNeverRunsThrice /\ DeniedToolNeverRuns
  BY DEF Init, NoTurn, UnsavedReplyWasChallenged, IdenticalCallNeverRunsThrice,
     DeniedToolNeverRuns
<1>5. QED BY <1>1, <1>2, <1>3, <1>4 DEF IInv

LEMMA NextInv == IInv /\ [Next]_vars => IInv'
<1> SUFFICES ASSUME IInv, [Next]_vars PROVE IInv'
  OBVIOUS
<1>1. CASE Program
  BY <1>1, BeginIterationInv, ReturnsInv, GenerateDoneInv, NudgeInv, PlanInv,
     PlainRefusalsInv, AskInv, SpawnChildInv, BatchRunInv, GuardedInv DEF Program
<1>2. CASE User
  BY <1>2, StartTurnInv, PlainRefusalsInv, GateAcceptedInv DEF User
<1>3. CASE Sigint
  BY <1>3, SigintInv
<1>4. CASE UNCHANGED vars
  BY <1>4 DEF vars, IInv, TypeOK, FramesInv, ParentWaits, HistInv, HistoryWellFormed, LateInv,
     UnsavedReplyWasChallenged, IdenticalCallNeverRunsThrice, DeniedToolNeverRuns
<1>5. QED BY <1>1, <1>2, <1>3, <1>4 DEF Next, Terminated

(* The inductive invariant holds of every behaviour of the agent. *)
THEOREM AgentInvariant == Spec => []IInv
BY InitInv, NextInv, PTL DEF Spec

(* Type correctness: no local of run_turn ever leaves its range.           *)
THEOREM TypeCorrect == Spec => []TypeOK
<1>1. IInv => TypeOK
  BY DEF IInv
<1>2. QED BY <1>1, AgentInvariant, PTL

(* Every history a backend is sent is well formed (core/agent.c).          *)
THEOREM HistoriesStayWellFormed == Spec => []HistoryWellFormed
<1>1. IInv => HistoryWellFormed
  BY DEF IInv, HistInv
<1>2. QED BY <1>1, AgentInvariant, PTL

(* After Ctrl+C at most one tool still runs, sub-agent included.           *)
THEOREM InterruptStopsTheAgent == Spec => []InterruptBounded
<1>1. IInv => InterruptBounded
  BY DEF IInv, LateInv, InterruptBounded
<1>2. QED BY <1>1, AgentInvariant, PTL

(* Without --plan no turn ends in a plain reply over an unsaved write      *)
(* unless the model was told about it.                                     *)
THEOREM RecoveryGuardWorks == Spec => []UnsavedReplyWasChallenged
<1>1. IInv => UnsavedReplyWasChallenged
  BY DEF IInv
<1>2. QED BY <1>1, AgentInvariant, PTL

(* The repeat guard stops the third identical call.                        *)
THEOREM RepeatGuardWorks == Spec => []IdenticalCallNeverRunsThrice
<1>1. IInv => IdenticalCallNeverRunsThrice
  BY DEF IInv
<1>2. QED BY <1>1, AgentInvariant, PTL

(* A denied tool never runs, at any depth.                                 *)
THEOREM PolicyHolds == Spec => []DeniedToolNeverRuns
<1>1. IInv => DeniedToolNeverRuns
  BY DEF IInv
<1>2. QED BY <1>1, AgentInvariant, PTL

-----------------------------------------------------------------------------
(* AgentTurn implements TurnContract: under the mapping AgentTurn!Contract *)
(* the initial states are initial states, and every step of the agent, of  *)
(* its sub-agent or of the user is a step of the contract or a stutter.    *)

(* Between turns the locals of run_turn are those of a turn not begun. *)
IdleFresh == top = Idle => frame[0] = NewFrame

LEMMA InitFresh == Init => IdleFresh
BY DEF Init, IdleFresh, Levels

(* Only a return empties the terminal, and it leaves a fresh frame. *)
LEMMA NextFresh == IInv /\ IdleFresh /\ [Next]_vars => IdleFresh'
<1> SUFFICES ASSUME IInv, IdleFresh, [Next]_vars PROVE IdleFresh'
  OBVIOUS
<1>1. ASSUME NEW how, Return(how)
      PROVE  IdleFresh'
  BY <1>1 DEF Return, ReturnToRepl, ReturnToParent, IdleFresh, Levels, Idle, IInv, TypeOK
<1>2. CASE LoopExhausted \/ GenerateAborted \/ PlainReply \/ Final
  BY <1>1, <1>2 DEF LoopExhausted, GenerateAborted, PlainReply, Final
<1>3. CASE StartTurn
  BY <1>3 DEF StartTurn, IdleFresh, Idle
<1>4. CASE SpawnChild
  BY <1>4 DEF SpawnChild, IdleFresh, Idle
<1>5. CASE Sigint \/ UNCHANGED vars
  BY <1>5 DEF Sigint, IdleFresh, vars
<1>6. ASSUME top # Idle, top' = top
      PROVE  IdleFresh'
  BY <1>6 DEF IdleFresh
<1>7. CASE \/ BeginIteration \/ GenerateDone \/ BotchedCall \/ Nudge
           \/ RecordPlan \/ RejectReplan \/ Ask \/ AskAnswered
           \/ AgentTooDeep \/ BatchDenied \/ BatchRun \/ GateDeclined
           \/ RepeatRefused \/ PolicyDenied \/ ToolCall \/ GateAccepted
  BY <1>6, <1>7 DEF BeginIteration, GenerateDone, BotchedCall, Nudge, RecordPlan,
     RejectReplan, Ask, AskAnswered, AgentTooDeep, BatchDenied, BatchRun, GateDeclined,
     RepeatRefused, PolicyDenied, ToolCall, GateAccepted, Calling, Acting, At, Refuse,
     Quiet, RunBatch, Dispatch, Ran
<1>8. QED BY <1>2, <1>3, <1>4, <1>5, <1>7 DEF Next, Program, User, Terminated

-----------------------------------------------------------------------------
(* How the three shapes of a step look from outside. *)

Stays ==
  /\ top # Idle /\ top' # Idle /\ ~killed
  /\ UNCHANGED <<interrupt, killed, last>>

LEMMA StutterMaps ==
  ASSUME Stays, frame'[0].iter = frame[0].iter
  PROVE  UNCHANGED Contract!vars
BY DEF Stays, Contract!vars

LEMMA StepMaps ==
  ASSUME Stays, frame[0].iter < MaxIters, frame'[0].iter = frame[0].iter + 1
  PROVE  Contract!Step
BY DEF Stays, Contract!Step

(* The parent's loop counts; the sub-agent's is not seen. *)
LEMMA ContinueMaps ==
  ASSUME IInv, top \in Levels, top' = top, Stays, frame[top].iter < MaxIters,
         NEW f, NextIter(f).iter = frame[top].iter + 1, Continue(f)
  PROVE  [Contract!Next]_(Contract!vars)
<1>1. frame' = [frame EXCEPT ![top] = NextIter(f)] /\ frame \in [Levels -> FrameType]
  BY DEF Continue, IInv, TypeOK
<1>2. CASE top = 0
  <2>1. frame'[0].iter = frame[0].iter + 1 /\ frame[0].iter < MaxIters
    BY <1>1, <1>2
  <2>2. QED BY <2>1, StepMaps DEF Contract!Next
<1>3. CASE top = 1
  <2>1. frame'[0] = frame[0]
    BY <1>1, <1>3
  <2>2. QED BY <2>1, StutterMaps
<1>4. QED BY <1>2, <1>3 DEF Levels

(* None of the books kept in a frame is the loop counter. *)
LEMMA BooksAreNotTheCounter ==
  ASSUME NEW f \in FrameType
  PROVE  /\ NextIter(f).iter = f.iter + 1
         /\ \A c : NextIter(Guarded(f, c)).iter = f.iter + 1
         /\ \A ok : NextIter(Wrote(f, ok)).iter = f.iter + 1
         /\ \A c, ok : NextIter(Wrote(Guarded(f, c), ok)).iter = f.iter + 1
BY DEF NextIter, Guarded, Wrote, FrameType

LEMMA DispatchContinues ==
  ASSUME NEW f \in FrameType, NEW c,
         Dispatch(f, c) \/ Dispatch(Guarded(f, c), c)
  PROVE  \E g : Continue(g) /\ NextIter(g).iter = f.iter + 1
<1>1. ASSUME NEW g, Continue(g), NextIter(g).iter = f.iter + 1
      PROVE  \E h : Continue(h) /\ NextIter(h).iter = f.iter + 1
  BY <1>1
<1>2. ASSUME NEW g, NextIter(g).iter = f.iter + 1, Dispatch(g, c),
             \A ok \in BOOLEAN : NextIter(Wrote(g, ok)).iter = f.iter + 1
      PROVE  \E h : Continue(h) /\ NextIter(h).iter = f.iter + 1
  BY <1>1, <1>2 DEF Dispatch
<1>3. QED BY <1>2, BooksAreNotTheCounter

LEMMA GotoMaps ==
  ASSUME IInv, top \in Levels, top' = top, Stays,
         NEW f, f.iter = frame[top].iter, frame' = [frame EXCEPT ![top] = f]
  PROVE  [Contract!Next]_(Contract!vars)
<1>1. frame'[0].iter = frame[0].iter
  BY DEF IInv, TypeOK, Levels
<1>2. QED BY <1>1, StutterMaps

(* A return of the parent ends the turn; one of the sub-agent ends the     *)
(* parent's iteration.                                                     *)
LEMMA ReturnMaps ==
  ASSUME IInv, top \in Levels, ~killed, NEW how, Return(how),
         how \in {"replied", "final"} => frame[top].iter < MaxIters,
         how \notin {"replied", "final"} => how \in {"capped", "interrupted"},
         how = "capped" => ~interrupt /\ frame[top].iter = MaxIters,
         how = "interrupted" => interrupt
  PROVE  [Contract!Next]_(Contract!vars)
<1>1. CASE ReturnToRepl(how)
  <2>1. Contract!End(how) /\ top = 0
    BY <1>1, NewFrameOK DEF ReturnToRepl, Contract!End, NewFrame, Levels, Idle, IInv, TypeOK
  <2>2. QED BY <2>1 DEF Contract!Next, Contract!Answer, Contract!Cap, Contract!Stop
<1>2. CASE ReturnToParent
  <2>1. top = 1 /\ Stays
    BY <1>2 DEF ReturnToParent, Stays, Idle
  <2>2. frame[0] \in FrameType /\ frame[0].iter < MaxIters
    BY <2>1 DEF IInv, TypeOK, FramesInv, ParentWaits, Levels, FrameInv, Located
  <2>3. frame'[0].iter = frame[0].iter + 1
    BY <1>2, <2>2 DEF ReturnToParent, NextIter, FrameType, Levels
  <2>4. QED BY <2>1, <2>2, <2>3, StepMaps DEF Contract!Next
<1>3. QED BY <1>1, <1>2 DEF Return

-----------------------------------------------------------------------------
(* Every action has one of those shapes. *)

LEMMA ReturnsMap ==
  ASSUME IInv, LoopExhausted \/ GenerateAborted \/ PlainReply \/ Final
  PROVE  [Contract!Next]_(Contract!vars)
<1>1. top \in Levels /\ ~killed
  BY DEF LoopExhausted, GenerateAborted, PlainReply, Final, Calling, Acting, At, IInv, TypeOK
<1>2. frame[top] \in FrameType /\ (frame[top].pc # "head" => frame[top].iter < MaxIters)
  BY <1>1, TopFrame
<1>3. CASE LoopExhausted
  <2>1. frame[top].iter = MaxIters
    BY <1>2, <1>3, MaxItersNat DEF LoopExhausted, FrameType
  <2>2. QED BY <1>1, <1>3, <2>1, ReturnMaps DEF LoopExhausted
<1>4. CASE GenerateAborted
  BY <1>1, <1>4, ReturnMaps DEF GenerateAborted
<1>5. CASE PlainReply
  BY <1>1, <1>2, <1>5, ReturnMaps DEF PlainReply, Acting, At
<1>6. CASE Final
  BY <1>1, <1>2, <1>6, ReturnMaps DEF Final, Calling, Acting, At
<1>7. QED BY <1>3, <1>4, <1>5, <1>6

LEMMA GotosMap ==
  ASSUME IInv, BeginIteration \/ GenerateDone
  PROVE  [Contract!Next]_(Contract!vars)
<1>1. top \in Levels /\ Stays /\ top' = top
  BY DEF BeginIteration, GenerateDone, At, Quiet, Stays, IInv, TypeOK
<1>2. frame[top] \in FrameType
  BY <1>1, TopFrame
<1>3. CASE BeginIteration
  <2>1. [frame[top] EXCEPT !.pc = "gen"].iter = frame[top].iter
    BY <1>2 DEF FrameType
  <2>2. frame' = [frame EXCEPT ![top] = [frame[top] EXCEPT !.pc = "gen"]]
    BY <1>3 DEF BeginIteration, Goto
  <2>3. QED BY <1>1, <2>1, <2>2, GotoMaps
<1>4. CASE GenerateDone
  <2>1. PICK out \in Outputs :
          frame' = [frame EXCEPT ![top] = [frame[top] EXCEPT !.pc = "act", !.out = out]]
    BY <1>4, <1>1 DEF GenerateDone, IInv, TypeOK
  <2>2. [frame[top] EXCEPT !.pc = "act", !.out = out].iter = frame[top].iter
    BY <1>2 DEF FrameType
  <2>3. QED BY <1>1, <2>1, <2>2, GotoMaps
<1>5. QED BY <1>3, <1>4

(* Every answered call, whether it ran or was refused. *)
LEMMA AnswersMap ==
  ASSUME IInv,
         \/ BotchedCall \/ Nudge \/ RecordPlan \/ RejectReplan \/ Ask \/ AskAnswered
         \/ AgentTooDeep \/ BatchDenied \/ BatchRun \/ RepeatRefused \/ PolicyDenied
         \/ ToolCall \/ GateDeclined \/ GateAccepted
  PROVE  [Contract!Next]_(Contract!vars)
<1>1. top \in Levels /\ frame[top].pc \in {"act", "confirm", "ask"}
  BY DEF BotchedCall, Nudge, RecordPlan, RejectReplan, Ask, AskAnswered, AgentTooDeep,
     BatchDenied, BatchRun, RepeatRefused, PolicyDenied, ToolCall, GateDeclined,
     GateAccepted, Calling, Acting, At, IInv, TypeOK
<1>2. Stays /\ top' = top
  BY DEF Stays, BotchedCall, Nudge, RecordPlan, RejectReplan, Ask, AskAnswered, AgentTooDeep,
     BatchDenied, BatchRun, RepeatRefused, PolicyDenied, ToolCall, GateDeclined,
     GateAccepted, Calling, Acting, At, Refuse, Quiet, RunBatch, Dispatch, Ran
<1>3. /\ frame[top] \in FrameType /\ FrameInv(frame[top])
      /\ frame[top].iter < MaxIters
  BY <1>1, TopFrame
<1> DEFINE f == frame[top]
           c == Out.call
<1>4. ASSUME NEW g, NextIter(g).iter = f.iter + 1, Continue(g)
      PROVE  [Contract!Next]_(Contract!vars)
  BY <1>1, <1>2, <1>3, <1>4, ContinueMaps
<1>5. ASSUME NEW g, g.iter = f.iter, frame' = [frame EXCEPT ![top] = g]
      PROVE  [Contract!Next]_(Contract!vars)
  BY <1>1, <1>2, <1>5, GotoMaps
<1>6. \A pc : [f EXCEPT !.pc = pc].iter = f.iter /\ [Guarded(f, c) EXCEPT !.pc = pc].iter = f.iter
  BY <1>3 DEF Guarded, FrameType
<1>7. CASE BotchedCall \/ AskAnswered \/ AgentTooDeep \/ BatchDenied \/ GateDeclined
  BY <1>3, <1>4, <1>7, BooksAreNotTheCounter
  DEF BotchedCall, AskAnswered, AgentTooDeep, BatchDenied, GateDeclined, Refuse
<1>8. CASE Nudge
  <2> DEFINE g == [f EXCEPT !.nudges = @ + 1,
                            !.recovers = IF f.unsaved THEN @ + 1 ELSE @,
                            !.intents = IF f.unsaved \/ f.plan THEN @ ELSE @ + 1]
  <2>1. NextIter(g).iter = f.iter + 1
    BY <1>3 DEF NextIter, FrameType
  <2>2. Continue(g)
    BY <1>8 DEF Nudge
  <2> HIDE DEF g
  <2>3. QED BY <1>4, <2>1, <2>2
<1>9. CASE RecordPlan
  <2> DEFINE g == [f EXCEPT !.plan = TRUE, !.nudges = 0]
  <2>1. NextIter(g).iter = f.iter + 1
    BY <1>3 DEF NextIter, FrameType
  <2>2. Continue(g)
    BY <1>9 DEF RecordPlan, Refuse
  <2> HIDE DEF g
  <2>3. QED BY <1>4, <2>1, <2>2
<1>10. CASE RejectReplan
  <2> DEFINE g == [f EXCEPT !.replans = @ + 1, !.plan = f.replans + 1 < 2]
  <2>1. NextIter(g).iter = f.iter + 1
    BY <1>3 DEF NextIter, FrameType
  <2>2. Continue(g)
    BY <1>10 DEF RejectReplan, Refuse
  <2> HIDE DEF g
  <2>3. QED BY <1>4, <2>1, <2>2
<1>11. CASE Ask
  <2>1. CASE Mode = "print"
    BY <1>3, <1>4, <1>11, <2>1, BooksAreNotTheCounter DEF Ask, Refuse
  <2>2. CASE Mode # "print"
    BY <1>5, <1>6, <1>11, <2>2 DEF Ask, Goto
  <2>3. QED BY <2>1, <2>2
<1>12. CASE RepeatRefused \/ PolicyDenied
  BY <1>3, <1>4, <1>12, BooksAreNotTheCounter DEF RepeatRefused, PolicyDenied, Refuse
<1>13. CASE BatchRun
  <2>1. CASE Gated(c)
    BY <1>5, <1>6, <1>13, <2>1 DEF BatchRun, Goto
  <2>2. CASE ~Gated(c)
    BY <1>3, <1>4, <1>13, <2>2, BooksAreNotTheCounter DEF BatchRun, RunBatch
  <2>3. QED BY <2>1, <2>2
<1>14. CASE ToolCall
  <2>1. CASE Gated(c)
    BY <1>5, <1>6, <1>14, <2>1 DEF ToolCall
  <2>2. CASE ~Gated(c)
    <3>1. Dispatch(Guarded(f, c), c)
      BY <1>14, <2>2 DEF ToolCall
    <3>2. PICK g : Continue(g) /\ NextIter(g).iter = f.iter + 1
      BY <1>3, <3>1, DispatchContinues
    <3>3. QED BY <1>4, <3>2
  <2>3. QED BY <2>1, <2>2
<1>15. CASE GateAccepted
  <2>1. CASE c.kind = "agent"
    BY <1>3, <1>4, <1>15, <2>1, BooksAreNotTheCounter DEF GateAccepted, RunBatch
  <2>2. CASE c.kind # "agent"
    BY <1>3, <1>4, <1>15, <2>2, DispatchContinues DEF GateAccepted
  <2>3. QED BY <2>1, <2>2
<1>16. QED BY <1>7, <1>8, <1>9, <1>10, <1>11, <1>12, <1>13, <1>14, <1>15

(* Every step of the agent is a step of its contract or a stutter. *)
LEMMA NextMaps ==
  ASSUME IInv, IdleFresh, [Next]_vars
  PROVE  [Contract!Next]_(Contract!vars)
<1>1. CASE SpawnChild
  <2>1. Stays /\ frame'[0] = frame[0]
    BY <1>1 DEF SpawnChild, Calling, Acting, At, Stays, Idle, IInv, TypeOK, Levels
  <2>2. QED BY <2>1, StutterMaps
<1>2. CASE StartTurn
  <2>1. Contract!Begin
    BY <1>2 DEF StartTurn, Contract!Begin, IdleFresh, Levels, Idle, IInv, TypeOK
  <2>2. QED BY <2>1 DEF Contract!Next
<1>3. CASE Sigint
  <2>1. Contract!Press
    BY <1>3 DEF Sigint, Contract!Press
  <2>2. QED BY <2>1 DEF Contract!Next
<1>4. CASE UNCHANGED vars
  BY <1>4 DEF vars, Contract!vars
<1>5. QED BY <1>1, <1>2, <1>3, <1>4, ReturnsMap, GotosMap, AnswersMap
          DEF Next, Program, User, Terminated

LEMMA InitMaps == Init => Contract!Init
BY DEF Init, Contract!Init, NewFrame, NoTurn, Levels

(* The agent implements the contract of a turn: at most MaxIters steps,    *)
(* capped only when they are spent, interrupted only after Ctrl+C.         *)
THEOREM AgentKeepsContract == Spec => KeepsContract
<1>1. Init => IInv /\ IdleFresh /\ Contract!Init
  BY InitInv, InitFresh, InitMaps
<1>2. IInv /\ IdleFresh /\ [Next]_vars => (IInv /\ IdleFresh)'
  BY NextInv, NextFresh
<1>3. IInv /\ IdleFresh /\ [Next]_vars => [Contract!Next]_(Contract!vars)
  BY NextMaps
<1>4. QED BY <1>1, <1>2, <1>3, PTL DEF Spec, KeepsContract, Contract!Spec
=============================================================================
