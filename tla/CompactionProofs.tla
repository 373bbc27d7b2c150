-------------------------- MODULE CompactionProofs --------------------------
(***************************************************************************)
(* Proofs about Compaction, for any texts, windows and history length: the *)
(* messages compaction may not touch are intact, the newest go last, every *)
(* turn of the loop counts, and a prompt inside the budget is inside the   *)
(* window.                                                                 *)
(***************************************************************************)
EXTENDS Compaction, FiniteSetTheorems, SequenceTheorems, WellFoundedInduction, TLAPS

ResultsUntagged == \A i \in DOMAIN h : h[i].role = "tool" => ~h[i].tag

IInv == HistoryOK /\ ResultsUntagged /\ TaskAndCallsIntact

(* A text that is still long has never been rewritten.                     *)
LEMMA LongIsWhole ==
  ASSUME NEW t \in Kept, Long(t)
  PROVE  t \in Texts
<1>1. ~Long(Empty) /\ ~Long(ElidedNote)
  BY DEF Long, MinLen, Empty, ElidedNote
<1>2. ASSUME NEW u \in Texts PROVE ~Long(Cut(u))
  BY DEF Long, MinLen, Cut
<1> QED BY <1>1, <1>2 DEF Kept

LEMMA InitIInv == Init => IInv
  BY DEF Init, IInv, HistoryOK, ResultsUntagged, TaskAndCallsIntact

(* Rewriting a message past the first that is not a tagged call.           *)
LEMMA RewriteSafe ==
  ASSUME IInv, NEW i \in 2 .. Len(h), ~h[i].tag, NEW t \in Kept,
         Rewrite(i, t), UNCHANGED said
  PROVE  IInv'
<1>1. i \in DOMAIN h /\ h[i] \in Message
  BY DEF IInv, HistoryOK
<1>2. [h[i] EXCEPT !.text = t, !.elided = TRUE] \in Message
  BY <1>1 DEF Message
<1>3. h' = [h EXCEPT ![i] = [h[i] EXCEPT !.text = t, !.elided = TRUE]]
  BY <1>1 DEF Rewrite, IInv, HistoryOK
<1>4. h' \in Seq(Message) /\ Len(h') = Len(h)
  BY <1>1, <1>2, <1>3 DEF IInv, HistoryOK
<1>5. ASSUME NEW j \in DOMAIN h', j = 1 \/ h'[j].tag PROVE h'[j].text = said[j]
  <2>1. j # i
    BY <1>1, <1>3, <1>5 DEF Message, IInv, HistoryOK
  <2>2. j \in DOMAIN h /\ h'[j] = h[j]
    BY <1>3, <1>5, <2>1 DEF IInv, HistoryOK
  <2> QED BY <1>5, <2>2 DEF IInv, TaskAndCallsIntact
<1>6. ResultsUntagged'
  BY <1>1, <1>3 DEF IInv, HistoryOK, ResultsUntagged, Message
<1> QED BY <1>4, <1>5, <1>6 DEF IInv, HistoryOK, TaskAndCallsIntact

(* A pushed message is intact by construction.                             *)
LEMMA PushSafe ==
  ASSUME IInv, NEW m \in Message, m.text \in Texts \cup {Empty},
         m.role = "tool" => ~m.tag, Push(m)
  PROVE  IInv'
<1>1. h' = Append(h, m) /\ said' = Append(said, m.text)
  BY DEF Push
<1>2. HistoryOK'
  BY <1>1 DEF IInv, HistoryOK
<1>3. ASSUME NEW j \in DOMAIN h', j = 1 \/ h'[j].tag PROVE h'[j].text = said'[j]
  <2>1. CASE j = Len(h) + 1
    BY <1>1, <2>1 DEF IInv, HistoryOK
  <2>2. CASE j # Len(h) + 1
    <3>1. j \in DOMAIN h /\ h'[j] = h[j] /\ said'[j] = said[j]
      BY <1>1, <1>3, <2>2 DEF IInv, HistoryOK
    <3> QED BY <1>3, <3>1 DEF IInv, TaskAndCallsIntact
  <2> QED BY <2>1, <2>2
<1>4. ResultsUntagged'
  BY <1>1 DEF IInv, HistoryOK, ResultsUntagged
<1> QED BY <1>2, <1>3, <1>4 DEF IInv, TaskAndCallsIntact

LEMMA FreshIsMessage ==
  ASSUME NEW role \in Roles, NEW call \in BOOLEAN, NEW tag \in BOOLEAN,
         NEW t \in Texts \cup {Empty}
  PROVE  Fresh(role, call, tag, t) \in Message /\ Fresh(role, call, tag, t).text = t
  BY DEF Fresh, Message, Kept

LEMMA NextIInv == IInv /\ [Next]_vars => IInv'
<1> SUFFICES ASSUME IInv, [Next]_vars PROVE IInv'
  OBVIOUS
<1>0. CASE UNCHANGED <<h, said>>
  BY <1>0 DEF IInv, HistoryOK, ResultsUntagged, TaskAndCallsIntact
<1>1. CASE ShrinkStep
  <2>0. UNCHANGED said /\ ElidedNote \in Kept
    BY <1>1 DEF ShrinkStep, Kept
  <2>1. ASSUME NEW i \in 2 .. Len(h), h[i].role = "tool", Rewrite(i, ElidedNote)
        PROVE  IInv'
    <3>1. ~h[i].tag
      BY <2>1 DEF IInv, HistoryOK, ResultsUntagged
    <3> QED BY <2>0, <2>1, <3>1, RewriteSafe
  <2>2. CASE ElideOldResult
    <3>1. PICK i \in OldResults : Rewrite(i, ElidedNote)
      BY <2>2 DEF ElideOldResult
    <3>2. i \in 2 .. Len(h) /\ h[i].role = "tool"
      BY <3>1 DEF OldResults, KeepRecent, IInv, HistoryOK
    <3> QED BY <2>1, <3>1, <3>2
  <2>3. CASE CutLongMessage
    <3>1. PICK i \in LongMessages : Rewrite(i, Cut(h[i].text))
      BY <2>3 DEF CutLongMessage
    <3>2. i \in 2 .. Len(h) /\ ~h[i].tag /\ Long(h[i].text)
      BY <3>1 DEF LongMessages, KeepRecent, IInv, HistoryOK
    <3>3. h[i].text \in Kept
      <4>1. h[i] \in Message
        BY <3>2 DEF IInv, HistoryOK
      <4> QED BY <4>1 DEF Message
    <3>4. Cut(h[i].text) \in Kept
      BY <3>2, <3>3, LongIsWhole DEF Kept
    <3> QED BY <2>0, <3>1, <3>2, <3>4, RewriteSafe
  <2>4. CASE ElideRecentResult
    <3>1. PICK i \in Results : Rewrite(i, ElidedNote)
      BY <2>4 DEF ElideRecentResult
    <3>2. i \in 2 .. Len(h) /\ h[i].role = "tool"
      BY <3>1 DEF Results
    <3> QED BY <2>1, <3>1, <3>2
  <2> QED BY <1>1, <2>2, <2>3, <2>4 DEF ShrinkStep
<1>2. ASSUME NEW t \in Texts, UserTurn(t) PROVE IInv'
  <2>1. Push(Fresh("user", FALSE, FALSE, t))
    BY <1>2 DEF UserTurn
  <2> QED BY <2>1, PushSafe, FreshIsMessage DEF Roles, Fresh
<1>3. ASSUME NEW t \in Texts, ToolAnswers(t) PROVE IInv'
  <2>1. Push(Fresh("tool", FALSE, FALSE, t))
    BY <1>3 DEF ToolAnswers
  <2> QED BY <2>1, PushSafe, FreshIsMessage DEF Roles, Fresh
<1>4. ASSUME NEW t \in Texts, NEW call \in BOOLEAN, NEW tag \in BOOLEAN,
             Generated(call, tag, t)
      PROVE  IInv'
  <2>1. Push(Fresh("assistant", call, tag, t))
    BY <1>4 DEF Generated
  <2> QED BY <2>1, PushSafe, FreshIsMessage DEF Roles, Fresh
<1>5. CASE GenerateFailed
  <2>1. Push(Fresh("assistant", FALSE, FALSE, Empty))
    BY <1>5 DEF GenerateFailed
  <2> QED BY <2>1, PushSafe, FreshIsMessage DEF Roles, Fresh
<1>6. CASE NewConversation
  BY <1>6 DEF NewConversation, IInv, HistoryOK, ResultsUntagged, TaskAndCallsIntact
<1> QED
  BY <1>0, <1>1, <1>2, <1>3, <1>4, <1>5, <1>6
  DEF Next, Shrinking, Send, CompactDone, Interrupted, Compact, SwitchModel,
      Terminated, vars

(* The task and the tagged tool calls survive any number of compactions.   *)
THEOREM TaskAndCallsSurvive == Spec => []TaskAndCallsIntact
<1>1. IInv => TaskAndCallsIntact
  BY DEF IInv
<1> QED BY InitIInv, NextIInv, <1>1, PTL DEF Spec

(* Every step that rewrites one of the two newest messages finds every     *)
(* older message that may be cut already cut.                              *)
LEMMA StepFreshest ==
  ASSUME IInv, [Next]_vars, h' # <<>>, NEW i \in DOMAIN h,
         i > Len(h) - KeepRecent, h'[i] # h[i]
  PROVE  ElideRecentResult
<1>0. Len(h) \in Nat /\ DOMAIN h = 1 .. Len(h) /\ KeepRecent = 2 /\ i \in 1 .. Len(h)
  BY DEF IInv, HistoryOK, KeepRecent
<1>1. ASSUME NEW j \in DOMAIN h, j # i, NEW t, Rewrite(j, t) PROVE FALSE
  <2>1. h' = [h EXCEPT ![j] = [h[j] EXCEPT !.text = t, !.elided = TRUE]]
    BY <1>1 DEF Rewrite, IInv, HistoryOK, Message
  <2> QED BY <1>1, <2>1 DEF IInv, HistoryOK
<1>2. ASSUME NEW m, Push(m) PROVE FALSE
  <2>1. h' = Append(h, m)
    BY <1>2 DEF Push
  <2> QED BY <2>1 DEF IInv, HistoryOK
<1>3. ~ElideOldResult
  <2> SUFFICES ASSUME ElideOldResult PROVE FALSE
    OBVIOUS
  <2>1. PICK j \in OldResults : Rewrite(j, ElidedNote)
    BY DEF ElideOldResult
  <2>2. j \in DOMAIN h /\ j # i
    BY <1>0, <2>1 DEF OldResults
  <2> QED BY <1>1, <2>1, <2>2
<1>4. ~CutLongMessage
  <2> SUFFICES ASSUME CutLongMessage PROVE FALSE
    OBVIOUS
  <2>1. PICK j \in LongMessages : Rewrite(j, Cut(h[j].text))
    BY DEF CutLongMessage
  <2>2. j \in DOMAIN h /\ j # i
    BY <1>0, <2>1 DEF LongMessages
  <2> QED BY <1>1, <2>1, <2>2
<1>5. h' # h
  OBVIOUS
<1>6. \A t \in Texts : ~UserTurn(t) /\ ~ToolAnswers(t)
                       /\ \A call, tag \in BOOLEAN : ~Generated(call, tag, t)
  BY <1>2 DEF UserTurn, ToolAnswers, Generated
<1>7. ~GenerateFailed
  BY <1>2 DEF GenerateFailed
<1> QED
  BY <1>3, <1>4, <1>5, <1>6, <1>7
  DEF Next, Shrinking, ShrinkStep, Send, CompactDone, Interrupted, Compact,
      SwitchModel, NewConversation, Terminated, vars

LEMMA FreshestStep ==
  ASSUME IInv, [Next]_vars, h' # <<>>, NEW i \in DOMAIN h,
         i > Len(h) - KeepRecent, h'[i] # h[i], NEW j \in 2 .. Len(h) - KeepRecent
  PROVE  h[j].elided \/ (h[j].role # "tool" /\ (h[j].tag \/ ~Long(h[j].text)))
<1>1. ElideRecentResult
  BY StepFreshest
<1>2. OldResults = {} /\ LongMessages = {}
  BY <1>1 DEF ElideRecentResult
<1> QED BY <1>2 DEF OldResults, LongMessages

(* What the model has just been told is rewritten last.                    *)
THEOREM FreshestIsLast == Spec => FreshestGoesLast
<1>1. IInv /\ [Next]_vars =>
        (h' # <<>> =>
           \A i \in DOMAIN h :
             i > Len(h) - KeepRecent /\ h'[i] # h[i] =>
               \A j \in 2 .. Len(h) - KeepRecent :
                 h[j].elided \/ (h[j].role # "tool" /\ (h[j].tag \/ ~Long(h[j].text))))
  BY FreshestStep
<1> QED BY InitIInv, NextIInv, <1>1, PTL DEF Spec, FreshestGoesLast
-----------------------------------------------------------------------------

(* The messages the loop may still rewrite.                                *)
Uncut == {i \in 2 .. Len(h) : ~h[i].elided}

LEMMA RewriteCounts ==
  ASSUME HistoryOK, NEW i \in Uncut, NEW t, Rewrite(i, t)
  PROVE  /\ Cardinality(Uncut) \in 1 .. Len(h) - 1
         /\ Cardinality(Uncut') = Cardinality(Uncut) - 1
<1>1. Len(h) \in Nat /\ i \in 1 .. Len(h) /\ i >= 2 /\ DOMAIN h = 1 .. Len(h)
  BY DEF HistoryOK, Uncut
<1>2. h' = [h EXCEPT ![i] = [h[i] EXCEPT !.text = t, !.elided = TRUE]]
  BY <1>1 DEF Rewrite, HistoryOK
<1>3. h[i] \in Message
  BY <1>1 DEF HistoryOK
<1>4. h'[i].elided /\ \A j \in 1 .. Len(h) : j # i => h'[j] = h[j]
  BY <1>1, <1>2, <1>3 DEF HistoryOK, Message
<1>5. Len(h') = Len(h)
  BY <1>1, <1>2 DEF HistoryOK
<1>6. Uncut' = Uncut \ {i}
  <2>1. Uncut' = {j \in 2 .. Len(h) : ~h'[j].elided}
    BY <1>5 DEF Uncut
  <2>2. \A j \in 2 .. Len(h) : ~h'[j].elided <=> ~h[j].elided /\ j # i
    BY <1>1, <1>4
  <2>3. QED BY <2>1, <2>2 DEF Uncut
<1>7. IsFiniteSet(2 .. Len(h)) /\ Cardinality(2 .. Len(h)) = Len(h) - 1
  BY <1>1, FS_Interval
<1>8. IsFiniteSet(Uncut) /\ Cardinality(Uncut) \in Nat /\ Cardinality(Uncut) <= Len(h) - 1
  <2>1. Uncut \subseteq 2 .. Len(h)
    BY DEF Uncut
  <2>2. IsFiniteSet(Uncut) /\ Cardinality(Uncut) <= Cardinality(2 .. Len(h))
    BY <1>7, <2>1, FS_Subset
  <2>3. Cardinality(Uncut) \in Nat
    BY <2>2, FS_CardinalityType
  <2>4. QED BY <1>7, <2>2, <2>3
<1>9. Cardinality(Uncut \ {i}) = Cardinality(Uncut) - 1 /\ Cardinality(Uncut \ {i}) \in Nat
  BY <1>8, FS_RemoveElement, FS_CardinalityType
<1>10. QED BY <1>1, <1>6, <1>8, <1>9

LEMMA ShrinkCounts ==
  ASSUME HistoryOK, ShrinkStep
  PROVE  /\ Cardinality(Uncut) \in 1 .. Len(h) - 1
         /\ Cardinality(Uncut') = Cardinality(Uncut) - 1
<1>1. PICK i \in OldResults \cup LongMessages \cup Results : \E t : Rewrite(i, t)
  BY DEF ShrinkStep, ElideOldResult, CutLongMessage, ElideRecentResult
<1>2. i \in Uncut
  <2>1. Len(h) \in Nat
    BY DEF HistoryOK
  <2>2. QED BY <1>1, <2>1 DEF OldResults, LongMessages, Results, Uncut, KeepRecent
<1>3. QED BY <1>1, <1>2, RewriteCounts

(* Why the loops of run_turn and /compact end: each turn of them takes one *)
(* message for good from those that may still be rewritten, the first of   *)
(* the conversation never; for a history of any length.                    *)
THEOREM EveryShrinkCounts ==
  Spec => [][ShrinkStep => /\ Cardinality(Uncut) \in 1 .. Len(h) - 1
                           /\ Cardinality(Uncut') = Cardinality(Uncut) - 1]_vars
<1>1. IInv => HistoryOK
  BY DEF IInv
<1>2. HistoryOK /\ [Next]_vars =>
        [ShrinkStep => /\ Cardinality(Uncut) \in 1 .. Len(h) - 1
                       /\ Cardinality(Uncut') = Cardinality(Uncut) - 1]_vars
  BY ShrinkCounts
<1>3. QED BY <1>1, <1>2, InitIInv, NextIInv, PTL DEF Spec

(***************************************************************************)
(* The sizes.  Induction is the least element of a set of numbers, as in   *)
(* HostedBackendProofs: the induction theorems of the library take an      *)
(* operator, which the provers cannot instantiate.                         *)
(***************************************************************************)
LEMMA LeastNat ==
  ASSUME NEW T, T \subseteq Nat, T # {}
  PROVE  \E x \in T : \A y \in T : x <= y
<1>1. PICK x \in T : \A y \in T : <<y, x>> \notin OpToRel(<, Nat)
  BY NatLessThanWellFounded, WFMin
<1>2. ASSUME NEW y \in T PROVE ~(y < x)
  <2>1. y < x => <<y, x>> \in OpToRel(<, Nat)
    BY Zenon DEF OpToRel
  <2>2. QED BY <1>1, <2>1, Zenon
<1>3. \A y \in T : x <= y
  BY <1>2
<1>4. QED BY <1>3

(* A value carried over 1 .. N from c by d is a function.                  *)
IsRun(g, c, d, N) == g[0] = c /\ \A n \in 1 .. N : g[n] = d[<<n, g[n - 1]>>]

LEMMA FiniteRecursion ==
  ASSUME NEW S, NEW c \in S, NEW d \in [Nat \X S -> S], NEW N \in Nat
  PROVE  \E g \in [0 .. N -> S] : IsRun(g, c, d, N)
<1> DEFINE Stuck == {k \in Nat : ~\E g \in [0 .. k -> S] : IsRun(g, c, d, k)}
<1>1. SUFFICES ASSUME Stuck # {} PROVE FALSE
  BY DEF Stuck
<1>2. PICK k \in Stuck : \A m \in Stuck : k <= m
  BY <1>1, LeastNat
<1>3. CASE k = 0
  <2>1. IsRun([i \in 0 .. k |-> c], c, d, k) /\ [i \in 0 .. k |-> c] \in [0 .. k -> S]
    BY <1>3 DEF IsRun
  <2>2. QED BY <2>1
<1>4. CASE k # 0
  <2>1. PICK g \in [0 .. k - 1 -> S] : IsRun(g, c, d, k - 1)
    <3>1. k - 1 \in Nat /\ k - 1 \notin Stuck
      BY <1>2, <1>4
    <3>2. QED BY <3>1
  <2> DEFINE run == [i \in 0 .. k |-> IF i = k THEN d[<<k, g[k - 1]>>] ELSE g[i]]
  <2>2. run \in [0 .. k -> S]
    BY <1>4, <2>1 DEF IsRun
  <2>3. IsRun(run, c, d, k)
    BY <1>4, <2>1 DEF IsRun
  <2>4. QED BY <2>2, <2>3
<1>5. QED BY <1>3, <1>4

(* What Total adds up.                                                     *)
LEMMA TotalIs ==
  ASSUME NEW s \in Seq(Nat)
  PROVE  \E g \in [0 .. Len(s) -> Nat] :
           /\ g[0] = 0
           /\ \A n \in 1 .. Len(s) : g[n] = g[n - 1] + s[n]
           /\ Total(s) = g[Len(s)]
<1> DEFINE N == Len(s)
           body(f) == [n \in 0 .. N |-> IF n = 0 THEN 0 ELSE f[n - 1] + s[n]]
           upTo == CHOOSE f : f = body(f)
           d == [p \in Nat \X Nat |-> IF p[1] \in 1 .. N THEN p[2] + s[p[1]] ELSE 0]
<1>1. N \in Nat
  OBVIOUS
<1>2. d \in [Nat \X Nat -> Nat]
  OBVIOUS
<1>3. PICK g \in [0 .. N -> Nat] : g[0] = 0 /\ \A n \in 1 .. N : g[n] = d[<<n, g[n - 1]>>]
  <2> HIDE DEF d, N
  <2>1. \E g \in [0 .. N -> Nat] : IsRun(g, 0, d, N)
    BY <1>1, <1>2, FiniteRecursion
  <2>2. QED BY <2>1 DEF IsRun
<1>4. \A n \in 1 .. N : g[n] = g[n - 1] + s[n]
  <2>1. ASSUME NEW n \in 1 .. N PROVE g[n] = g[n - 1] + s[n]
    <3>1. n - 1 \in 0 .. N /\ n \in Nat /\ g[n - 1] \in Nat
      BY <1>1, <1>3
    <3>2. d[<<n, g[n - 1]>>] = g[n - 1] + s[n]
      BY <3>1
    <3>3. QED BY <1>3, <3>2
  <2>2. QED BY <2>1
<1> HIDE DEF d
<1>5. g = body(g)
  <2>1. ASSUME NEW n \in 0 .. N PROVE g[n] = body(g)[n]
    <3>1. CASE n = 0
      BY <1>1, <1>3, <3>1
    <3>2. CASE n # 0
      <4>1. n \in 1 .. N
        BY <1>1, <3>2
      <4>2. QED BY <1>4, <3>2, <4>1
    <3>3. QED BY <3>1, <3>2
  <2>2. QED BY <1>3, <2>1
<1>6. upTo = body(upTo)
  <2> HIDE DEF body
  <2>1. QED BY <1>5
<1>7. Total(s) = upTo[N]
  BY DEF Total
<1> DEFINE Bad == {n \in 0 .. N : upTo[n] # g[n]}
<1>8. Bad = {}
  <2> SUFFICES ASSUME Bad # {} PROVE FALSE
    OBVIOUS
  <2>1. PICK n \in Bad : \A m \in Bad : n <= m
    <3>1. Bad \subseteq Nat
      BY <1>1
    <3> HIDE DEF Bad
    <3>2. QED BY <3>1, LeastNat
  <2>2. upTo[n] = body(upTo)[n]
    BY <1>6
  <2> HIDE DEF upTo
  <2>3. n \in 0 .. N /\ upTo[n] # g[n]
    BY <2>1
  <2>4. n # 0
    BY <1>1, <1>3, <2>2, <2>3
  <2>5. n - 1 \in 0 .. N /\ n \in 1 .. N /\ upTo[n - 1] = g[n - 1]
    <3>1. n - 1 \in 0 .. N /\ n \in 1 .. N /\ ~(n <= n - 1)
      BY <1>1, <2>3, <2>4
    <3>2. n - 1 \notin Bad
      BY <2>1, <3>1
    <3>3. QED BY <3>1, <3>2
  <2>6. upTo[n] = upTo[n - 1] + s[n]
    BY <2>2, <2>3, <2>4
  <2>7. QED BY <1>4, <2>3, <2>5, <2>6
<1>9. upTo[N] = g[N]
  <2>1. N \in 0 .. N /\ N \notin Bad
    BY <1>1, <1>8
  <2>2. QED BY <2>1
<1>10. QED BY <1>3, <1>4, <1>7, <1>9

(* A sum is as dense as its parts, p tokens to 80 characters at most.      *)
LEMMA DenseSum ==
  ASSUME NEW p \in Nat, NEW c \in Nat, NEW t \in Nat, NEW d \in Nat, NEW u \in Nat,
         p * t <= 80 * c, p * u <= 80 * d
  PROVE  p * (t + u) <= 80 * (c + d)
<1>1. p * (t + u) = p * t + p * u
  OBVIOUS
<1>2. p * t \in Nat /\ p * u \in Nat
  OBVIOUS
<1>3. QED BY <1>1, <1>2

LEMMA DenseTotal ==
  ASSUME NEW p \in Nat, NEW c \in Seq(Nat), NEW t \in Seq(Nat), Len(c) = Len(t),
         \A i \in 1 .. Len(c) : p * t[i] <= 80 * c[i]
  PROVE  Total(c) \in Nat /\ Total(t) \in Nat /\ p * Total(t) <= 80 * Total(c)
<1> DEFINE N == Len(c)
<1>1. N \in Nat /\ Len(t) = N
  OBVIOUS
<1>2. PICK g \in [0 .. N -> Nat] :
        g[0] = 0 /\ (\A n \in 1 .. N : g[n] = g[n - 1] + c[n]) /\ Total(c) = g[N]
  BY TotalIs
<1>3. PICK k \in [0 .. N -> Nat] :
        k[0] = 0 /\ (\A n \in 1 .. N : k[n] = k[n - 1] + t[n]) /\ Total(t) = k[N]
  BY <1>1, TotalIs
<1> DEFINE Bad == {n \in 0 .. N : ~(p * k[n] <= 80 * g[n])}
<1>4. Bad = {}
  <2> SUFFICES ASSUME Bad # {} PROVE FALSE
    OBVIOUS
  <2>1. PICK n \in Bad : \A m \in Bad : n <= m
    <3>1. Bad \subseteq Nat
      BY <1>1
    <3> HIDE DEF Bad
    <3>2. QED BY <3>1, LeastNat
  <2>2. n \in 0 .. N /\ ~(p * k[n] <= 80 * g[n])
    BY <2>1
  <2>3. n # 0
    BY <1>2, <1>3, <2>2
  <2>4. n - 1 \in 0 .. N /\ n \in 1 .. N /\ ~(n <= n - 1)
    BY <1>1, <2>2, <2>3
  <2>5. p * k[n - 1] <= 80 * g[n - 1]
    <3>1. n - 1 \notin Bad
      BY <2>1, <2>4
    <3>2. QED BY <2>4, <3>1
  <2>6. g[n] = g[n - 1] + c[n] /\ k[n] = k[n - 1] + t[n]
    BY <1>2, <1>3, <2>4
  <2>7. g[n - 1] \in Nat /\ k[n - 1] \in Nat
    BY <1>2, <1>3, <2>4
  <2>8. c[n] \in Nat /\ t[n] \in Nat /\ p * t[n] <= 80 * c[n]
    <3>1. n \in 1 .. Len(c) /\ n \in 1 .. Len(t)
      BY <1>1, <2>4
    <3>2. c[n] \in Nat
      BY <3>1, ElementOfSeq
    <3>3. t[n] \in Nat
      BY <3>1, ElementOfSeq
    <3>4. p * t[n] <= 80 * c[n]
      BY <3>1
    <3>5. QED BY <3>2, <3>3, <3>4
  <2>9. ~(p * (k[n - 1] + t[n]) <= 80 * (g[n - 1] + c[n]))
    BY <2>2, <2>6
  <2>10. QED BY <2>5, <2>7, <2>8, <2>9, DenseSum
<1>5. p * k[N] <= 80 * g[N] /\ k[N] \in Nat /\ g[N] \in Nat
  <2>1. N \in 0 .. N
    BY <1>1
  <2>2. k[N] \in Nat /\ g[N] \in Nat
    BY <2>1
  <2>3. N \notin Bad
    BY <1>4
  <2>4. QED BY <2>1, <2>2, <2>3
<1>6. QED BY <1>2, <1>3, <1>5

LEMMA TotalIsNat == ASSUME NEW s \in Seq(Nat) PROVE Total(s) \in Nat
<1>1. PICK g \in [0 .. Len(s) -> Nat] : Total(s) = g[Len(s)]
  BY TotalIs
<1>2. Len(s) \in 0 .. Len(s)
  OBVIOUS
<1>3. QED BY <1>1, <1>2

-----------------------------------------------------------------------------
(* Type correctness.  The measured ratio is clamped before it is stored.   *)
LEMMA KeptAreTexts == \A t \in Kept : t.chars \in Nat /\ t.toks \in Nat
<1>1. \A t \in {Empty, ElidedNote} : t.chars \in Nat /\ t.toks \in Nat
  BY DEF Empty, ElidedNote
<1>2. ASSUME NEW t \in Texts PROVE t.chars \in Nat /\ t.toks \in Nat
  BY CompactionAssumption DEF IsText
<1>3. ASSUME NEW t \in Texts, Long(t) PROVE Cut(t).chars \in Nat /\ Cut(t).toks \in Nat
  <2>1. t.chars \in Nat /\ t.chars > 0 /\ t.toks \in Nat
    BY <1>2, <1>3 DEF Long, MinLen
  <2>2. (200 * t.toks) \div t.chars \in Nat
    BY <2>1
  <2>3. QED BY <2>2 DEF Cut
<1>4. QED BY <1>1, <1>2, <1>3 DEF Kept

LEMMA MessagesAreKept ==
  ASSUME HistoryOK
  PROVE  \A i \in 1 .. Len(h) : h[i].text \in Kept
<1>1. \A i \in 1 .. Len(h) : h[i] \in Message
  BY DEF HistoryOK
<1>2. \A m \in Message : m.text \in Kept
  BY DEF Message
<1>3. QED BY <1>1, <1>2

LEMMA SizesAreNat ==
  ASSUME HistoryOK
  PROVE  /\ [i \in 1 .. Len(h) |-> h[i].text.chars] \in Seq(Nat)
         /\ [i \in 1 .. Len(h) |-> h[i].text.toks] \in Seq(Nat)
         /\ Chars \in Nat /\ Toks \in Nat
<1> DEFINE c == [i \in 1 .. Len(h) |-> h[i].text.chars]
           t == [i \in 1 .. Len(h) |-> h[i].text.toks]
<1>1. \A i \in 1 .. Len(h) : h[i].text \in Kept
  BY MessagesAreKept
<1>2. Len(h) \in Nat
  BY DEF HistoryOK
<1>3. \A i \in 1 .. Len(h) : h[i].text.chars \in Nat /\ h[i].text.toks \in Nat
  BY <1>1, KeptAreTexts
<1>4. c \in Seq(Nat) /\ t \in Seq(Nat)
  BY <1>2, <1>3
<1>5. Overhead.chars \in Nat /\ Overhead.toks \in Nat
  BY CompactionAssumption DEF IsText
<1>6. Chars = Overhead.chars + Total(c) /\ Toks = Overhead.toks + Total(t)
  BY DEF Chars, Toks
<1> HIDE DEF c, t
<1>7. Total(c) \in Nat /\ Total(t) \in Nat
  BY <1>4, TotalIsNat
<1>8. QED BY <1>4, <1>5, <1>6, <1>7 DEF c, t

LEMMA MeasuredOK ==
  ASSUME HistoryOK, ratio \in 50 .. 84
  PROVE  Measured \in 50 .. 84
<1>1. Chars \in Nat /\ Toks \in Nat
  BY SizesAreNat
<1>2. Toks > 200 => (19 * Chars) \div Toks \in Int
  BY <1>1
<1> DEFINE r == (19 * Chars) \div Toks
<1>3. Measured = IF Toks > 200 THEN (IF r < 50 THEN 50 ELSE IF r > 84 THEN 84 ELSE r) ELSE ratio
  BY DEF Measured
<1> HIDE DEF r
<1>4. Toks > 200 => r \in Int
  BY <1>2 DEF r
<1>5. QED BY <1>1, <1>3, <1>4

LEMMA NextTypeOK == TypeOK /\ IInv /\ [Next]_vars => TypeOK'
<1> SUFFICES ASSUME TypeOK, IInv, [Next]_vars PROVE TypeOK'
  OBVIOUS
<1>1. HistoryOK'
  BY NextIInv DEF IInv
<1>2. phase' \in {"idle", "prepare", "generate", "act", "compact"}
  BY DEF TypeOK, Next, Shrinking, ShrinkStep, Send, CompactDone, UserTurn, ToolAnswers, Generated,
         GenerateFailed, Interrupted, Compact, NewConversation, SwitchModel, Terminated, vars
<1>3. window' \in Windows
  BY DEF TypeOK, Next, Shrinking, ShrinkStep, Send, CompactDone, UserTurn, ToolAnswers, Generated,
         GenerateFailed, Interrupted, Compact, NewConversation, SwitchModel, Terminated, vars
<1>4. ratio' = ratio \/ ratio' = Measured
  BY DEF TypeOK, Next, Shrinking, ShrinkStep, Send, CompactDone, UserTurn, ToolAnswers, Generated,
         GenerateFailed, Interrupted, Compact, NewConversation, SwitchModel, Terminated, vars
<1>5. ratio' \in 50 .. 84
  BY <1>4, MeasuredOK DEF TypeOK, IInv
<1>6. QED BY <1>1, <1>2, <1>3, <1>5 DEF TypeOK

(* Every message, ratio, phase and window keeps its range.                 *)
THEOREM CompactionTypeCorrect == Spec => []TypeOK
<1>1. Init => TypeOK
  BY DEF Init, TypeOK, HistoryOK
<1>2. QED BY <1>1, InitIInv, NextIInv, NextTypeOK, PTL DEF Spec

-----------------------------------------------------------------------------
(* The budget.  What is left for the generation is also what the texts may *)
(* deviate from the measured ratio: they may be a quarter denser.  (The    *)
(* token to spare makes up for a window that no 4 divides.)                *)
Covered(t, r) == 3 * r * t.toks <= 80 * t.chars

AllCovered(r) ==
  /\ \A t \in Texts : Covered(t, r)
  /\ 3 * r * (Overhead.toks + 1) <= 80 * Overhead.chars

LEMMA KeptCovered ==
  ASSUME NEW r \in 50 .. 84, AllCovered(r)
  PROVE  \A t \in Kept : Covered(t, r)
<1>1. Covered(Empty, r) /\ Covered(ElidedNote, r)
  BY DEF Covered, Empty, ElidedNote
<1>2. ASSUME NEW t \in Texts, Long(t) PROVE Covered(Cut(t), r)
  <2>1. PICK c \in Nat, k \in Nat : c = t.chars /\ k = t.toks
    BY CompactionAssumption DEF IsText
  <2>2. c >= 400 /\ 3 * r * k <= 80 * c
    BY <1>2, <2>1 DEF AllCovered, Covered, Long, MinLen
  <2> DEFINE q == (200 * k) \div c
             p == 3 * r
  <2>3. q \in Nat /\ q * c <= 200 * k
    BY <2>1, <2>2
  <2>4. p \in Nat /\ p <= 252 /\ p * k <= 80 * c
    BY <2>2
  <2>5. Cut(t).chars = 246 /\ Cut(t).toks = q + 10
    BY <2>1 DEF Cut
  <2>6. Covered(Cut(t), r) <=> p * (q + 10) <= 80 * 246
    BY <2>5 DEF Covered
  <2> HIDE DEF q, p
  <2>7. p * q <= 16000
    <3>1. p * (q * c) <= p * (200 * k)
      BY <2>1, <2>3, <2>4
    <3>2. p * (200 * k) = 200 * (p * k) /\ p * (q * c) = (p * q) * c
      BY <2>1, <2>3, <2>4
    <3>3. (p * q) * c <= 16000 * c
      BY <2>1, <2>3, <2>4, <3>1, <3>2
    <3>4. p * q \in Nat
      BY <2>3, <2>4
    <3> SUFFICES ASSUME p * q >= 16001 PROVE FALSE
      BY <3>4
    <3>5. (p * q) * c >= 16001 * c
      BY <2>1, <3>4
    <3>6. QED BY <2>1, <2>2, <3>3, <3>4, <3>5
  <2>8. p * (q + 10) = p * q + 10 * p /\ p * q \in Nat
    BY <2>3, <2>4
  <2>9. QED BY <2>4, <2>6, <2>7, <2>8
<1>3. QED BY <1>1, <1>2 DEF Kept, AllCovered

LEMMA PromptCovered ==
  ASSUME NEW r \in 50 .. 84, AllCovered(r), HistoryOK
  PROVE  3 * r * (Toks + 1) <= 80 * Chars
<1> DEFINE c == [i \in 1 .. Len(h) |-> h[i].text.chars]
           t == [i \in 1 .. Len(h) |-> h[i].text.toks]
           p == 3 * r
<1>1. c \in Seq(Nat) /\ t \in Seq(Nat)
  BY SizesAreNat
<1>2. Len(h) \in Nat /\ \A i \in 1 .. Len(h) : h[i].text \in Kept
  BY MessagesAreKept DEF HistoryOK
<1>3. Len(c) = Len(h) /\ Len(t) = Len(h)
  BY <1>2
<1>4. \A i \in 1 .. Len(h) : p * t[i] <= 80 * c[i]
  BY <1>2, KeptCovered DEF Covered
<1>5. Overhead.chars \in Nat /\ Overhead.toks \in Nat
  BY CompactionAssumption DEF IsText
<1>6. Chars = Overhead.chars + Total(c) /\ Toks = Overhead.toks + Total(t)
  BY DEF Chars, Toks
<1>7. p \in Nat /\ p * (Overhead.toks + 1) <= 80 * Overhead.chars
  BY DEF AllCovered
<1>8. 3 * r * (Toks + 1) = p * (Toks + 1)
  OBVIOUS
<1> HIDE DEF c, t, p
<1>9. Total(c) \in Nat /\ Total(t) \in Nat /\ p * Total(t) <= 80 * Total(c)
  BY <1>1, <1>3, <1>4, <1>7, DenseTotal
<1>10. p * ((Overhead.toks + 1) + Total(t)) <= 80 * (Overhead.chars + Total(c))
  BY <1>5, <1>7, <1>9, DenseSum
<1>11. Toks + 1 = (Overhead.toks + 1) + Total(t)
  BY <1>5, <1>6, <1>9
<1>12. QED BY <1>6, <1>8, <1>10, <1>11

LEMMA BudgetIsEnough ==
  ASSUME NEW w \in Nat, NEW r \in 50 .. 84, NEW c \in Nat, NEW k \in Nat,
         3 * r * (k + 1) <= 80 * c, c <= ((w - w \div 4) * r) \div 20
  PROVE  k <= w
<1> DEFINE a == w - w \div 4
           b == (a * r) \div 20
<1>1. a \in Nat /\ 4 * a <= 3 * w + 3
  OBVIOUS
<1>2. c <= b
  OBVIOUS
<1> HIDE DEF a
<1>3. 20 * b <= a * r /\ b \in Nat
  BY <1>1
<1> HIDE DEF b
<1>4. (4 * a) * r <= (3 * w + 3) * r
  BY <1>1
<1>5. 80 * c <= (4 * a) * r
  <2>1. a * r \in Nat /\ (4 * a) * r = 4 * (a * r)
    BY <1>1
  <2>2. QED BY <1>2, <1>3, <2>1
<1>6. 3 * r * (k + 1) <= (3 * w + 3) * r
  <2>1. 3 * r * (k + 1) \in Nat /\ (4 * a) * r \in Nat /\ (3 * w + 3) * r \in Nat
    BY <1>1
  <2>2. QED BY <1>4, <1>5, <2>1
<1>7. SUFFICES ASSUME k >= w + 1 PROVE FALSE
  OBVIOUS
<1>8. (3 * r) * (k + 1) >= (3 * r) * (w + 2)
  BY <1>7
<1>9. (3 * r) * (w + 2) = (3 * w + 3) * r + 3 * r
  OBVIOUS
<1>10. QED BY <1>6, <1>8, <1>9

LEMMA WithinBudget ==
  ASSUME NEW r \in 50 .. 84, AllCovered(r), TypeOK, ratio <= r, Chars <= Budget
  PROVE  Toks <= window
<1>1. HistoryOK /\ window \in Nat /\ ratio \in 50 .. 84
  BY CompactionAssumption DEF TypeOK
<1>2. Chars \in Nat /\ Toks \in Nat /\ 3 * r * (Toks + 1) <= 80 * Chars
  BY <1>1, SizesAreNat, PromptCovered
<1>3. 3 * ratio * (Toks + 1) <= 3 * r * (Toks + 1)
  BY <1>1, <1>2
<1>4. 3 * ratio * (Toks + 1) <= 80 * Chars
  BY <1>1, <1>2, <1>3
<1>5. Chars <= ((window - window \div 4) * ratio) \div 20
  BY DEF Budget
<1>6. QED BY <1>1, <1>2, <1>4, <1>5, BudgetIsEnough

(* The reserve covers the drift: when no text has fewer characters a token *)
(* than three quarters of the ratio in force, a prompt inside the budget   *)
(* is inside the window (agent.c:289-300).                                 *)
THEOREM BudgetCoversDrift ==
  Spec => [](AllCovered(ratio) => BudgetFitsWindow)
<1>1. TypeOK => (AllCovered(ratio) => BudgetFitsWindow)
  <2> SUFFICES ASSUME TypeOK, AllCovered(ratio), Chars <= Budget PROVE Toks <= window
    BY DEF BudgetFitsWindow
  <2>1. ratio \in 50 .. 84 /\ ratio <= ratio
    BY DEF TypeOK
  <2>2. QED BY <2>1, WithinBudget
<1>2. QED BY <1>1, CompactionTypeCorrect, PTL

(* Texts of 3.15 characters a token and more are covered whatever was      *)
(* measured: that is three quarters of the upper clamp, 4.2.               *)
THEOREM BudgetIsSafe == ASSUME AllCovered(84) PROVE Spec => []BudgetFitsWindow
<1>1. TypeOK => BudgetFitsWindow
  <2> SUFFICES ASSUME TypeOK, Chars <= Budget PROVE Toks <= window
    BY DEF BudgetFitsWindow
  <2>1. 84 \in 50 .. 84 /\ ratio <= 84
    BY DEF TypeOK
  <2>2. QED BY <2>1, WithinBudget
<1>2. QED BY <1>1, CompactionTypeCorrect, PTL
=============================================================================
