------------------------ MODULE HostedBackendProofs ------------------------
(***************************************************************************)
(* Proofs about HostedBackend, for every route, every setting of the       *)
(* retries and whatever the servers, the connection and the user do.       *)
(***************************************************************************)
EXTENDS HostedBackend, SequenceTheorems, WellFoundedInduction, TLAPS

(* The running POST of an attempt has been sent.                           *)
Out == IF pc \in {"wait", "judge", "nap"} THEN 1 ELSE 0
Width == Len(be.route)

Opened ==
  /\ be.provider \in Providers /\ be.route \in Routes /\ be.retries \in Int
  /\ Width \in Nat /\ Width >= 1
  /\ leg \in 1 .. Width
  /\ attempt \in Nat
  /\ flag \in BOOLEAN /\ silent \in BOOLEAN /\ rc \in {0, -1}
  /\ pc \in {"idle", "post", "wait", "judge", "nap"}

(* Every reply that was served is counted, and `got` is one of them.       *)
Accounted ==
  /\ replies \in Seq(Answers \cup {NotFound})
  /\ got.hr \in {0, -1} /\ got.id \in 0 .. Len(replies)
  /\ got.hr = 0 => got.id >= 1
  /\ pc \in {"idle", "post", "wait"} => got = NoReply
  /\ usage \in 0 .. Len(replies)

(* The attempts behind it cost at most a request per transport each, the   *)
(* running one as many as it has tried; what was sent after Ctrl+C was     *)
(* sent in the running one, for with the flag up no new attempt begins.    *)
Spent ==
  /\ posts \in Nat /\ late \in Nat
  /\ attempt < Tries
  /\ pc = "nap" => attempt + 1 < Tries
  /\ posts <= (attempt * Width) + (leg - 1) + Out
  /\ late <= (leg - 1) + Out
  /\ ~flag => late = 0
  /\ pc = "idle" => posts = 0 /\ late = 0 /\ leg = 1 /\ attempt = 0

IInv == Opened /\ Accounted /\ Spent

-----------------------------------------------------------------------------
(* A request per transport and attempt.                                    *)
LEMMA Product ==
  ASSUME NEW a \in Nat, NEW w \in Nat, NEW t \in Nat, a < t
  PROVE  a * w + w <= t * w
<1>1. PICK d \in Nat : t = a + 1 + d
  <2>1. t - a - 1 \in Nat /\ t = a + 1 + (t - a - 1)
    OBVIOUS
  <2>2. QED BY <2>1
<1>2. t * w = a * w + w + d * w
  BY <1>1
<1>3. d * w \in Nat /\ a * w \in Nat
  OBVIOUS
<1>4. QED BY <1>2, <1>3

LEMMA TriesOK == Opened => Tries \in Nat /\ Tries >= 1
BY DEF Opened, Tries

LEMMA BoundInv == IInv => RetriesAreBounded
<1> SUFFICES ASSUME IInv PROVE RetriesAreBounded
  OBVIOUS
<1>1. Tries \in Nat /\ attempt \in Nat /\ Width \in Nat /\ attempt < Tries
  BY TriesOK DEF IInv, Opened, Spent
<1>2. attempt * Width + Width <= Tries * Width
  BY <1>1, Product
<1>3. attempt * Width \in Nat /\ Tries * Width \in Nat
  BY <1>1
<1>4. Out \in {0, 1} /\ leg \in Nat /\ leg <= Width
  BY <1>1 DEF Out, IInv, Opened
<1>5. posts <= (attempt * Width) + (leg - 1) + Out /\ late <= (leg - 1) + Out
      /\ posts \in Nat /\ late \in Nat
  BY DEF IInv, Spent
<1> HIDE DEF Tries, Width, Out
<1>6. posts <= Tries * Width /\ late <= Width
  BY <1>1, <1>2, <1>3, <1>4, <1>5
<1>7. QED BY <1>6 DEF RetriesAreBounded, Width

LEMMA InitInv == Init => IInv
<1> SUFFICES ASSUME Init PROVE IInv
  OBVIOUS
<1>1. PICK s \in Specs, r \in Routes, n \in Retries :
        be = [provider |-> s.provider, url |-> Endpoint(s), route |-> r, retries |-> n]
  BY DEF Init
<1>2. be.provider \in Providers /\ be.route \in Routes /\ be.retries \in Int
  BY <1>1, HostedAssumption
<1>3. Width \in Nat /\ Width >= 1
  <2>1. be.route \in Seq(Transports) /\ be.route # <<>>
    BY <1>2, HostedAssumption
  <2>2. QED BY <2>1 DEF Width
<1>4. Opened
  <2>1. pc = "idle" /\ leg = 1 /\ attempt = 0 /\ flag = FALSE /\ silent = FALSE /\ rc = 0
    BY DEF Init
  <2>2. leg \in 1 .. Width
    <3> HIDE DEF Width
    <3>1. QED BY <1>3, <2>1
  <2>3. QED BY <1>2, <1>3, <2>1, <2>2 DEF Opened
<1>5. Accounted
  BY DEF Init, Accounted, NoReply
<1>6. Spent
  <2>1. Tries \in Nat /\ Tries >= 1
    BY <1>4, TriesOK
  <2>2. posts = 0 /\ late = 0 /\ leg = 1 /\ attempt = 0 /\ pc = "idle"
    BY DEF Init
  <2>3. QED BY <1>3, <2>1, <2>2 DEF Spent, Out
<1>7. QED BY <1>4, <1>5, <1>6 DEF IInv

-----------------------------------------------------------------------------
(* The steps. *)

LEMMA UserStep == IInv /\ (CtrlC \/ NextTurn \/ Generate) => IInv'
<1> SUFFICES ASSUME IInv, CtrlC \/ NextTurn \/ Generate PROVE IInv'
  OBVIOUS
<1>1. be' = be /\ leg' = leg /\ attempt' = attempt /\ got' = got /\ posts' = posts
      /\ late' = late /\ rc' = rc /\ silent' = silent
  BY DEF CtrlC, NextTurn, Generate, Call
<1>2. Tries' = Tries /\ Width' = Width
  BY <1>1 DEF Tries, Width, IsApi
<1>3. Opened'
  BY <1>1, <1>2 DEF CtrlC, NextTurn, Generate, IInv, Opened
<1>4. CASE CtrlC \/ NextTurn
  <2>1. Out' = Out
    BY <1>4 DEF CtrlC, NextTurn, Out
  <2>2. Accounted'
    BY <1>1, <1>4 DEF CtrlC, NextTurn, Call, IInv, Accounted
  <2>3. (attempt * Width)' = attempt * Width
    BY <1>1, <1>2
  <2>4. Spent'
    BY <1>1, <1>2, <1>4, <2>1, <2>3 DEF CtrlC, NextTurn, IInv, Spent
  <2>5. QED BY <1>3, <2>2, <2>4 DEF IInv
<1>5. CASE Generate
  <2>1. replies' = <<>> /\ usage' = 0 /\ pc = "idle" /\ pc' = "post" /\ flag' = flag
    BY <1>5 DEF Generate
  <2>2. got.hr = -1 /\ got.id = 0 /\ got = NoReply
    BY <2>1 DEF IInv, Accounted, NoReply
  <2>3. Accounted'
    BY <1>1, <2>1, <2>2 DEF Accounted
  <2>4. Tries \in Nat /\ Tries >= 1 /\ Width \in Nat
    BY TriesOK DEF IInv, Opened
  <2>5. posts = 0 /\ late = 0 /\ leg = 1 /\ attempt = 0
    BY <2>1 DEF IInv, Spent
  <2>6. Out' = 0
    BY <2>1 DEF Out
  <2>7. Spent'
    BY <1>1, <1>2, <2>1, <2>4, <2>5, <2>6 DEF Spent
  <2>8. QED BY <1>3, <2>3, <2>7 DEF IInv
<1>6. QED BY <1>4, <1>5

(* The transport has nothing: what Fallen does, under every cause of it.   *)
LEMMA FallenStep ==
  ASSUME IInv, pc \in {"post", "wait"}, Fallen,
         be' = be, attempt' = attempt, flag' = flag, silent' \in BOOLEAN,
         posts' = posts, late' = late, rc' = rc, usage' = usage,
         replies' \in Seq(Answers \cup {NotFound}), Len(replies') >= Len(replies)
  PROVE  IInv'
<1>1. Tries' = Tries /\ Width' = Width
  BY DEF Tries, Width, IsApi
<1>2. Width \in Nat /\ leg \in Nat /\ leg >= 1 /\ leg <= Width /\ attempt \in Nat
      /\ Len(replies) \in Nat /\ Len(replies') \in Nat
  BY DEF IInv, Opened, Accounted
<1>3. got = NoReply /\ got' = NoReply
  BY DEF Fallen, IInv, Accounted
<1>4. Accounted'
  BY <1>2, <1>3 DEF IInv, Accounted, NoReply
<1>5. \/ pc' = "post" /\ leg' = leg + 1 /\ leg < Width
      \/ pc' = "judge" /\ leg' = leg
  BY DEF Fallen, Width
<1>6. Opened'
  BY <1>1, <1>2, <1>5 DEF IInv, Opened
<1>7. attempt * Width \in Nat /\ (attempt * Width)' = attempt * Width
  BY <1>1, <1>2
<1>8. (leg' - 1) + Out' >= (leg - 1) + Out
  BY <1>2, <1>5 DEF Out
<1>9. Out \in {0, 1} /\ Out' \in {0, 1}
  BY DEF Out
<1>10. Spent'
  BY <1>1, <1>2, <1>5, <1>7, <1>8, <1>9 DEF IInv, Spent
<1>11. QED BY <1>4, <1>6, <1>10 DEF IInv
(* The program's own steps and the server's. *)

LEMMA PostStep ==
  IInv /\ (CannotSend \/ Sent \/ TimesOut \/ HeedsFlag) => IInv'
<1> SUFFICES ASSUME IInv, CannotSend \/ Sent \/ TimesOut \/ HeedsFlag PROVE IInv'
  OBVIOUS
<1>1. be' = be /\ attempt' = attempt /\ flag' = flag /\ replies' = replies /\ rc' = rc
      /\ usage' = usage
  BY DEF CannotSend, Sent, TimesOut, HeedsFlag, Call
<1>2. CASE CannotSend \/ TimesOut \/ HeedsFlag
  <2>1. /\ pc \in {"post", "wait"} /\ Fallen
        /\ posts' = posts /\ late' = late /\ silent' = silent
    BY <1>2 DEF CannotSend, TimesOut, HeedsFlag
  <2>2. silent' \in BOOLEAN
    BY <2>1 DEF IInv, Opened
  <2>3. replies' \in Seq(Answers \cup {NotFound}) /\ Len(replies') >= Len(replies)
    BY <1>1 DEF IInv, Accounted
  <2>4. QED BY <1>1, <2>1, <2>2, <2>3, FallenStep
<1>3. CASE Sent
  <2>1. /\ pc = "post" /\ pc' = "wait" /\ leg' = leg /\ got' = got /\ posts' = posts + 1
        /\ late' = (IF flag THEN late + 1 ELSE late) /\ silent' \in BOOLEAN
    BY <1>3 DEF Sent
  <2>2. Tries' = Tries /\ Width' = Width
    BY <1>1 DEF Tries, Width, IsApi
  <2>3. Opened' /\ Accounted'
    BY <1>1, <2>1, <2>2 DEF IInv, Opened, Accounted
  <2>4. Out = 0 /\ Out' = 1
    BY <2>1 DEF Out
  <2>5. attempt * Width \in Nat /\ (attempt * Width)' = attempt * Width /\ leg \in Nat
    BY <1>1, <2>2 DEF IInv, Opened
  <2>6. Spent'
    BY <1>1, <2>1, <2>2, <2>4, <2>5 DEF IInv, Spent
  <2>7. QED BY <2>3, <2>6 DEF IInv
<1>4. QED BY <1>2, <1>3

LEMMA ServerStep ==
  ASSUME NEW a \in Answers \cup {NotFound},
         IInv, ReplyLost(a) \/ \E whole \in BOOLEAN : ReplyArrives(a, whole)
  PROVE  IInv'
<1>1. /\ pc = "wait" /\ be' = be /\ attempt' = attempt /\ flag' = flag /\ silent' = silent
      /\ posts' = posts /\ late' = late /\ rc' = rc /\ usage' = usage
      /\ replies' = Append(replies, a)
  BY DEF ReplyLost, ReplyArrives, Serves
<1>2. /\ replies \in Seq(Answers \cup {NotFound})
      /\ replies' \in Seq(Answers \cup {NotFound}) /\ Len(replies') = Len(replies) + 1
      /\ Len(replies) \in Nat
  BY <1>1 DEF IInv, Accounted
<1>3. silent' \in BOOLEAN
  BY <1>1 DEF IInv, Opened
<1>4. CASE Fallen
  BY <1>1, <1>2, <1>3, <1>4, FallenStep
<1>5. CASE ~Fallen
  <2>1. PICK whole \in BOOLEAN : ReplyArrives(a, whole)
    BY <1>5 DEF ReplyLost
  <2>2. pc' = "judge" /\ leg' = leg /\ got' = Gets(a, whole) /\ Gets(a, whole) # NoReply
    BY <1>5, <2>1 DEF ReplyArrives
  <2>3. Transport \in Transports
    <3>1. be.route \in Seq(Transports) /\ leg \in 1 .. Len(be.route)
      BY HostedAssumption DEF IInv, Opened, Width
    <3>2. QED BY <3>1 DEF Transport
  <2>4. got'.hr = 0 /\ got'.id = Len(replies')
    <3>1. \E w \in BOOLEAN : got' = Reported(a, w)
      BY <2>2, <2>3 DEF Gets, SocketGets, CurlGets, WinInetGets, CurlExeGets, Transports
    <3>2. QED BY <3>1 DEF Reported
  <2>5. Accounted'
    BY <1>1, <1>2, <2>2, <2>4 DEF IInv, Accounted
  <2>6. Tries' = Tries /\ Width' = Width
    BY <1>1 DEF Tries, Width, IsApi
  <2>7. Opened'
    BY <1>1, <2>2, <2>6 DEF IInv, Opened
  <2>8. Out' = 1 /\ Out = 1 /\ (attempt * Width)' = attempt * Width
    BY <1>1, <2>2, <2>6 DEF Out
  <2>9. Spent'
    BY <1>1, <2>2, <2>6, <2>8 DEF IInv, Spent
  <2>10. QED BY <2>5, <2>7, <2>9 DEF IInv
<1>6. QED BY <1>4, <1>5

(* A new attempt has the whole route before it: the one behind it cost at  *)
(* most Width requests, and it begins only if the flag is down.            *)
LEMMA RetryStep == IInv /\ (Judge \/ NapOver) => IInv'
<1> SUFFICES ASSUME IInv, Judge \/ NapOver PROVE IInv'
  OBVIOUS
<1>1. be' = be /\ flag' = flag /\ silent' = silent /\ posts' = posts /\ late' = late
      /\ rc' = rc /\ usage' = usage /\ replies' = replies
  BY DEF Judge, NapOver, Call
<1>2. Tries' = Tries /\ Width' = Width
  BY <1>1 DEF Tries, Width, IsApi
<1>3. Width \in Nat /\ Width >= 1 /\ leg \in Nat /\ leg <= Width /\ attempt \in Nat
      /\ posts \in Nat /\ late \in Nat /\ Tries \in Nat
  BY TriesOK DEF IInv, Opened, Spent
<1>4. CASE Judge
  <2>1. pc = "judge" /\ pc' = "nap" /\ leg' = leg /\ attempt' = attempt /\ got' = got
    BY <1>4 DEF Judge
  <2>2. attempt + 1 < Tries
    BY <1>3, <1>4 DEF Judge, TriesAgain, Tries, IInv, Opened
  <2>3. Opened' /\ Accounted'
    BY <1>1, <1>2, <2>1 DEF IInv, Opened, Accounted
  <2>4. Out' = Out /\ (attempt * Width)' = attempt * Width
    BY <1>2, <2>1 DEF Out
  <2>5. Spent'
    BY <1>1, <1>2, <2>1, <2>2, <2>4 DEF IInv, Spent
  <2>6. QED BY <2>3, <2>5 DEF IInv
<1>5. CASE NapOver
  <2>1. /\ pc = "nap" /\ ~flag /\ pc' = "post" /\ attempt' = attempt + 1 /\ leg' = 1
        /\ got' = NoReply
    BY <1>5 DEF NapOver
  <2>2. Opened'
    BY <1>1, <1>2, <1>3, <2>1 DEF IInv, Opened
  <2>3. Accounted'
    BY <1>1, <2>1 DEF IInv, Accounted, NoReply
  <2>4. Out = 1 /\ Out' = 0
    BY <2>1 DEF Out
  <2>5. (attempt * Width)' = attempt * Width + Width /\ attempt * Width \in Nat
    BY <1>2, <1>3, <2>1
  <2>6. posts <= attempt * Width + Width
    BY <1>3, <2>4, <2>5 DEF IInv, Spent
  <2>7. Spent'
    BY <1>1, <1>2, <1>3, <2>1, <2>4, <2>5, <2>6 DEF IInv, Spent
  <2>8. QED BY <2>2, <2>3, <2>7 DEF IInv
<1>6. QED BY <1>4, <1>5

LEMMA EndStep ==
  IInv /\ (NapInterrupted \/ Fails \/ ApiDelivers \/ RemoteDelivers) => IInv'
<1> SUFFICES ASSUME IInv, NapInterrupted \/ Fails \/ ApiDelivers \/ RemoteDelivers
             PROVE  IInv'
  OBVIOUS
<1>1. /\ pc' = "idle" /\ be' = be /\ flag' = flag /\ silent' = FALSE /\ replies' = replies
      /\ rc' \in {0, -1} /\ leg' = 1 /\ attempt' = 0 /\ got' = NoReply
      /\ posts' = 0 /\ late' = 0
  BY DEF NapInterrupted, Fails, ApiDelivers, RemoteDelivers, Return
<1>2. usage' \in 0 .. Len(replies)
  <2>1. usage' = usage \/ usage' = Counted
    BY DEF NapInterrupted, Fails, ApiDelivers, RemoteDelivers
  <2>2. Counted \in 0 .. Len(replies)
    BY DEF Counted, IInv, Accounted
  <2>3. QED BY <2>1, <2>2 DEF IInv, Accounted
<1>3. Tries' = Tries /\ Width' = Width
  BY <1>1 DEF Tries, Width, IsApi
<1>4. Tries \in Nat /\ Tries >= 1 /\ Width \in Nat /\ Width >= 1
  BY TriesOK DEF IInv, Opened
<1>5. Opened'
  <2>1. leg' \in 1 .. Width
    BY <1>1, <1>4
  <2>2. QED BY <1>1, <1>3, <2>1 DEF IInv, Opened
<1>6. Accounted'
  BY <1>1, <1>2 DEF IInv, Accounted, NoReply
<1>7. Out' = 0
  BY <1>1 DEF Out
<1>8. Spent'
  BY <1>1, <1>3, <1>4, <1>7 DEF Spent
<1>9. QED BY <1>5, <1>6, <1>8 DEF IInv

LEMMA StepInv == IInv /\ [Next]_vars => IInv'
<1> SUFFICES ASSUME IInv, [Next]_vars PROVE IInv'
  OBVIOUS
<1>1. CASE Next
  BY <1>1, UserStep, PostStep, ServerStep, RetryStep, EndStep DEF Next, Works, Server
<1>2. CASE UNCHANGED vars
  <2>1. /\ be' = be /\ pc' = pc /\ leg' = leg /\ attempt' = attempt /\ got' = got
        /\ flag' = flag /\ silent' = silent /\ replies' = replies /\ usage' = usage
        /\ rc' = rc /\ posts' = posts /\ late' = late
    BY <1>2 DEF vars
  <2>2. Tries' = Tries /\ Width' = Width /\ Out' = Out
    BY <2>1 DEF Tries, Width, IsApi, Out
  <2>3. Opened' /\ Accounted'
    BY <2>1, <2>2 DEF IInv, Opened, Accounted
  <2>4. (attempt * Width)' = attempt * Width
    BY <2>1, <2>2
  <2>5. Spent'
    BY <2>1, <2>2, <2>4 DEF IInv, Spent
  <2>6. QED BY <2>3, <2>5 DEF IInv
<1>3. QED BY <1>1, <1>2

LEMMA IInvHolds == Spec => []IInv
BY InitInv, StepInv, PTL DEF Spec

-----------------------------------------------------------------------------
(* Type correctness.                                                       *)
THEOREM HostedTypeCorrect == Spec => []TypeOK
<1>1. IInv => TypeOK
  BY DEF IInv, Opened, Accounted, Spent, TypeOK, Width
<1>2. QED BY <1>1, IInvHolds, PTL

(* A call sends no more than one request per transport and attempt, and    *)
(* after Ctrl+C no more than one attempt's.                                *)
THEOREM RetriesStayBounded == Spec => []RetriesAreBounded
BY BoundInv, IInvHolds, PTL

-----------------------------------------------------------------------------
(***************************************************************************)
(* The abstract backend.                                                   *)
(***************************************************************************)

(* Induction, as the least element of a set of numbers.                    *)
LEMMA LeastNat ==
  ASSUME NEW T, T \subseteq Nat, T # {}
  PROVE  \E x \in T : \A y \in T : x <= y
<1>1. PICK x \in T : \A y \in T : <<y, x>> \notin OpToRel(<, Nat)
  BY NatLessThanWellFounded, WFMin
<1>2. ASSUME NEW y \in T PROVE ~(y < x)
  <2>1. y < x => <<y, x>> \in OpToRel(<, Nat)
    BY Zenon DEF OpToRel
  <2>2. QED BY <1>1, <2>1, Zenon
<1>3. \A y \in T : x <= y
  BY <1>2
<1>4. QED BY <1>3

(* A value carried over 1 .. N from c by d is a function.                  *)
IsRun(g, c, d, N) == g[0] = c /\ \A n \in 1 .. N : g[n] = d[<<n, g[n - 1]>>]

LEMMA FiniteRecursion ==
  ASSUME NEW S, NEW c \in S, NEW d \in [Nat \X S -> S], NEW N \in Nat
  PROVE  \E g \in [0 .. N -> S] : IsRun(g, c, d, N)
<1> DEFINE Stuck == {k \in Nat : ~\E g \in [0 .. k -> S] : IsRun(g, c, d, k)}
<1>1. SUFFICES ASSUME Stuck # {} PROVE FALSE
  BY DEF Stuck
<1>2. PICK k \in Stuck : \A m \in Stuck : k <= m
  BY <1>1, LeastNat
<1>3. CASE k = 0
  <2>1. IsRun([i \in 0 .. k |-> c], c, d, k) /\ [i \in 0 .. k |-> c] \in [0 .. k -> S]
    BY <1>3 DEF IsRun
  <2>2. QED BY <2>1
<1>4. CASE k # 0
  <2>1. PICK g \in [0 .. k - 1 -> S] : IsRun(g, c, d, k - 1)
    <3>1. k - 1 \in Nat /\ k - 1 \notin Stuck
      BY <1>2, <1>4
    <3>2. QED BY <3>1
  <2> DEFINE h == [i \in 0 .. k |-> IF i = k THEN d[<<k, g[k - 1]>>] ELSE g[i]]
  <2>2. h \in [0 .. k -> S]
    BY <1>4, <2>1 DEF IsRun
  <2>3. IsRun(h, c, d, k)
    BY <1>4, <2>1 DEF IsRun
  <2>4. QED BY <2>2, <2>3
<1>5. QED BY <1>3, <1>4

(* What is left of a sequence of blocks is a sequence of them.             *)
LEMMA WithoutIsSeq ==
  ASSUME NEW S, NEW blocks \in Seq(S), NEW kinds
  PROVE  Without(blocks, kinds) \in Seq(S)
<1> DEFINE N == Len(blocks)
           body(f) == [n \in 0 .. N |-> IF n = 0 THEN <<>>
                                        ELSE IF blocks[n] \in kinds THEN f[n - 1]
                                             ELSE Append(f[n - 1], blocks[n])]
           kept == CHOOSE f : f = body(f)
           d == [p \in Nat \X Seq(S) |->
                   IF p[1] \notin 1 .. N \/ blocks[p[1]] \in kinds THEN p[2]
                   ELSE Append(p[2], blocks[p[1]])]
<1>1. N \in Nat /\ <<>> \in Seq(S)
  OBVIOUS
<1>2. d \in [Nat \X Seq(S) -> Seq(S)]
  OBVIOUS
<1>3. PICK g \in [0 .. N -> Seq(S)] :
        g[0] = <<>> /\ \A n \in 1 .. N : g[n] = d[<<n, g[n - 1]>>]
  <2> DEFINE Q == Seq(S)
  <2>1. N \in Nat /\ <<>> \in Q /\ d \in [Nat \X Q -> Q]
    BY <1>1, <1>2
  <2> HIDE DEF d, N, Q
  <2>2. \E g \in [0 .. N -> Q] : IsRun(g, <<>>, d, N)
    BY <2>1, FiniteRecursion
  <2>3. QED BY <2>2 DEF Q, IsRun
<1>4. g = body(g)
  <2>1. ASSUME NEW n \in 0 .. N PROVE g[n] = body(g)[n]
    <3>1. CASE n = 0
      BY <1>1, <1>3, <3>1
    <3>2. CASE n # 0
      <4>1. n \in 1 .. N /\ n - 1 \in 0 .. N
        BY <1>1, <3>2
      <4>2. g[n] = d[<<n, g[n - 1]>>] /\ g[n - 1] \in Seq(S)
        BY <1>3, <4>1
      <4>3. d[<<n, g[n - 1]>>] = IF blocks[n] \in kinds THEN g[n - 1] ELSE Append(g[n - 1], blocks[n])
        BY <4>1, <4>2
      <4>4. QED BY <3>2, <4>1, <4>2, <4>3
    <3>3. QED BY <3>1, <3>2
  <2>2. QED BY <1>3, <2>1
<1>5. kept = body(kept)
  <2> HIDE DEF body
  <2>1. QED BY <1>4
<1>6. Without(blocks, kinds) = kept[N]
  BY DEF Without
<1>7. SUFFICES ASSUME kept[N] \notin Seq(S) PROVE FALSE
  BY <1>6
<1> DEFINE Bad == {n \in 0 .. N : kept[n] \notin Seq(S)}
<1>8. PICK n \in Bad : \A m \in Bad : n <= m
  <2>1. Bad \subseteq Nat /\ N \in Bad
    BY <1>1, <1>7
  <2> HIDE DEF Bad
  <2>2. QED BY <2>1, LeastNat
<1>9. kept[n] = body(kept)[n]
  BY <1>5
<1> HIDE DEF kept
<1>10. n \in 0 .. N /\ kept[n] \notin Seq(S)
  BY <1>8
<1>11. n # 0
  BY <1>1, <1>9, <1>10
<1>12. n - 1 \in 0 .. N /\ n \in 1 .. N /\ kept[n - 1] \in Seq(S)
  <2>1. n - 1 \in 0 .. N /\ n \in 1 .. N
    BY <1>1, <1>10, <1>11
  <2>2. n - 1 \notin Bad
    BY <1>1, <1>8, <2>1
  <2>3. QED BY <2>1, <2>2
<1>13. kept[n] = IF blocks[n] \in kinds THEN kept[n - 1] ELSE Append(kept[n - 1], blocks[n])
  BY <1>9, <1>10, <1>11
<1>14. blocks[n] \in S
  BY <1>12
<1>15. QED BY <1>10, <1>12, <1>13, <1>14

(* Until a call ends it has shown and counted nothing, and the status it   *)
(* judges by is that of the reply it is about to show.                     *)
Quiet ==
  /\ pc # "idle" => shown = <<>> /\ usage = 0
  /\ got.hr = 0 => got.status = replies[got.id].status

LEMMA QuietInit == Init => Quiet
BY DEF Init, Quiet, NoReply

LEMMA QuietStep == IInv /\ Quiet /\ [Next]_vars => Quiet'
<1> SUFFICES ASSUME IInv, Quiet, [Next]_vars PROVE Quiet'
  OBVIOUS
<1> USE DEF Quiet
<1>1. CASE CtrlC \/ NextTurn \/ CannotSend \/ Sent \/ TimesOut \/ HeedsFlag \/ Judge
           \/ NapOver
  <2>1. shown' = shown /\ usage' = usage /\ replies' = replies
    BY <1>1 DEF CtrlC, NextTurn, CannotSend, Sent, TimesOut, HeedsFlag, Judge, NapOver, Call
  <2>2. pc' # "idle" => pc # "idle"
    BY <1>1 DEF CtrlC, NextTurn, CannotSend, Sent, TimesOut, HeedsFlag, Judge, NapOver, Fallen
  <2>3. got' = got \/ got' = NoReply
    BY <1>1 DEF CtrlC, NextTurn, CannotSend, Sent, TimesOut, HeedsFlag, Judge, NapOver, Fallen
  <2>4. QED BY <2>1, <2>2, <2>3 DEF NoReply
<1>2. CASE Generate
  <2>1. got' = NoReply
    BY <1>2 DEF Generate, IInv, Accounted
  <2>2. QED BY <1>2, <2>1 DEF Generate, NoReply
<1>3. CASE NapInterrupted \/ Fails \/ ApiDelivers \/ RemoteDelivers
  <2>1. pc' = "idle" /\ got' = NoReply
    BY <1>3 DEF NapInterrupted, Fails, ApiDelivers, RemoteDelivers, Return
  <2>2. QED BY <2>1 DEF NoReply
<1>4. ASSUME NEW a \in Answers \cup {NotFound}, NEW whole \in BOOLEAN,
             ReplyLost(a) \/ ReplyArrives(a, whole)
      PROVE  Quiet'
  <2>1. pc = "wait" /\ shown' = shown /\ usage' = usage /\ replies' = Append(replies, a)
    BY <1>4 DEF ReplyLost, ReplyArrives, Serves
  <2>2. got = NoReply /\ replies \in Seq(Answers \cup {NotFound})
    BY <2>1 DEF IInv, Accounted
  <2>3. replies'[Len(replies')] = a
    BY <2>1, <2>2
  <2>4. got' = got \/ got' = NoReply \/ got' = Gets(a, whole)
    BY <1>4 DEF ReplyLost, ReplyArrives, Fallen
  <2>5. Gets(a, whole) = NoReply \/ \E w \in BOOLEAN : Gets(a, whole) = Reported(a, w)
    <3>1. Transport \in Transports
      BY HostedAssumption DEF Transport, IInv, Opened, Width
    <3>2. QED BY <3>1 DEF Gets, SocketGets, CurlGets, WinInetGets, CurlExeGets, Transports
  <2>6. QED BY <2>1, <2>2, <2>3, <2>4, <2>5 DEF NoReply, Reported
<1>5. CASE UNCHANGED vars
  BY <1>5 DEF vars
<1>6. QED BY <1>1, <1>2, <1>3, <1>4, <1>5 DEF Next, Works, Server

LEMMA QuietHolds == Spec => [](IInv /\ Quiet)
BY InitInv, StepInv, QuietInit, QuietStep, PTL DEF Spec

(* What a reply shows is a sequence, and nothing before it changes that.   *)
LEMMA OnlyFirstIsSeq ==
  ASSUME NEW S, NEW blocks \in Seq(S)
  PROVE  OnlyFirst(blocks) \in Seq(S)
BY DEF OnlyFirst

LEMMA OneIsSeq ==
  ASSUME NEW S, NEW x \in S
  PROVE  <<x>> \in Seq(S)
OBVIOUS

Shown == STRING \cup {"(declined)", "(no text)"}

LEMMA PiecesAreSeq ==
  ASSUME NEW a \in Answers \cup {NotFound}
  PROVE  ApiPieces(a) \in Seq(Shown) /\ RemotePieces(a) \in Seq(Shown)
<1>1. a.blocks \in Seq(Shown)
  <2>1. CASE a \in Answers
    BY <2>1, HostedAssumption, SeqMonotonic DEF Shown
  <2>2. CASE a = NotFound
    <3>1. a.blocks = <<>>
      BY <2>2 DEF NotFound
    <3>2. QED BY <3>1, EmptySeq
  <2>3. QED BY <2>1, <2>2
<1>2. OnlyFirst(a.blocks) \in Seq(Shown)
  BY <1>1, OnlyFirstIsSeq
<1>3. RemotePieces(a) \in Seq(Shown)
  BY <1>2, WithoutIsSeq DEF RemotePieces
<1>4. Texts(a) \in Seq(Shown)
  BY <1>1, <1>2, WithoutIsSeq DEF Texts
<1>5. <<"(declined)">> \in Seq(Shown) /\ <<"(no text)">> \in Seq(Shown)
  BY OneIsSeq DEF Shown
<1>6. ApiPieces(a) \in Seq(Shown)
  BY <1>4, <1>5 DEF ApiPieces
<1>7. QED BY <1>3, <1>6

-----------------------------------------------------------------------------
(* The refinement mapping, step by step. *)

Told == [i \in 1 .. Len(replies) |-> Summary(replies[i])]
Phase == IF pc = "idle" THEN "idle" ELSE "busy"
Possible == {Summary(a) : a \in Answers \cup {NotFound}}

LEMMA SummaryStays ==
  ASSUME NEW a, be' = be
  PROVE  Summary(a)' = Summary(a)
BY DEF Summary, Pieces, ApiPieces, RemotePieces, Texts, IsApi

LEMMA SummaryFields ==
  ASSUME NEW a, a.status = 200
  PROVE  Summary(a).ok /\ Summary(a).text = Pieces(a)
BY Zenon DEF Summary

LEMMA ContractInit == Init => Contract!Init
BY DEF Init, Contract!Init

(* The steps the caller does not see.                                      *)
LEMMA Unseen ==
  ASSUME CtrlC \/ NextTurn \/ CannotSend \/ Sent \/ TimesOut \/ HeedsFlag \/ Judge
         \/ NapOver \/ UNCHANGED vars
  PROVE  UNCHANGED Contract!vars
<1>1. shown' = shown /\ usage' = usage /\ replies' = replies /\ rc' = rc /\ be' = be
  BY DEF CtrlC, NextTurn, CannotSend, Sent, TimesOut, HeedsFlag, Judge, NapOver, Call, vars
<1>2. Phase' = Phase
  BY DEF CtrlC, NextTurn, CannotSend, Sent, TimesOut, HeedsFlag, Judge, NapOver, Fallen,
         vars, Phase
<1>3. Told' = Told
  BY <1>1, SummaryStays DEF Told
<1>4. QED BY <1>1, <1>2, <1>3 DEF Contract!vars, Phase, Told

LEMMA GenerateAsks == Generate => Contract!Ask
<1> SUFFICES ASSUME Generate PROVE Contract!Ask
  OBVIOUS
<1>1. Told' = <<>>
  BY DEF Generate, Told
<1>2. QED BY <1>1 DEF Generate, Told, Contract!Ask

LEMMA ReplyServes ==
  ASSUME IInv, NEW a \in Answers \cup {NotFound}, NEW whole \in BOOLEAN,
         ReplyLost(a) \/ ReplyArrives(a, whole)
  PROVE  Contract!Serve(Summary(a))
<1>1. /\ pc = "wait" /\ shown' = shown /\ usage' = usage /\ rc' = rc /\ be' = be
      /\ replies' = Append(replies, a)
  BY DEF ReplyLost, ReplyArrives, Serves
<1>2. pc' # "idle"
  BY DEF ReplyLost, ReplyArrives, Fallen
<1>3. replies \in Seq(Answers \cup {NotFound})
  BY DEF IInv, Accounted
<1>4. Told' = Append(Told, Summary(a))
  <2>1. Told' = [i \in 1 .. Len(replies) + 1 |-> Summary(replies'[i])]
    BY <1>1, <1>3, SummaryStays DEF Told
  <2>2. ASSUME NEW i \in 1 .. Len(replies) + 1
        PROVE  replies'[i] = IF i = Len(replies) + 1 THEN a ELSE replies[i]
    BY <1>1, <1>3
  <2>3. QED BY <1>3, <2>1, <2>2 DEF Told
<1>5. QED BY <1>1, <1>2, <1>4 DEF Contract!Serve, Told

(* A call that fails: it has shown nothing, and shows nothing.             *)
LEMMA FailureRefuses ==
  ASSUME IInv, Quiet, NapInterrupted \/ Fails
  PROVE  Contract!Refuse
<1>1. /\ pc \in {"nap", "judge"} /\ pc' = "idle" /\ rc' = -1 /\ replies' = replies
      /\ be' = be /\ shown' = shown /\ usage' = usage
  BY DEF NapInterrupted, Fails, Return
<1>2. Told' = Told
  BY <1>1, SummaryStays DEF Told
<1>3. usage' = 0
  BY <1>1 DEF Quiet
<1>4. QED BY <1>1, <1>2, <1>3 DEF Contract!Refuse, Told

(* A call that delivers shows the reply it judged, and that alone.         *)
LEMMA DeliveryReplies ==
  ASSUME IInv, Quiet, ApiDelivers \/ RemoteDelivers
  PROVE  (\E i \in DOMAIN Told : Contract!Reply(i)) \/ Contract!Refuse
<1> DEFINE id == got.id
           a == replies[id]
<1>1. /\ pc = "judge" /\ pc' = "idle" /\ replies' = replies /\ be' = be /\ Usable
      /\ usage' = Counted
  BY DEF ApiDelivers, RemoteDelivers, Return
<1>2. id \in 1 .. Len(replies) /\ a \in Answers \cup {NotFound} /\ a.status = 200
  BY <1>1 DEF Usable, IInv, Accounted, Quiet
<1>3. Told' = Told /\ DOMAIN Told = 1 .. Len(replies) /\ Told[id] = Summary(a)
  BY <1>1, <1>2, SummaryStays DEF Told
<1>4. usage' \in {0, id}
  BY <1>1 DEF Counted
<1>5. shown' = Pieces(a)
  <2>1. shown = <<>>
    BY <1>1 DEF Quiet
  <2>2. ApiPieces(a) \in Seq(Shown) /\ RemotePieces(a) \in Seq(Shown)
    BY <1>2, PiecesAreSeq
  <2>3. shown' = shown \o Pieces(a)
    BY DEF ApiDelivers, RemoteDelivers, Pieces
  <2>4. QED BY <2>1, <2>2, <2>3 DEF Pieces
<1>6. CASE rc' = 0
  <2>1. Told[id].ok /\ Told[id].text = Pieces(a)
    <3>1. a.status = 200
      BY <1>2
    <3>2. Summary(a).ok /\ Summary(a).text = Pieces(a)
      BY <3>1, SummaryFields
    <3>3. Told[id] = Summary(a)
      BY <1>3
    <3>4. QED BY <3>2, <3>3
  <2>2. Contract!Reply(id)
    BY <1>1, <1>3, <1>4, <1>5, <1>6, <2>1 DEF Contract!Reply, Told
  <2>3. QED BY <1>2, <1>3, <2>2
<1>7. CASE rc' # 0
  <2>1. rc' = -1 /\ shown' = <<>>
    BY <1>5, <1>7 DEF ApiDelivers, RemoteDelivers, Return, Pieces
  <2>2. shown' = shown
    BY <1>1, <2>1 DEF Quiet
  <2>3. QED BY <1>1, <1>2, <1>3, <1>4, <2>1, <2>2 DEF Contract!Refuse, Told
<1>8. QED BY <1>6, <1>7

LEMMA StepRefines ==
  IInv /\ Quiet /\ [Next]_vars => [Contract!Next(Possible)]_(Contract!vars)
<1> SUFFICES ASSUME IInv, Quiet, [Next]_vars
             PROVE  Contract!Next(Possible) \/ UNCHANGED Contract!vars
  OBVIOUS
<1>1. CASE Generate
  BY <1>1, GenerateAsks DEF Contract!Next
<1>2. CASE NapInterrupted \/ Fails
  BY <1>2, FailureRefuses DEF Contract!Next
<1>3. CASE ApiDelivers \/ RemoteDelivers
  BY <1>3, DeliveryReplies DEF Contract!Next, Told
<1>4. ASSUME NEW a \in Answers \cup {NotFound}, NEW whole \in BOOLEAN,
             ReplyLost(a) \/ ReplyArrives(a, whole)
      PROVE  Contract!Next(Possible)
  BY <1>4, ReplyServes DEF Contract!Next, Possible
<1>5. CASE CtrlC \/ NextTurn \/ CannotSend \/ Sent \/ TimesOut \/ HeedsFlag \/ Judge
           \/ NapOver \/ UNCHANGED vars
  BY <1>5, Unseen
<1>6. QED BY <1>1, <1>2, <1>3, <1>4, <1>5 DEF Next, Works, Server

(* The hosted backends implement BackendContract: over any connection and  *)
(* any number of retries, infer_generate shows one reply that was made for *)
(* this call, once and whole, or fails and shows nothing, and the token    *)
(* counts are that reply's or nobody's.                                    *)
THEOREM HostedImplementsContract == Spec => AnswersOnce
<1>1. Spec => Contract!Init
  BY ContractInit DEF Spec
<1>2. Spec => [][Contract!Next(Possible)]_(Contract!vars)
  BY QuietHolds, StepRefines, PTL DEF Spec
<1>3. QED BY <1>1, <1>2, PTL DEF AnswersOnce, Possible
=============================================================================
