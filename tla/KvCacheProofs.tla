--------------------------- MODULE KvCacheProofs ---------------------------
(***************************************************************************)
(* Proofs about KvCache, for any vocabulary, tokenizer, window and batch   *)
(* sizes: the mirrors never claim what the KV cache does not hold, and the *)
(* reuse is invisible to whoever asks for a generation.                    *)
(***************************************************************************)
EXTENDS KvCache, TLAPS

(* While a prompt is read, cache and mirror are its first off tokens.      *)
ReadingInv ==
  pc = "prefill" =>
    /\ prompt \in Prompts
    /\ toks # <<>>
    /\ Spell(toks) = prompt
    /\ ctext = <<>>
    /\ off <= Len(toks)
    /\ kv = SubSeq(toks, 1, off)
    /\ cached = SubSeq(toks, 1, off)

(* While the model writes, the mirrors are exact.                          *)
WritingInv ==
  pc = "sample" => kv = cached /\ Spell(cached) = ctext /\ ctext # <<>>

RestingInv == pc = "idle" => prompt = <<>>

IInv == TypeOK /\ MirrorSound /\ ReadingInv /\ WritingInv /\ RestingInv

-----------------------------------------------------------------------------
LEMMA RunIsShort ==
  ASSUME NEW s \in Runs
  PROVE  s \in Seq(Tokens) /\ Len(s) <= NCtx /\ Len(s) \in Nat
<1>1. PICK n \in 0 .. NCtx : s \in [1 .. n -> Tokens]
  BY DEF Runs
<1> QED BY <1>1, CacheAssumption

LEMMA ShortIsRun ==
  ASSUME NEW s \in Seq(Tokens), Len(s) <= NCtx
  PROVE  s \in Runs
<1>1. Len(s) \in 0 .. NCtx /\ s \in [1 .. Len(s) -> Tokens]
  BY CacheAssumption
<1> QED BY <1>1 DEF Runs

LEMMA EmptyRun ==
  /\ <<>> \in Runs /\ <<>> \in Seq(Chars) /\ <<>> \in Seq(Tokens \cup {Junk})
  /\ Len(<<>>) = 0 /\ NCtx \in Nat /\ NCtx > 0
<1>1. NCtx \in Nat /\ NCtx > 0
  BY CacheAssumption
<1>2. <<>> \in Seq(Tokens) /\ Len(<<>>) <= NCtx
  BY <1>1
<1>3. <<>> \in Runs
  BY <1>2, ShortIsRun
<1> QED BY <1>1, <1>3

LEMMA SpellAppend ==
  ASSUME NEW s \in Runs, NEW t \in Tokens, Len(s) < NCtx
  PROVE  /\ Append(s, t) \in Runs
         /\ Spell(<<t>>) \in Seq(Chars)
         /\ Spell(Append(s, t)) = Spell(s) \o Spell(<<t>>)
<1>1. s \in Seq(Tokens) /\ Len(s) \in Nat /\ NCtx \in Nat
  BY RunIsShort, CacheAssumption
<1>2. Append(s, t) \in Seq(Tokens) /\ Len(Append(s, t)) <= NCtx
  BY <1>1
<1>3. <<t>> \in Seq(Tokens) /\ Len(<<t>>) <= NCtx
  BY <1>1
<1>4. Append(s, t) \in Runs /\ <<t>> \in Runs
  BY <1>2, <1>3, ShortIsRun
<1>5. s \o <<t>> = Append(s, t)
  BY <1>1
<1> QED BY <1>4, <1>5, SpellAssumption

(* A prefix of a run is a run, and cutting a prefix further is a prefix.   *)
LEMMA PrefixRun ==
  ASSUME NEW T, NEW s \in Seq(T), NEW n \in 0 .. Len(s)
  PROVE  /\ SubSeq(s, 1, n) \in Seq(T)
         /\ Len(SubSeq(s, 1, n)) = n
         /\ \A i \in 1 .. n : SubSeq(s, 1, n)[i] = s[i]
OBVIOUS

LEMMA SamePrefix ==
  ASSUME NEW T, NEW s \in Seq(T), NEW t \in Seq(T),
         NEW n \in Nat, n <= Len(s), n <= Len(t),
         \A i \in 1 .. n : s[i] = t[i]
  PROVE  SubSeq(s, 1, n) = SubSeq(t, 1, n)
OBVIOUS

LEMMA PrefixPlus ==
  ASSUME NEW T, NEW s \in Seq(T), NEW m \in Nat, NEW n \in Nat, m + n <= Len(s)
  PROVE  SubSeq(s, 1, m) \o SubSeq(s, m + 1, m + n) = SubSeq(s, 1, m + n)
OBVIOUS

LEMMA WholePrefix ==
  ASSUME NEW T, NEW s \in Seq(T)
  PROVE  SubSeq(s, 1, Len(s)) = s
OBVIOUS
-----------------------------------------------------------------------------
(* The tokens of a prompt spell it, whichever way they were found.         *)
LEMMA RunSpellsPrompt ==
  ASSUME IInv, NEW p \in Prompts, Len(RunOf(p)) <= NCtx
  PROVE  RunOf(p) \in Runs /\ RunOf(p) # <<>> /\ Spell(RunOf(p)) = p
<1>1. p \in Seq(Chars) /\ p # <<>> /\ Len(p) \in Nat /\ Len(p) > 0
  BY CacheAssumption
<1>2. cached \in Runs /\ cached \in Seq(Tokens) /\ Len(cached) \in Nat
  BY RunIsShort DEF IInv, TypeOK
<1>3. ctext \in Seq(Chars) /\ Len(ctext) \in Nat
  BY DEF IInv, TypeOK
<1>4. CASE ~Continues(p)
  <2>1. After(p, 0) = p /\ 0 \in 0 .. Len(p) - 1
    BY <1>1 DEF After
  <2>2. RunOf(p) = Tokenize[After(p, 0)]
    BY <1>4, <2>1 DEF RunOf
  <2>3. RunOf(p) \in Seq(Tokens) \ {<<>>}
    BY <2>1, <2>2, TokenizeAssumption
  <2>4. RunOf(p) \in Runs
    BY <2>3, ShortIsRun
  <2> QED BY <2>1, <2>2, <2>3, <2>4, TokenizeAssumption
<1>5. CASE Continues(p) /\ Covered(p)
  <2>1. RunOf(p) = cached
    BY <1>5 DEF RunOf
  <2>2. ctext = p
    <3>1. Len(ctext) <= Len(p) /\ SubSeq(p, 1, Len(ctext)) = ctext
      BY <1>5 DEF Continues
    <3>2. SubSeq(p, Len(ctext) + 1, Len(p)) = <<>>
      BY <1>5 DEF Covered, After
    <3>3. Len(SubSeq(p, Len(ctext) + 1, Len(p))) = Len(p) - Len(ctext)
      BY <1>1, <1>3, <3>1
    <3>4. Len(ctext) = Len(p)
      <4>1. Len(p) - Len(ctext) = 0
        BY <3>2, <3>3, EmptyRun
      <4> QED BY <1>1, <1>3, <4>1
    <3> QED BY <1>1, <3>1, <3>4, WholePrefix
  <2>3. Spell(cached) = p
    BY <1>1, <2>2 DEF IInv, MirrorSound
  <2> QED BY <1>1, <1>2, <2>1, <2>3, SpellAssumption
<1>6. CASE Continues(p) /\ ~Covered(p)
  <2> DEFINE rest == After(p, Len(ctext))
             new == Tokenize[rest]
  <2>1. RunOf(p) = cached \o new
    BY <1>6 DEF RunOf
  <2>2. Len(ctext) \in 0 .. Len(p) - 1
    BY <1>1, <1>3, <1>6 DEF Continues, Covered, After
  <2>3. new \in Seq(Tokens) \ {<<>>}
    BY <2>2, TokenizeAssumption
  <2>4. Len(new) <= NCtx /\ RunOf(p) \in Seq(Tokens) /\ RunOf(p) # <<>>
    <3> HIDE DEF new
    <3> QED BY <1>2, <2>1, <2>3, CacheAssumption
  <2>5. new \in Runs /\ RunOf(p) \in Runs
    BY <2>3, <2>4, ShortIsRun
  <2>6. Spell(new) = rest
    BY <2>2, <2>5, TokenizeAssumption
  <2>7. Spell(cached) = ctext
    BY <1>6 DEF Continues, IInv, MirrorSound
  <2>8. Spell(RunOf(p)) = ctext \o rest
    <3> HIDE DEF new
    <3> QED BY <1>2, <2>1, <2>5, <2>6, <2>7, SpellAssumption
  <2>9. ctext \o rest = p
    BY <1>1, <1>3, <1>6, <2>2 DEF Continues, After
  <2> QED BY <2>4, <2>5, <2>8, <2>9
<1> QED BY <1>4, <1>5, <1>6

(* What is reused is in the cache, and it is what the prompt wants there.  *)
LEMMA ReusedAgrees ==
  ASSUME IInv, NEW p \in Prompts, Len(RunOf(p)) <= NCtx,
         NEW n \in Nat, Reused(p, RunOf(p), n)
  PROVE  /\ n <= Len(cached) /\ n < Len(RunOf(p))
         /\ \A i \in 1 .. n : cached[i] = RunOf(p)[i]
<1>1. RunOf(p) \in Seq(Tokens) /\ Len(RunOf(p)) \in Nat
  BY RunSpellsPrompt, RunIsShort
<1>2. cached \in Seq(Tokens) /\ Len(cached) \in Nat
  BY RunIsShort DEF IInv, TypeOK
<1>3. n <= Len(RunOf(p)) - 1
  BY DEF Reused
<1>4. CASE ~Continues(p)
  BY <1>1, <1>3, <1>4 DEF Reused, Agree
<1>5. CASE Continues(p) /\ Covered(p)
  <2>1. RunOf(p) = cached
    BY <1>5 DEF RunOf
  <2> QED BY <1>2, <1>3, <2>1
<1>6. CASE Continues(p) /\ ~Covered(p)
  <2>1. RunOf(p) = cached \o Tokenize[After(p, Len(ctext))]
    BY <1>6 DEF RunOf
  <2>2. Len(ctext) \in 0 .. Len(p) - 1
    BY <1>6, CacheAssumption DEF Continues, Covered, After, IInv, TypeOK
  <2>3. Tokenize[After(p, Len(ctext))] \in Seq(Tokens)
    BY <2>2, TokenizeAssumption
  <2>4. n <= Len(cached)
    <3>1. n = IF Len(cached) < Len(RunOf(p)) THEN Len(cached) ELSE Len(RunOf(p)) - 1
      BY <1>6 DEF Reused
    <3> QED BY <1>1, <1>2, <3>1
  <2> QED BY <1>2, <1>1, <1>3, <2>1, <2>3, <2>4
<1> QED BY <1>4, <1>5, <1>6
-----------------------------------------------------------------------------
LEMMA InitIInv == Init => IInv
<1> SUFFICES ASSUME Init PROVE IInv
  OBVIOUS
<1>2. TypeOK
  <2>1. cached \in Runs /\ ctext \in Seq(Chars) /\ toks \in Runs /\ disk \in Runs
    BY EmptyRun DEF Init, NoFile
  <2>2. kv \in Seq(Tokens \cup {Junk}) /\ Len(kv) <= NCtx
    BY EmptyRun DEF Init
  <2>3. off \in 0 .. NCtx /\ keep \in 0 .. NCtx
    BY EmptyRun DEF Init
  <2> QED BY <2>1, <2>2, <2>3 DEF Init, TypeOK
<1> QED BY <1>2 DEF Init, IInv, MirrorSound, ReadingInv, WritingInv, RestingInv

(* A call that ends leaves the mirrors as they are or forgets them.        *)
LEMMA EndedSafe ==
  ASSUME IInv, Idle, kv' \in Partial, disk' = disk, saved' \in BOOLEAN,
         \/ cached' = cached /\ ctext' = ctext
         \/ cached' = <<>> /\ ctext' = <<>>
  PROVE  IInv'
<1>1. /\ kv' \in Seq(Tokens \cup {Junk}) /\ Len(kv') <= NCtx
      /\ Len(kv) <= Len(kv') /\ \A i \in 1 .. Len(kv) : kv'[i] = kv[i]
  <2>1. kv \in Seq(Tokens \cup {Junk}) /\ Len(kv) <= NCtx
    BY DEF IInv, TypeOK
  <2>2. CASE kv' = kv
    BY <2>1, <2>2
  <2>3. CASE Len(kv) < NCtx /\ kv' = Append(kv, Junk)
    BY <2>1, <2>3, EmptyRun
  <2> QED BY <2>2, <2>3 DEF Partial
<1>3. TypeOK'
  <2>1. cached' \in Runs /\ ctext' \in Seq(Chars)
    BY EmptyRun DEF IInv, TypeOK
  <2>2. /\ pc' = "idle" /\ prompt' = <<>> /\ toks' \in Runs
        /\ off' \in 0 .. NCtx /\ keep' \in 0 .. NCtx
    BY EmptyRun DEF Idle
  <2>3. disk' \in Runs
    BY DEF IInv, TypeOK
  <2> QED BY <1>1, <2>1, <2>2, <2>3 DEF TypeOK
<1>4. CASE cached' = cached /\ ctext' = ctext
  <2>1. Len(cached) \in Nat /\ Len(kv) \in Nat /\ Len(kv') \in Nat
    BY <1>1, RunIsShort DEF IInv, TypeOK
  <2>2. MirrorSound'
    BY <1>1, <1>4, <2>1 DEF IInv, MirrorSound
  <2> QED BY <1>3, <2>2 DEF IInv, ReadingInv, WritingInv, RestingInv, Idle
<1>5. CASE cached' = <<>> /\ ctext' = <<>>
  BY <1>1, <1>3, <1>5 DEF IInv, MirrorSound, ReadingInv, WritingInv, RestingInv, Idle
<1> QED BY <1>4, <1>5

LEMMA BeginSafe ==
  ASSUME IInv, NEW p \in Prompts, Begin(p)
  PROVE  IInv'
<1> DEFINE run == RunOf(p)
<1>1. run \in Runs /\ run # <<>> /\ Spell(run) = p
  BY RunSpellsPrompt DEF Begin
<1>2. run \in Seq(Tokens) /\ Len(run) \in Nat /\ Len(run) <= NCtx
  BY <1>1, RunIsShort
<1>3. cached \in Seq(Tokens) /\ Len(cached) \in Nat /\ NCtx \in Nat
  BY RunIsShort, CacheAssumption DEF IInv, TypeOK
<1>4. PICK n \in 0 .. Len(run) :
        /\ Reused(p, run, n)
        /\ keep' = n /\ off' = n
        /\ kv' = SubSeq(kv, 1, n)
        /\ cached' = SubSeq(cached, 1, n)
  BY DEF Begin
<1>5. /\ ctext' = <<>> /\ pc' = "prefill" /\ prompt' = p /\ toks' = run
      /\ saved' = saved /\ disk' = disk
  BY DEF Begin
<1>6. n \in Nat /\ n <= Len(cached) /\ n < Len(run) /\ \A i \in 1 .. n : cached[i] = run[i]
  BY <1>2, <1>4, ReusedAgrees DEF Begin
<1> HIDE DEF run
<1>7. kv \in Seq(Tokens \cup {Junk}) /\ Len(kv) \in Nat /\ n <= Len(kv)
  BY <1>3, <1>6 DEF IInv, TypeOK, MirrorSound
<1>8. \A i \in 1 .. n : kv[i] = run[i]
  BY <1>3, <1>6, <1>7 DEF IInv, MirrorSound
<1>9. SubSeq(cached, 1, n) = SubSeq(run, 1, n)
  BY <1>2, <1>3, <1>6, SamePrefix
<1>10. SubSeq(kv, 1, n) = SubSeq(run, 1, n)
  <2>1. run \in Seq(Tokens \cup {Junk})
    BY <1>2
  <2> QED BY <1>2, <1>6, <1>7, <1>8, <2>1, SamePrefix
<1>11. SubSeq(run, 1, n) \in Seq(Tokens) /\ Len(SubSeq(run, 1, n)) = n
  BY <1>2, <1>6, PrefixRun
<1>12. SubSeq(run, 1, n) \in Runs
  <2>1. Len(SubSeq(run, 1, n)) <= NCtx
    BY <1>2, <1>3, <1>6, <1>11
  <2> QED BY <1>11, <2>1, ShortIsRun
<1>13. TypeOK'
  <2>1. kv' \in Seq(Tokens \cup {Junk}) /\ Len(kv') <= NCtx
    BY <1>2, <1>3, <1>4, <1>6, <1>10, <1>11
  <2>2. keep' \in 0 .. NCtx /\ off' \in 0 .. NCtx
    BY <1>2, <1>3, <1>4, <1>6
  <2>3. cached' \in Runs /\ toks' \in Runs /\ ctext' \in Seq(Chars)
    BY <1>1, <1>4, <1>5, <1>9, <1>12, EmptyRun
  <2> QED BY <1>5, <2>1, <2>2, <2>3 DEF IInv, TypeOK
<1>14. MirrorSound'
  BY <1>4, <1>5, <1>9, <1>10 DEF MirrorSound
<1>15. ReadingInv'
  BY <1>1, <1>2, <1>4, <1>5, <1>6, <1>9, <1>10 DEF ReadingInv
<1> QED BY <1>5, <1>13, <1>14, <1>15 DEF IInv, WritingInv, RestingInv

LEMMA DecodeBatchSafe == ASSUME IInv, DecodeBatch PROVE IInv'
<1> DEFINE n == IF Len(toks) - off < Want THEN Len(toks) - off ELSE Want
<1>1. toks \in Seq(Tokens) /\ Len(toks) \in Nat /\ Len(toks) <= NCtx /\ NCtx \in Nat
  BY RunIsShort, CacheAssumption DEF IInv, TypeOK
<1>2. off \in Nat /\ off < Len(toks)
  BY <1>1 DEF IInv, TypeOK, DecodeBatch, Reading
<1>3. Want \in Nat
  BY CacheAssumption DEF Want
<1>4. n \in Nat /\ off + n <= Len(toks)
  BY <1>1, <1>2, <1>3
<1>5. Batch = SubSeq(toks, off + 1, off + n) /\ Len(Batch) = n
  <2>1. Batch = SubSeq(toks, off + 1, off + n)
    BY DEF Batch
  <2> HIDE DEF n
  <2> QED BY <1>1, <1>2, <1>4, <2>1
<1> HIDE DEF n
<1>6. kv = SubSeq(toks, 1, off) /\ cached = SubSeq(toks, 1, off)
  BY DEF DecodeBatch, Reading, IInv, ReadingInv
<1>7. SubSeq(toks, 1, off) \o Batch = SubSeq(toks, 1, off + n)
  BY <1>1, <1>2, <1>4, <1>5, PrefixPlus
<1>8. kv' = SubSeq(toks, 1, off + n) /\ cached' = SubSeq(toks, 1, off + n) /\ off' = off + n
  BY <1>5, <1>6, <1>7 DEF DecodeBatch
<1>9. SubSeq(toks, 1, off + n) \in Seq(Tokens) /\ Len(SubSeq(toks, 1, off + n)) = off + n
  BY <1>1, <1>2, <1>4, PrefixRun
<1>10. SubSeq(toks, 1, off + n) \in Runs
  <2>1. Len(SubSeq(toks, 1, off + n)) <= NCtx
    BY <1>1, <1>2, <1>4, <1>9
  <2> QED BY <1>9, <2>1, ShortIsRun
<1>11. UNCHANGED <<ctext, pc, prompt, toks, keep, saved, disk>> /\ pc = "prefill"
  BY DEF DecodeBatch, Reading
<1>12. TypeOK'
  <2>1. kv' \in Seq(Tokens \cup {Junk}) /\ Len(kv') <= NCtx
    BY <1>1, <1>2, <1>4, <1>8, <1>9
  <2>2. off' \in 0 .. NCtx
    BY <1>1, <1>2, <1>4, <1>8
  <2> QED BY <1>8, <1>10, <1>11, <2>1, <2>2 DEF IInv, TypeOK
<1>13. ReadingInv'
  BY <1>1, <1>4, <1>8, <1>11 DEF IInv, ReadingInv
<1>14. MirrorSound' /\ WritingInv' /\ RestingInv'
  BY <1>8, <1>11 DEF MirrorSound, WritingInv, RestingInv, IInv, ReadingInv
<1> QED BY <1>12, <1>13, <1>14 DEF IInv

LEMMA PrefillDoneSafe == ASSUME IInv, PrefillDone PROVE IInv' /\ kv = toks /\ Spell(kv) = prompt
<1>1. /\ pc = "prefill" /\ off >= Len(toks) /\ pc' = "sample" /\ ctext' = prompt
      /\ UNCHANGED <<kv, cached, prompt, toks, off, keep>>
  BY DEF PrefillDone
<1>2. toks \in Seq(Tokens) /\ Len(toks) \in Nat /\ off \in Nat
  BY RunIsShort, CacheAssumption DEF IInv, TypeOK
<1>3. /\ prompt \in Prompts /\ toks # <<>> /\ Spell(toks) = prompt
      /\ off <= Len(toks)
      /\ kv = SubSeq(toks, 1, off) /\ cached = SubSeq(toks, 1, off)
  BY <1>1 DEF IInv, ReadingInv
<1>4. off = Len(toks)
  BY <1>1, <1>2, <1>3
<1>5. kv = toks /\ cached = toks
  BY <1>2, <1>3, <1>4, WholePrefix
<1>6. prompt # <<>> /\ prompt \in Seq(Chars)
  BY <1>3, CacheAssumption
<1>7. saved' \in BOOLEAN /\ disk' \in Runs
  <2> QED BY EmptyRun DEF PrefillDone, IInv, TypeOK, NoFile
<1>8. TypeOK'
  BY <1>1, <1>6, <1>7 DEF IInv, TypeOK
<1> QED
  BY <1>1, <1>3, <1>5, <1>6, <1>8 DEF IInv, MirrorSound, ReadingInv, WritingInv, RestingInv

(* More text after some text is some text. *)
LEMMA MoreText ==
  ASSUME NEW S, NEW s \in Seq(S), NEW r \in Seq(S), s # <<>>
  PROVE  s \o r \in Seq(S) /\ s \o r # <<>>
<1>1. s \o r \in Seq(S) /\ Len(s \o r) = Len(s) + Len(r)
  OBVIOUS
<1>2. Len(s) \in Nat /\ Len(r) \in Nat /\ Len(s) # 0
  OBVIOUS
<1>3. Len(<<>>) = 0
  OBVIOUS
<1>4. Len(s \o r) # 0
  BY <1>1, <1>2
<1>5. QED BY <1>1, <1>3, <1>4

LEMMA SampleTokenSafe ==
  ASSUME IInv, NEW t \in Tokens, SampleToken(t)
  PROVE  IInv' /\ Spell(kv') = Spell(kv) \o Spell(<<t>>)
<1>1. /\ pc = "sample" /\ Len(kv) < NCtx
      /\ kv' = Append(kv, t) /\ cached' = Append(cached, t)
      /\ ctext' = ctext \o Spell(<<t>>)
      /\ UNCHANGED <<pc, prompt, toks, off, keep, saved, disk>>
  BY DEF SampleToken, Writing
<1>2. kv = cached /\ Spell(cached) = ctext /\ ctext # <<>>
  BY <1>1 DEF IInv, WritingInv
<1>3. cached \in Runs /\ Len(cached) < NCtx
  BY <1>1, <1>2 DEF IInv, TypeOK
<1>4. /\ cached' \in Runs /\ Spell(<<t>>) \in Seq(Chars)
      /\ Spell(cached') = Spell(cached) \o Spell(<<t>>)
  BY <1>1, <1>3, SpellAppend
<1>5. ctext \in Seq(Chars) /\ ctext' \in Seq(Chars) /\ ctext' # <<>>
  <2>1. ctext \in Seq(Chars)
    BY DEF IInv, TypeOK
  <2>2. ctext \o Spell(<<t>>) \in Seq(Chars) /\ ctext \o Spell(<<t>>) # <<>>
    BY <1>2, <1>4, <2>1, MoreText
  <2>3. QED BY <1>1, <2>1, <2>2
<1>6. kv' = cached'
  BY <1>1, <1>2
<1>7. kv' \in Seq(Tokens \cup {Junk}) /\ Len(kv') <= NCtx
  BY <1>4, <1>6, RunIsShort
<1>8. TypeOK'
  BY <1>1, <1>4, <1>5, <1>7 DEF IInv, TypeOK
<1>9. MirrorSound' /\ ReadingInv' /\ WritingInv' /\ RestingInv'
  BY <1>1, <1>2, <1>4, <1>5, <1>6 DEF MirrorSound, ReadingInv, WritingInv, RestingInv
<1> QED BY <1>1, <1>2, <1>4, <1>6, <1>8, <1>9 DEF IInv

LEMMA ReopenSafe == ASSUME IInv, Reopen PROVE IInv'
<1>1. disk \in Seq(Tokens) /\ Len(disk) <= NCtx /\ disk \in Runs /\ Len(disk) \in Nat
  BY RunIsShort DEF IInv, TypeOK
<1>2. ctext' = <<>> /\ saved' = FALSE /\ disk' = disk /\ Idle
  BY DEF Reopen
<1>3. /\ cached' \in Runs /\ kv' \in Seq(Tokens \cup {Junk}) /\ Len(kv') <= NCtx
      /\ Len(cached') <= Len(kv') /\ \A i \in 1 .. Len(cached') : cached'[i] = kv'[i]
  <2>1. CASE kv' = disk /\ cached' = disk
    BY <1>1, <2>1
  <2>2. CASE kv' = <<>> /\ cached' = <<>>
    BY <2>2, EmptyRun
  <2>3. CASE kv' = <<Junk>> /\ cached' = <<>>
    <3>1. kv' \in Seq(Tokens \cup {Junk}) /\ Len(kv') = 1
      BY <2>3
    <3> QED BY <2>3, <3>1, EmptyRun
  <2> QED BY <2>1, <2>2, <2>3 DEF Reopen
<1>4. TypeOK'
  <2>1. /\ pc' = "idle" /\ prompt' = <<>> /\ toks' \in Runs
        /\ off' \in 0 .. NCtx /\ keep' \in 0 .. NCtx
    BY <1>2, EmptyRun DEF Idle
  <2>2. ctext' \in Seq(Chars) /\ disk' \in Runs
    BY <1>1, <1>2, EmptyRun
  <2> QED BY <1>2, <1>3, <2>1, <2>2 DEF TypeOK
<1> QED BY <1>2, <1>3, <1>4 DEF Idle, IInv, MirrorSound, ReadingInv, WritingInv, RestingInv

LEMMA NextIInv == IInv /\ [Next]_vars => IInv'
<1> SUFFICES ASSUME IInv, [Next]_vars PROVE IInv'
  OBVIOUS
<1>0. saved \in BOOLEAN /\ kv \in Partial
  BY DEF IInv, TypeOK, Partial
<1>1. CASE UNCHANGED vars
  BY <1>1 DEF vars, IInv, TypeOK, MirrorSound, ReadingInv, WritingInv, RestingInv
<1>2. ASSUME NEW p \in Prompts, TooLong(p) PROVE IInv'
  BY <1>2 DEF TooLong, IInv, TypeOK, MirrorSound, ReadingInv, WritingInv, RestingInv
<1>3. CASE StoppedBetweenBatches \/ SampleStops
  BY <1>0, <1>3, EndedSafe DEF StoppedBetweenBatches, SampleStops
<1>4. CASE AbortedInBatch
  <2>1. ctext = <<>>
    BY <1>4 DEF AbortedInBatch, Reading, IInv, ReadingInv
  <2> QED BY <1>0, <1>4, <2>1, EndedSafe DEF AbortedInBatch
<1>5. CASE BatchFailed
  BY <1>0, <1>5, EndedSafe DEF BatchFailed
<1>6. CASE AbortedInToken
  BY <1>0, <1>6, EndedSafe DEF AbortedInToken
<1>7. CASE TokenFailed
  BY <1>0, <1>7, EndedSafe DEF TokenFailed
<1> QED
  BY <1>1, <1>2, <1>3, <1>4, <1>5, <1>6, <1>7, BeginSafe, DecodeBatchSafe,
     PrefillDoneSafe, SampleTokenSafe, ReopenSafe
  DEF Next, Progress, Trouble

(* The mirrors never claim state the cache does not hold.                  *)
THEOREM MirrorsAreSound == Spec => []MirrorSound
<1>1. IInv => MirrorSound
  BY DEF IInv
<1> QED BY InitIInv, NextIInv, <1>1, PTL DEF Spec

(* Positions, tokens and batches stay within the window.                   *)
THEOREM CacheTypeCorrect == Spec => []TypeOK
<1>1. IInv => TypeOK
  BY DEF IInv
<1> QED BY InitIInv, NextIInv, <1>1, PTL DEF Spec

-----------------------------------------------------------------------------
(* Refinement. *)

LEMMA InitDecoder == Init => Decoder!Init
  BY DEF Init, Decoder!Init

LEMMA EndIsStop ==
  ASSUME Idle, pc # "idle"
  PROVE  Decoder!Stop
BY DEF Idle, Decoder!Stop

LEMMA StepDecoder == IInv /\ [Next]_vars => [Decoder!Next]_(Decoder!vars)
<1> SUFFICES ASSUME IInv, [Next]_vars PROVE [Decoder!Next]_(Decoder!vars)
  OBVIOUS
<1>1. CASE UNCHANGED vars
  BY <1>1 DEF vars, Decoder!vars
<1>2. ASSUME NEW p \in Prompts, TooLong(p) PROVE UNCHANGED Decoder!vars
  BY <1>2 DEF TooLong, Decoder!vars
<1>3. ASSUME NEW p \in Prompts, Begin(p) PROVE Decoder!Ask(p)
  BY <1>3 DEF Begin, Decoder!Ask
<1>4. CASE DecodeBatch
  BY <1>4 DEF DecodeBatch, Reading, Decoder!vars
<1>5. CASE PrefillDone
  <2>1. Spell(kv) = prompt
    BY <1>5, PrefillDoneSafe
  <2>2. kv' = kv /\ prompt' = prompt /\ pc = "prefill" /\ pc' = "sample"
    BY <1>5 DEF PrefillDone
  <2>3. Decoder!Ready
    BY <2>1, <2>2 DEF Decoder!Ready
  <2> QED BY <2>3 DEF Decoder!Next
<1>6. ASSUME NEW t \in Tokens, SampleToken(t) PROVE Decoder!Next
  <2>1. Spell(kv') = Spell(kv) \o Spell(<<t>>)
    BY <1>6, SampleTokenSafe
  <2>2. pc = "sample" /\ pc' = pc /\ prompt' = prompt
    BY <1>6 DEF SampleToken, Writing
  <2>3. Decoder!Write(Spell(<<t>>))
    BY <2>1, <2>2 DEF Decoder!Write
  <2> QED BY <2>3 DEF Decoder!Next
<1>7. CASE SampleStops \/ StoppedBetweenBatches \/ AbortedInBatch \/ BatchFailed
           \/ AbortedInToken \/ TokenFailed
  <2>1. Idle /\ pc # "idle"
    BY <1>7 DEF SampleStops, StoppedBetweenBatches, AbortedInBatch, BatchFailed,
                AbortedInToken, TokenFailed, Reading, Writing
  <2> QED BY <2>1, EndIsStop DEF Decoder!Next
<1>8. CASE Reopen
  <2>1. CASE pc # "idle"
    BY <1>8, <2>1, EndIsStop DEF Reopen, Decoder!Next
  <2>2. CASE pc = "idle"
    <3>1. Idle
      BY <1>8 DEF Reopen
    <3>2. prompt = <<>>
      BY <2>2 DEF IInv, RestingInv
    <3> QED BY <2>2, <3>1, <3>2 DEF Idle, Decoder!vars
  <2> QED BY <2>1, <2>2
<1> QED
  BY <1>1, <1>2, <1>3, <1>4, <1>5, <1>6, <1>7, <1>8
  DEF Next, Progress, Trouble, Decoder!Next

(* Whatever came before, the model continues exactly the given text.       *)
THEOREM CacheIsInvisible == Spec => ReuseIsInvisible
<1> QED BY InitIInv, NextIInv, InitDecoder, StepDecoder, PTL DEF Spec, ReuseIsInvisible, Decoder!Spec
=============================================================================
