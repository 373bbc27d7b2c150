------------------------------ MODULE KvCache ------------------------------
(***************************************************************************)
(* The prompt cache of infer/infer_llama.cpp: llama_generate_impl as it    *)
(* reuses the KV cache of the call before, its token mirror `cached` and   *)
(* its text mirror `cached_text`, the prefill in batches that Ctrl+C may   *)
(* stop or abort in the middle of, the generation, and the state file that *)
(* a later process starts from.                                            *)
(*                                                                         *)
(* The callers may ask for any prompt after any other: one conversation    *)
(* growing, its history rewritten by compaction, a sub-agent's, a resumed  *)
(* one.  A text is a sequence of characters, Spell gives a run of tokens   *)
(* its text, and the same text may be spelled by different runs.           *)
(***************************************************************************)
EXTENDS Integers, Sequences

CONSTANTS
  Chars,
  Tokens,
  Spell(_),      \* the text of a run of tokens
  Tokenize,      \* llama_tokenize, as a function on texts
  Prompts,       \* the prompts the callers may render
  NCtx,          \* llama_n_ctx
  FirstChunk,    \* the calibration batch of the prefill (4 tokens) ...
  Chunk,         \* ... and the others (32)
  SaveMin        \* new tokens worth a state file (more than 64)

Runs == UNION {[1 .. n -> Tokens] : n \in 0 .. NCtx}
After(p, n) == SubSeq(p, n + 1, Len(p))

(* Cached positions that a batch which failed or was aborted left behind.  *)
Junk == "junk"

ASSUME CacheAssumption ==
  /\ Junk \notin Tokens
  /\ NCtx \in Nat \ {0} /\ FirstChunk \in Nat \ {0} /\ Chunk \in Nat \ {0}
  /\ SaveMin \in Nat
  /\ Prompts \subseteq Seq(Chars) /\ <<>> \notin Prompts

ASSUME SpellAssumption ==
  /\ Spell(<<>>) = <<>>
  /\ \A s, t \in Runs : s \o t \in Runs => Spell(s \o t) = Spell(s) \o Spell(t)
  /\ \A s \in Runs : Spell(s) \in Seq(Chars) /\ (s # <<>> => Spell(s) # <<>>)

ASSUME TokenizeAssumption ==
  \A p \in Prompts : \A n \in 0 .. Len(p) - 1 :
    /\ Tokenize[After(p, n)] \in Seq(Tokens) \ {<<>>}
    /\ Tokenize[After(p, n)] \in Runs => Spell(Tokenize[After(p, n)]) = After(p, n)

VARIABLES
  kv,       \* what llama's memory holds, by position
  cached,   \* the mirror: tokens known to be in it
  ctext,    \* cached_text: their text, or empty when not known
  pc,       \* "idle", "prefill" or "sample"
  prompt,   \* the call's prompt
  toks,     \* its tokens
  off,      \* the loop variable of the prefill
  keep,     \* n_keep
  saved,    \* cache_saved
  disk      \* the state file, or NoFile

vars == <<kv, cached, ctext, pc, prompt, toks, off, keep, saved, disk>>

NoFile == <<>>         \* a file of no tokens is not used

TypeOK ==
  /\ kv \in Seq(Tokens \cup {Junk}) /\ Len(kv) <= NCtx
  /\ cached \in Runs
  /\ ctext \in Seq(Chars)
  /\ pc \in {"idle", "prefill", "sample"}
  /\ prompt \in Prompts \cup {<<>>}
  /\ toks \in Runs
  /\ off \in 0 .. NCtx
  /\ keep \in 0 .. NCtx
  /\ saved \in BOOLEAN
  /\ disk \in Runs

Init ==
  /\ kv = <<>> /\ cached = <<>> /\ ctext = <<>>
  /\ pc = "idle" /\ prompt = <<>> /\ toks = <<>> /\ off = 0 /\ keep = 0
  /\ saved = FALSE /\ disk = NoFile

-----------------------------------------------------------------------------
(* The exact continuation of the text the cache covers.                    *)
Continues(p) ==
  /\ ctext # <<>>
  /\ Len(ctext) <= Len(p)
  /\ SubSeq(p, 1, Len(ctext)) = ctext

Covered(p) == After(p, Len(ctext)) = <<>>

RunOf(p) ==
  IF Continues(p)
    THEN IF Covered(p) THEN cached ELSE cached \o Tokenize[After(p, Len(ctext))]
    ELSE Tokenize[p]

(* The tokens that need not be decoded again: the whole mirror when the    *)
(* prompt continues it, else the longest common prefix, but never all.     *)
Agree(run, n) == n <= Len(cached) /\ \A i \in 1 .. n : cached[i] = run[i]

Reused(p, run, n) ==
  /\ n \in 0 .. Len(run) - 1
  /\ IF Continues(p)
       THEN n = IF Len(cached) < Len(run) THEN Len(cached) ELSE Len(run) - 1
       ELSE /\ Agree(run, n)
            /\ n < Len(run) - 1 => ~Agree(run, n + 1)

Idle == pc' = "idle" /\ prompt' = <<>> /\ toks' = <<>> /\ off' = 0 /\ keep' = 0

TooLong(p) ==
  /\ pc = "idle"
  /\ Len(RunOf(p)) > NCtx
  /\ ctext' = <<>>
  /\ UNCHANGED <<kv, cached, pc, prompt, toks, off, keep, saved, disk>>

Begin(p) ==
  /\ pc = "idle"
  /\ Len(RunOf(p)) <= NCtx
  /\ \E n \in 0 .. Len(RunOf(p)) :
       /\ Reused(p, RunOf(p), n)
       /\ keep' = n /\ off' = n
       /\ kv' = SubSeq(kv, 1, n)
       /\ cached' = SubSeq(cached, 1, n)
  /\ ctext' = <<>>
  /\ pc' = "prefill" /\ prompt' = p /\ toks' = RunOf(p)
  /\ UNCHANGED <<saved, disk>>

-----------------------------------------------------------------------------
(* Prefill: one batch a step. *)

(* Mutant of Want: the first batch is sized by a rate not measured yet.    *)
WantFromRate == IF off = keep THEN 0 ELSE Chunk

Want == IF off = keep THEN FirstChunk ELSE Chunk
Batch ==
  LET n == IF Len(toks) - off < Want THEN Len(toks) - off ELSE Want
  IN  SubSeq(toks, off + 1, off + n)

Reading == pc = "prefill" /\ off < Len(toks)

(* Mutant of DecodeBatch: the loop advances by CHUNK after every batch.    *)
DecodeBatchSkips ==
  /\ Reading
  /\ kv' = kv \o Batch
  /\ cached' = cached \o Batch
  /\ off' = IF off + Chunk < Len(toks) THEN off + Chunk ELSE Len(toks)
  /\ UNCHANGED <<ctext, pc, prompt, toks, keep, saved, disk>>

DecodeBatch ==
  /\ Reading
  /\ kv' = kv \o Batch
  /\ cached' = cached \o Batch
  /\ off' = off + Len(Batch)
  /\ UNCHANGED <<ctext, pc, prompt, toks, keep, saved, disk>>

StoppedBetweenBatches ==
  /\ Reading
  /\ Idle
  /\ UNCHANGED <<kv, cached, ctext, saved, disk>>

Partial == {kv} \cup (IF Len(kv) < NCtx THEN {Append(kv, Junk)} ELSE {})

AbortedInBatch ==
  /\ Reading
  /\ kv' \in Partial
  /\ cached' = <<>>
  /\ Idle
  /\ UNCHANGED <<ctext, saved, disk>>

BatchFailed ==
  /\ Reading
  /\ kv' \in Partial
  /\ Idle
  /\ UNCHANGED <<cached, ctext, saved, disk>>

PrefillDone ==
  /\ pc = "prefill"
  /\ off >= Len(toks)
  /\ pc' = "sample"
  /\ ctext' = prompt
  /\ IF ~saved /\ Len(toks) - keep > SaveMin
       THEN /\ saved' = TRUE
            /\ disk' \in {cached, disk, NoFile}        \* or not, or torn
       ELSE UNCHANGED <<saved, disk>>
  /\ UNCHANGED <<kv, cached, prompt, toks, off, keep>>

-----------------------------------------------------------------------------
(* Generation. *)

Writing == pc = "sample" /\ Len(kv) < NCtx

(* Mutant of SampleToken: the token is mirrored before its forward pass.   *)
SampleTokenEarly(t) ==
  /\ Writing
  /\ kv' \in {kv, Append(kv, t)}
  /\ cached' = Append(cached, t)
  /\ ctext' = ctext \o Spell(<<t>>)
  /\ UNCHANGED <<pc, prompt, toks, off, keep, saved, disk>>

SampleToken(t) ==
  /\ Writing
  /\ kv' = Append(kv, t)
  /\ cached' = Append(cached, t)
  /\ ctext' = ctext \o Spell(<<t>>)
  /\ UNCHANGED <<pc, prompt, toks, off, keep, saved, disk>>

(* End of generation, out of room, a runaway stopped, or Ctrl+C between    *)
(* two tokens.                                                             *)
SampleStops ==
  /\ pc = "sample"
  /\ Idle
  /\ UNCHANGED <<kv, cached, ctext, saved, disk>>

AbortedInToken ==
  /\ Writing
  /\ kv' \in Partial
  /\ cached' = <<>>
  /\ ctext' = <<>>
  /\ Idle
  /\ UNCHANGED <<saved, disk>>

TokenFailed ==
  /\ Writing
  /\ kv' \in Partial
  /\ Idle
  /\ UNCHANGED <<cached, ctext, saved, disk>>

(* The process ends, or /model frees the backend, and one opens the model  *)
(* again: the state file loads, or fails to and leaves anything behind.    *)
Reopen ==
  /\ \/ disk # NoFile /\ kv' = disk /\ cached' = disk
     \/ kv' \in {<<>>, <<Junk>>} /\ cached' = <<>>
  /\ ctext' = <<>>
  /\ Idle
  /\ saved' = FALSE
  /\ UNCHANGED disk

-----------------------------------------------------------------------------
Progress ==
  DecodeBatch \/ PrefillDone \/ SampleStops \/ \E t \in Tokens : SampleToken(t)

Trouble ==
  \/ StoppedBetweenBatches \/ AbortedInBatch \/ BatchFailed
  \/ AbortedInToken \/ TokenFailed \/ Reopen

Next == (\E p \in Prompts : TooLong(p) \/ Begin(p)) \/ Progress \/ Trouble

(* Forward passes return; the model may write to the end of the window.    *)
Spec == Init /\ [][Next]_vars /\ WF_vars(Progress)

-----------------------------------------------------------------------------
(* Properties *)

(* "the mirror (and its text) never claim state the cache doesn't hold":   *)
(* every mirrored token is at its position in the KV cache, and the text   *)
(* mirror, when there is one, is the text of those tokens.                 *)
MirrorSound ==
  /\ Len(cached) <= Len(kv)
  /\ \A i \in 1 .. Len(cached) : cached[i] = kv[i]
  /\ ctext # <<>> => Spell(cached) = ctext

(* Reuse is invisible: whatever prompts, aborts, failures and restarts     *)
(* came before, the model continues exactly the text it was asked to.      *)
Decoder == INSTANCE TextDecoder WITH
  Pieces <- {Spell(<<t>>) : t \in Tokens},
  phase <- IF pc = "idle" THEN "idle" ELSE IF pc = "prefill" THEN "reading" ELSE "writing",
  prompt <- prompt,
  seen <- IF pc = "sample" THEN Spell(kv) ELSE <<>>

ReuseIsInvisible == Decoder!Spec

(* A generate returns: it decodes at most the window and then stops.       *)
GenerateReturns == pc # "idle" ~> pc = "idle"
=============================================================================
