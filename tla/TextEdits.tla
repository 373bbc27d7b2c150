------------------------------ MODULE TextEdits ------------------------------
(***************************************************************************)
(* The algorithms behind a write: edit_apply of core/edit.c (search and    *)
(* replace), verify_balance and verify_repair_literals of core/verify.c,   *)
(* and diff_unified of core/diff.c.  A text is a sequence of characters;   *)
(* \n, " and so on are what they are, the code's other letters stand for   *)
(* themselves.                                                             *)
(***************************************************************************)
EXTENDS Integers, FiniteSets, Characters

CONSTANTS Context,            \* DIFF_CONTEXT, 3
          DiffMax             \* DIFF_MAX_LINES, 1500

ASSUME EditsAssumption == Context \in Nat /\ DiffMax \in Nat

NoEdit == [ok |-> FALSE, text |-> <<>>]
EndsLine(t) == t # <<>> /\ t[Len(t)] = Newline

(***************************************************************************)
(* Lines, as [from, to] without the newline; the text after the last       *)
(* newline is a line too, if only an empty one.                            *)
(***************************************************************************)
SpanTo(spans, c, n) ==        \* the spans up to the character c, the n-th
  IF c = Newline THEN Append(spans, [from |-> n + 1, to |-> n])
  ELSE [spans EXCEPT ![Len(spans)].to = n]
Spans(t) ==
  LET upTo[n \in 0 .. Len(t)] ==
        IF n = 0 THEN <<[from |-> 1, to |-> 0]>> ELSE SpanTo(upTo[n - 1], t[n], n)
  IN upTo[Len(t)]
LinesOf(t) ==
  LET spans == Spans(t) IN [k \in DOMAIN spans |-> SubSeq(t, spans[k].from, spans[k].to)]

IsWs(c) == c \in {" ", "\t", "\r"}
Stripped(l) ==
  LET ink == {i \in DOMAIN l : ~IsWs(l[i])}
  IN IF ink = {} THEN <<>>
     ELSE SubSeq(l, Least(ink), CHOOSE i \in ink : \A k \in ink : k <= i)

Occurrences(t, w) == {i \in 1 .. Len(t) - Len(w) + 1 : SubSeq(t, i, i + Len(w) - 1) = w}

(* Empty lines at the end of the search text do not count.                 *)
Unpadded(lines) ==
  LET full == {k \in DOMAIN lines : k = 1 \/ lines[k] # <<>>}
  IN SubSeq(lines, 1, CHOOSE k \in full : \A j \in full : j <= k)
Block(old) == Unpadded(LinesOf(old))

Places(content, old) ==
  LET lines == LinesOf(content)
      block == Block(old)
  IN {a \in 0 .. Len(lines) - Len(block) :
        \A k \in DOMAIN block : Stripped(lines[a + k]) = Stripped(block[k])}

(* Mutant of ReplaceLines: the line after the block is joined to it.       *)
ReplaceLinesGlued(content, old, new, a) ==
  LET spans == Spans(content)
      next == a + Len(Block(old)) + 1
      b1 == IF next \in DOMAIN spans THEN spans[next].from - 1 ELSE Len(content)
  IN SubSeq(content, 1, spans[a + 1].from - 1) \o new \o SubSeq(content, b1 + 1, Len(content))

ReplaceLines(content, old, new, a) ==
  LET spans == Spans(content)
      next == a + Len(Block(old)) + 1
      b0 == spans[a + 1].from - 1
      b1 == IF next \in DOMAIN spans THEN spans[next].from - 1 ELSE Len(content)
      glue == IF b1 > b0 /\ content[b1] = Newline /\ ~EndsLine(new) THEN <<Newline>> ELSE <<>>
  IN SubSeq(content, 1, b0) \o new \o glue \o SubSeq(content, b1 + 1, Len(content))

EditApply(content, old, new) ==
  LET exact == Occurrences(content, old)
      at == CHOOSE i \in exact : TRUE
      a == CHOOSE i \in Places(content, old) : TRUE
  IN CASE old = <<>> -> NoEdit
       [] old # <<>> /\ exact # {} ->
            IF Cardinality(exact) > 1 THEN NoEdit
            ELSE [ok |-> TRUE, text |-> SubSeq(content, 1, at - 1) \o new
                                        \o SubSeq(content, at + Len(old), Len(content))]
       [] OTHER -> IF Cardinality(Places(content, old)) # 1 THEN NoEdit
                   ELSE [ok |-> TRUE, text |-> ReplaceLines(content, old, new, a)]

(* An edit that finds its place inexactly replaces whole lines by whole    *)
(* lines: the lines before and after are the ones that were there, and no  *)
(* line is joined to its neighbour; only empty lines at the end may differ. *)
(* An edit that could be meant for two places is refused.                  *)
OtherLinesStay(content, old, new) ==
  LET r == EditApply(content, old, new)
      a == CHOOSE i \in Places(content, old) : TRUE
      lines == LinesOf(content)
      rest == SubSeq(lines, a + Len(Block(old)) + 1, Len(lines))
      typed == LinesOf(new)
      written == IF rest # <<>> /\ EndsLine(new) THEN SubSeq(typed, 1, Len(typed) - 1) ELSE typed
  IN /\ r.ok /\ Occurrences(content, old) = {} =>
          Unpadded(LinesOf(r.text)) = Unpadded(SubSeq(lines, 1, a) \o written \o rest)
     /\ Cardinality(Occurrences(content, old)) > 1 => ~r.ok

(***************************************************************************)
(* The C-ish lexer both verifiers use: the state in front of a character;  *)
(* `skip` says that the character belongs to the pair before it.           *)
(***************************************************************************)
LexFrom == [st |-> "code", skip |-> FALSE]

LexStep(q, c, d) ==           \* d is the character after c, or "end"
  CASE q.skip -> [q EXCEPT !.skip = FALSE]
    [] ~q.skip /\ q.st = "code" ->
         CASE c = "\"" -> [q EXCEPT !.st = "string"]
           [] c = "'" -> [q EXCEPT !.st = "char"]
           [] c = "/" /\ d = "/" -> [st |-> "line", skip |-> TRUE]
           [] c = "/" /\ d = "*" -> [st |-> "block", skip |-> TRUE]
           [] OTHER -> q
    [] ~q.skip /\ q.st \in {"string", "char"} ->
         CASE c = Slash /\ d # "end" -> [q EXCEPT !.skip = TRUE]
           [] c = "\"" /\ q.st = "string" -> LexFrom
           [] c = "'" /\ q.st = "char" -> LexFrom
           [] OTHER -> q
    [] ~q.skip /\ q.st = "line" -> IF c = Newline THEN LexFrom ELSE q
    [] ~q.skip /\ q.st = "block" ->
         IF c = "*" /\ d = "/" THEN [st |-> "code", skip |-> TRUE] ELSE q

Lex(t) ==                     \* the state after n characters
  LET q[n \in 0 .. Len(t)] == IF n = 0 THEN LexFrom ELSE LexStep(q[n - 1], t[n], At(t, n + 1))
  IN q

Pairs == {<<"(", ")">>, <<"{", "}">>, <<"[", "]">>}
Weight(q, c, p) == IF q = LexFrom /\ c = p[1] THEN 1 ELSE IF q = LexFrom /\ c = p[2] THEN -1 ELSE 0
Depth(t, p) ==                \* how many p are open after n characters
  LET q == Lex(t)
      d[n \in 0 .. Len(t)] == IF n = 0 THEN 0 ELSE d[n - 1] + Weight(q[n - 1], t[n], p)
  IN d

VerifyBalance(t) ==           \* TRUE: no complaint
  /\ Lex(t)[Len(t)].st \notin {"string", "block"}
  /\ \A p \in Pairs : LET d == Depth(t, p) IN /\ \A n \in DOMAIN t : d[n] >= 0
                                             /\ d[Len(t)] = 0

InLiteral(q) == q.st \in {"string", "char"}
Mended(q, c) ==
  CASE InLiteral(q) /\ ~q.skip /\ c = Newline -> <<Slash, "n">>
    [] InLiteral(q) /\ ~q.skip /\ c = "\r" -> <<Slash, "r">>
    [] OTHER -> <<c>>
VerifyRepairLiterals(t) ==
  LET q == Lex(t) IN Joined([i \in DOMAIN t |-> Mended(q[i - 1], t[i])])

(* What a reader sees of the program outside its literals.                 *)
CodeOnly(t) == LET q == Lex(t) IN Picked(t, {i \in DOMAIN t : ~InLiteral(q[i - 1])})

(* The repair changes nothing but literals, is done after one pass, and    *)
(* does not change what the balance check says of the text: a write is not *)
(* refused, nor let through, because the harness repaired it.              *)
RepairIsSafe(t) ==
  LET r == VerifyRepairLiterals(t)
  IN /\ CodeOnly(r) = CodeOnly(t)
     /\ VerifyRepairLiterals(r) = r
     /\ VerifyBalance(r) <=> VerifyBalance(t)

(***************************************************************************)
(* The diff: a longest common subsequence, walked forward.                 *)
(***************************************************************************)
DiffLines(t) ==               \* without an empty last line
  LET lines == LinesOf(t)
  IN IF Len(lines) > 1 /\ lines[Len(lines)] = <<>> THEN SubSeq(lines, 1, Len(lines) - 1) ELSE lines

Grid(a, b) == (1 .. Len(a) + 1) \X (1 .. Len(b) + 1)
Lcs(a, b) ==
  LET dp[at \in Grid(a, b)] ==
        LET i == at[1] j == at[2]
        IN IF i > Len(a) \/ j > Len(b) THEN 0
           ELSE IF a[i] = b[j] THEN dp[<<i + 1, j + 1>>] + 1
           ELSE IF dp[<<i + 1, j>>] >= dp[<<i, j + 1>>] THEN dp[<<i + 1, j>>] ELSE dp[<<i, j + 1>>]
  IN dp

Op(type, line) == [type |-> type, line |-> line]

Ops(a, b) ==                  \* the walk: what to do with each line
  LET dp == Lcs(a, b)
      walk[at \in Grid(a, b)] ==
        LET i == at[1] j == at[2]
        IN IF i > Len(a) THEN [k \in 1 .. Len(b) - j + 1 |-> Op("add", b[j + k - 1])]
           ELSE IF j > Len(b) THEN [k \in 1 .. Len(a) - i + 1 |-> Op("del", a[i + k - 1])]
           ELSE IF a[i] = b[j] THEN <<Op("same", a[i])>> \o walk[<<i + 1, j + 1>>]
           ELSE IF dp[<<i + 1, j>>] >= dp[<<i, j + 1>>] THEN <<Op("del", a[i])>> \o walk[<<i + 1, j>>]
           ELSE <<Op("add", b[j])>> \o walk[<<i, j + 1>>]
  IN walk[<<1, 1>>]

Marked(ops) ==                \* every change, with Context lines around it
  {k \in DOMAIN ops : \E c \in DOMAIN ops :
     ops[c].type # "same" /\ k \in c - Context .. c + Context}

(* What is drawn: lines, and a marker that counts what a run hides.        *)
DrawnAt(ops, k) ==
  LET runEnd == Least({n \in k .. Len(ops) : n = Len(ops) \/ n + 1 \in Marked(ops)})
  IN IF k \in Marked(ops) THEN ops[k] ELSE [type |-> "hidden", line |-> runEnd - k + 1]
Drawn(ops) ==
  Picked([k \in DOMAIN ops |-> DrawnAt(ops, k)],
         {k \in DOMAIN ops : k \in Marked(ops) \/ k = 1 \/ k - 1 \in Marked(ops)})
DiffUnified(old, new) ==
  LET a == DiffLines(old)
      b == DiffLines(new)
  IN IF a = b THEN <<>>
     ELSE IF Len(a) > DiffMax \/ Len(b) > DiffMax THEN <<[type |-> "omitted", line |-> 0]>>
     ELSE Drawn(Ops(a, b))

(* The diff the user is shown is the change that was made: patched with    *)
(* it, the old lines are the new ones, whatever it hides is the same in    *)
(* both, and no smaller set of changes would have done.                    *)
PatchStep(a, p, d) ==
  CASE d.type = "add" -> [at |-> p.at, out |-> Append(p.out, d.line)]
    [] d.type = "del" -> [at |-> p.at + 1, out |-> p.out]
    [] d.type = "same" -> [at |-> p.at + 1, out |-> Append(p.out, d.line)]
    [] d.type = "hidden" -> [at |-> p.at + d.line,
                             out |-> p.out \o SubSeq(a, p.at, p.at + d.line - 1)]
Patched(a, drawn) ==
  LET go[n \in 0 .. Len(drawn)] ==
        IF n = 0 THEN [at |-> 1, out |-> <<>>] ELSE PatchStep(a, go[n - 1], drawn[n])
  IN go[Len(drawn)].out

Picks(a) == {Picked(a, s) : s \in SUBSET DOMAIN a}
Kept(a, b) ==                 \* how many lines the best patch keeps
  LET kept == {Len(c) : c \in Picks(a) \cap Picks(b)}
  IN CHOOSE n \in kept : \A m \in kept : m <= n

DiffIsTheChange(old, new) ==
  LET a == DiffLines(old)
      b == DiffLines(new)
      drawn == DiffUnified(old, new)
      ops == Ops(a, b)
      omitted == Len(a) > DiffMax \/ Len(b) > DiffMax
  IN /\ drawn # <<>> /\ ~omitted => Patched(a, drawn) = b
     /\ drawn = <<>> <=> a = b
     /\ Cardinality({k \in DOMAIN ops : ops[k].type = "same"}) = Kept(a, b)
=============================================================================
