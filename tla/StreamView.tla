----------------------------- MODULE StreamView -----------------------------
(***************************************************************************)
(* The renderer of a reply while it streams: ui_token, md_emit and         *)
(* ui_message of main.c.  The head of a reply is held back until it is     *)
(* known whether it is a tool call; prose goes through a one-pass markdown *)
(* renderer that swallows the markers; of a tool call only the value of    *)
(* "content" is shown.                                                     *)
(*                                                                         *)
(* A text is a sequence of symbols.  The keys "name" and "content" of the  *)
(* JSON are one symbol each; styles (bold, colour) are not modelled.       *)
(***************************************************************************)
EXTENDS Characters

CONSTANTS
  Chars,      \* symbols of a reply
  Tag,        \* "<tool_call>", symbol by symbol
  NameKey,    \* the key "name", quotes included
  ContentKey, \* the key "content"
  Hold        \* characters held back: 63 in the code

ASSUME StreamAssumption ==
  /\ Tag \in Seq(Chars) /\ Tag # <<>> /\ \A i \in 2 .. Len(Tag) : Tag[i] # Tag[1]
  /\ Hold \in Nat \ {0}

(* The fields of `ui` that decide what is shown; `out` is what was.        *)
Fresh ==
  [sr |-> "decide", acc |-> <<>>, tag |-> 0, esc |-> FALSE, bol |-> TRUE,
   out |-> <<>>, ticks |-> 0, code |-> FALSE, fence |-> FALSE, skip |-> FALSE,
   head |-> FALSE, dash |-> FALSE, star |-> FALSE, starBol |-> FALSE]

Emit(u, c) == [u EXCEPT !.out = Append(@, c), !.bol = (c = Newline)]

EmitTicks(u) ==
  [u EXCEPT !.out = @ \o [i \in 1 .. u.ticks |-> "tick"],
            !.bol = @ /\ u.ticks = 0, !.ticks = 0]

(* Inside a fenced block only three backticks at the start of a line are   *)
(* not literal.                                                            *)
InFence(u, c) ==
  IF u.bol /\ c = "tick"
  THEN IF u.ticks = 2 THEN [u EXCEPT !.ticks = 0, !.fence = FALSE, !.skip = TRUE]
       ELSE [u EXCEPT !.ticks = @ + 1]
  ELSE Emit(EmitTicks(u), c)

Backtick(u) ==
  IF u.ticks = 2 /\ u.bol THEN [u EXCEPT !.ticks = 0, !.fence = TRUE, !.skip = TRUE]
  ELSE [u EXCEPT !.ticks = @ + 1]

Ordinary(u, c) ==
  CASE c = "*" /\ ~u.code -> [u EXCEPT !.star = TRUE, !.starBol = u.bol]
    [] u.bol /\ c = "#" -> [u EXCEPT !.head = TRUE]
    [] u.bol /\ u.head /\ c = " " -> u
    [] u.bol /\ c = "-" /\ ~u.code -> [u EXCEPT !.dash = TRUE]
    [] OTHER -> Emit([u EXCEPT !.head = @ /\ c # Newline], c)

Starred(u, c) ==          \* a '*' is held back
  LET v == [u EXCEPT !.star = FALSE, !.starBol = FALSE]
  IN CASE c = "*" -> v
       [] c = " " /\ u.starBol -> Emit(Emit(v, "bullet"), " ")
       [] OTHER -> Ordinary(Emit(v, "*"), c)

Dashed(u, c) ==           \* a '-' at the start of a line is held back
  LET v == [u EXCEPT !.dash = FALSE]
  IN IF c = " " THEN Emit(Emit(v, "bullet"), " ")
     ELSE IF v.star THEN Starred(Emit(v, "-"), c)
     ELSE Ordinary(Emit(v, "-"), c)

Markdown(u, c) ==
  IF u.skip THEN IF c = Newline THEN Emit([u EXCEPT !.skip = FALSE], c) ELSE u
  ELSE IF u.fence THEN InFence(u, c)
  ELSE IF c = "tick" THEN Backtick(u)
  ELSE LET v == [u EXCEPT !.code = IF u.ticks > 0 THEN ~@ ELSE @, !.ticks = 0]
       IN IF v.dash THEN Dashed(v, c)
          ELSE IF v.star THEN Starred(v, c)
          ELSE Ordinary(v, c)

MarkdownAll(u, s) ==
  LET upTo[n \in 0 .. Len(s)] == IF n = 0 THEN u ELSE Markdown(upTo[n - 1], s[n])
  IN upTo[Len(s)]

Occurs(s, w) == \E i \in 0 .. Len(s) - Len(w) : SubSeq(s, i + 1, i + Len(w)) = w

Decide(u, c) ==
  LET v == [u EXCEPT !.acc = Append(@, c)]
  IN IF Occurs(v.acc, Tag) \/ Occurs(v.acc, <<NameKey>>) THEN [v EXCEPT !.sr = "tool"]
     ELSE IF Len(v.acc) = Hold THEN MarkdownAll([v EXCEPT !.sr = "plain"], v.acc)
     ELSE v

(* Mutant of Unmatched: the held part of a tag that was none is dropped.   *)
UnmatchedDropped(u) == [u EXCEPT !.tag = 0]

Unmatched(u) == MarkdownAll([u EXCEPT !.tag = 0], SubSeq(Tag, 1, u.tag))

Plain(u, c) ==
  IF c = Tag[u.tag + 1]
  THEN IF u.tag + 1 = Len(Tag) THEN [u EXCEPT !.tag = 0, !.sr = "after"]
       ELSE [u EXCEPT !.tag = @ + 1]
  ELSE IF c = Tag[1] THEN [Unmatched(u) EXCEPT !.tag = 1]
  ELSE Markdown(Unmatched(u), c)

Value(u, c) ==            \* the JSON string, unescaped on the way
  CASE u.esc -> [Emit(u, CASE c = "n" -> Newline [] c = "t" -> "\t" [] c = "r" -> "\r"
                           [] OTHER -> c) EXCEPT !.esc = FALSE]
    [] ~u.esc /\ c = "\\" -> [u EXCEPT !.esc = TRUE]
    [] ~u.esc /\ c = "\"" -> [u EXCEPT !.sr = "after"]
    [] OTHER -> Emit(u, c)

Token(u, c) ==
  CASE u.sr = "decide"  -> Decide(u, c)
    [] u.sr = "plain"   -> Plain(u, c)
    [] u.sr = "tool"    -> [u EXCEPT !.sr = IF c = ContentKey THEN "valwait" ELSE @]
    [] u.sr = "valwait" -> [u EXCEPT !.sr = IF c = "\"" THEN "content" ELSE @]
    [] u.sr = "content" -> Value(u, c)
    [] u.sr = "after"   -> u

(* ui_message at the end of a plain reply: what is held back is flushed.   *)
Message(u) ==
  LET v == CASE u.sr = "decide" -> MarkdownAll(u, u.acc)
             [] u.sr = "plain"  -> Unmatched(u)
             [] OTHER           -> u
      star == IF v.star THEN Emit(v, "*") ELSE v
  IN IF star.dash THEN Emit(star, "-") ELSE star
-----------------------------------------------------------------------------
(* What a reader of the terminal may expect of a reply.                    *)
Markup == {"tick", "*", "-", "#", " ", "bullet", Newline}
WordsAt(s) == {i \in DOMAIN s : s[i] \notin Markup}

(* Where a line is without a run of three backticks, which alone may be    *)
(* the marker of a fence.                                                  *)
Fence(s, k) == k + 2 <= Len(s) /\ \A i \in k .. k + 2 : s[i] = "tick"
SameLine(s, i, k) == \A j \in (i .. k) \cup (k .. i) : s[j] # Newline
Fenceless(s) == {i \in DOMAIN s : \A k \in DOMAIN s : SameLine(s, i, k) => ~Fence(s, k)}

TagsIn(s) == {i \in 0 .. Len(s) - Len(Tag) : SubSeq(s, i + 1, i + Len(Tag)) = Tag}

Prose(s) ==               \* a reply that is not a call, up to a call at its end
  IF TagsIn(s) = {} THEN s
  ELSE SubSeq(s, 1, CHOOSE i \in TagsIn(s) : \A k \in TagsIn(s) : i <= k)

IsCall(s) == LET h == SubSeq(s, 1, IF Len(s) < Hold THEN Len(s) ELSE Hold)
             IN Occurs(h, Tag) \/ Occurs(h, <<NameKey>>)

(* A tag across the end of the held-back part is not recognised.           *)
Straddles(s) == \E i \in TagsIn(s) : i < Hold /\ i + Len(Tag) > Hold

ReplyShown(s, u) ==
  LET prose == Prose(s)
      out == Message(u).out
  IN IsCall(s) \/ Straddles(s)
       \/ \E kept \in SUBSET WordsAt(prose) :
            /\ WordsAt(prose) \cap Fenceless(prose) \subseteq kept
            /\ Picked(out, WordsAt(out)) = Picked(prose, kept)

(* A call that writes a file: while it streams, its content is shown as it *)
(* will be written.  `lit` is the content as a JSON literal.  (The escapes *)
(* \b, \f and \uXXXX are shown as they are spelled.)                       *)
Fed(u, s) ==
  LET upTo[n \in 0 .. Len(s)] == IF n = 0 THEN u ELSE Token(upTo[n - 1], s[n])
  IN upTo[Len(s)]
ContentShown(lit, content) ==
  Fed(Fresh, <<NameKey, "x", ContentKey, "x">> \o lit \o <<"x", ContentKey>> \o lit).out = content
=============================================================================
