----------------------------- MODULE Observations -----------------------------
(***************************************************************************)
(* What the tools tell the model: obs_capped and obs_window of             *)
(* core/obsfmt.c, and read_file, list_dir, run_command, glob, search,      *)
(* fetch and websearch of tools/tools.c.  An observation is a record of    *)
(* the facts its text states.                                              *)
(***************************************************************************)
EXTENDS Integers, Sequences, SequencesExt, FiniteSets

CONSTANTS
  MaxLines, MaxBytes,         \* MAX_OBS_LINES 200, MAX_OBS_BYTES 8192
  WalkBudget, WalkDepth,      \* WALK_BUDGET 5000, WALK_MAX_DEPTH 64
  TextCap,                    \* FETCH_TEXT_CAP 24000
  Junk                        \* build, node_modules, ...: never searched

Newline == "\n"
Least(S) == CHOOSE n \in S : \A m \in S : n <= m
Most(S) == CHOOSE n \in S : \A m \in S : m <= n
NoText == <<>>

(***************************************************************************)
(* Long texts.  A line ends with its newline; the last one may lack it.    *)
(***************************************************************************)
Ends(t) == {i \in DOMAIN t : t[i] = Newline \/ i = Len(t)}
Total(t) == Cardinality(Ends(t))
EndOf(t, n) ==                \* the index of the last character of line n
  IF n = 0 THEN 0 ELSE CHOOSE i \in Ends(t) : Cardinality({k \in Ends(t) : k <= i}) = n

ObsCapped(t) ==
  LET full == Cardinality({i \in DOMAIN t : t[i] = Newline})
      lines == IF full < MaxLines THEN Len(t) ELSE EndOf(t, MaxLines)
      off == IF lines > MaxBytes THEN MaxBytes ELSE lines
      ended == Cardinality({i \in 1 .. off : t[i] = Newline})
  IN [text |-> SubSeq(t, 1, off), more |-> IF off < Len(t) THEN Total(t) - ended ELSE 0]

(* Mutant of Shown: the byte limit may cut off even the first line.        *)
ShownNone(t, offset) ==
  Most({0} \cup {n \in 1 .. MaxLines :
    offset + n <= Total(t) /\ EndOf(t, offset + n) - EndOf(t, offset) <= MaxBytes})

Shown(t, offset) ==           \* how many lines a page has, at least one
  Most({n \in 1 .. MaxLines : offset + n <= Total(t) /\
          (n = 1 \/ EndOf(t, offset + n) - EndOf(t, offset) <= MaxBytes)})

ObsWindow(t, offset) ==
  LET next == offset + Shown(t, offset)
  IN IF offset >= Total(t) THEN [text |-> NoText, next |-> 0]
     ELSE [text |-> SubSeq(t, EndOf(t, offset) + 1, EndOf(t, next)),
           next |-> IF next < Total(t) THEN next ELSE 0]

(* read_file.  A file is [media, text]; media "none" is text.              *)
Error == [ok |-> FALSE, text |-> NoText, next |-> 0, attached |-> FALSE]
ReadFile(inside, present, file, offset, vision) ==
  CASE ~inside \/ ~present -> Error
    [] inside /\ present /\ file.media # "none" ->
         [Error EXCEPT !.ok = vision, !.attached = vision]
    [] OTHER -> LET w == ObsWindow(file.text, IF offset < 0 THEN 0 ELSE offset)
                IN [ok |-> TRUE, text |-> w.text, next |-> w.next, attached |-> FALSE]

RECURSIVE Paged(_, _, _)
Paged(t, offset, fuel) ==     \* a model that follows the footer of each page
  LET r == ReadFile(TRUE, TRUE, [media |-> "none", text |-> t], offset, FALSE)
  IN IF r.next = 0 \/ fuel = 0 THEN r.text ELSE r.text \o Paged(t, r.next, fuel - 1)

(* Page by page a file is read whole, nothing twice and nothing lost; and  *)
(* a capped output is a beginning of the output, whole unless it says so,  *)
(* with as many lines missing or cut as it says.                           *)
TextsAreWhole(t) ==
  LET c == ObsCapped(t)
      wholeLines == {n \in 1 .. Total(t) : EndOf(t, n) <= Len(c.text)}
  IN /\ Paged(t, 0, Len(t)) = t
     /\ IsPrefix(c.text, t)
     /\ c.more = 0 <=> c.text = t
     /\ c.more = Total(t) - Cardinality(wholeLines)

(***************************************************************************)
(* list_dir.  An entry is [name, is], `is` "plain", "bak", "redo" or       *)
(* "state".                                                                *)
(***************************************************************************)
ListDir(entries) ==
  LET seen == SelectSeq(entries, LAMBDA e : e.is = "plain")
      at == {i \in DOMAIN entries : entries[i].is = "plain"}
      from == CHOOSE i \in at : Cardinality({k \in at : k < i}) = MaxLines
      rest == {i \in DOMAIN entries : i >= from /\ entries[i].is \notin {"bak", "state"}}
  IN IF Len(seen) <= MaxLines THEN [shown |-> seen, more |-> 0]
     ELSE [shown |-> SubSeq(seen, 1, MaxLines), more |-> Cardinality(rest)]

(* Nothing of the harness shows; what is not shown is announced, although  *)
(* the number is too high when redo copies are among the rest.             *)
ListingIsHonest(entries) ==
  LET r == ListDir(entries)
      plain == SelectSeq(entries, LAMBDA e : e.is = "plain")
      redo == SelectSeq(entries, LAMBDA e : e.is = "redo")
  IN /\ IsPrefix(r.shown, plain)
     /\ r.more = 0 <=> r.shown = plain
     /\ r.more \in Len(plain) - Len(r.shown) .. Len(plain) - Len(r.shown) + Len(redo)

(***************************************************************************)
(* run_command.  A command line is a sequence of commands [out, err]: the  *)
(* "2>&1" that is appended binds to the last of them.  `mtime` gives the   *)
(* time of the files after it ran, -1 for none.                            *)
(***************************************************************************)
Captured(cmds) ==
  FlattenSeq([i \in DOMAIN cmds |-> cmds[i].out \o (IF i = Len(cmds) THEN cmds[i].err ELSE NoText)])

RunUsesStaleBuild(mtime) ==   \* the source that is newer, or "none"
  LET newer(src) == mtime[src] >= 0 /\ (mtime["bin"] < 0 \/ mtime[src] > mtime["bin"])
  IN IF newer("c") THEN "c" ELSE IF newer("cpp") THEN "cpp" ELSE "none"

RunCommand(launched, cmds, code, mtime) ==
  LET out == Captured(cmds)
      stale == IF mtime = <<>> THEN "none" ELSE RunUsesStaleBuild(mtime)
      hint == CASE stale # "none" -> stale
                [] stale = "none" /\ code # 0 /\ "nofile" \in Range(out) -> "write"
                [] OTHER -> "none"
  IN IF ~launched THEN [ok |-> FALSE, hint |-> "none", text |-> NoText, more |-> 0]
     ELSE [ok |-> code = 0, hint |-> hint, text |-> ObsCapped(out).text, more |-> ObsCapped(out).more]

(* A command that failed is not reported as one that worked, an old build  *)
(* is never taken for the new one in silence, and a hint names a source    *)
(* that is really there.                                                   *)
RunIsHonest(launched, cmds, code, mtime) ==
  LET r == RunCommand(launched, cmds, code, mtime)
  IN /\ r.ok => launched /\ code = 0
     /\ launched /\ mtime # <<>> =>
          /\ r.hint \in {"c", "cpp"} <=>
               \E s \in {"c", "cpp"} : mtime[s] >= 0 /\ mtime[s] > mtime["bin"]
          /\ r.hint \in {"c", "cpp"} => mtime[r.hint] >= 0

(***************************************************************************)
(* glob and search walk the tree.  A tree is a set of [path, kind], kind   *)
(* "file", "dir" or "link", a path a sequence of names; `gi` tells which   *)
(* relative paths the .gitignore names.                                    *)
(***************************************************************************)
Name(e) == Last(e.path)
IgnoredEntry(e) == Name(e) \in Junk
Entries(tree, dir) == SetToSeq({e \in tree : Front(e.path) = dir})
Rel(from, path) == from.prefix \o SubSeq(path, Len(from.dir) + 1, Len(path))

RECURSIVE Walk(_, _, _, _, _, _), Visit(_, _, _, _, _, _)

Walk(tree, gi, from, dir, budget, depth) ==
  IF budget <= 0 \/ depth > WalkDepth THEN [seen |-> <<>>, left |-> budget]
  ELSE Visit(tree, gi, from, Entries(tree, dir), budget, depth)

Visit(tree, gi, from, es, budget, depth) ==
  LET e == es[1]
      one == CASE IgnoredEntry(e) \/ e.kind = "link" -> [seen |-> <<>>, left |-> budget]
               [] ~IgnoredEntry(e) /\ e.kind # "link" /\ Rel(from, e.path) \in gi ->
                    [seen |-> <<>>, left |-> budget - 1]
               [] OTHER -> IF e.kind = "dir"
                           THEN Walk(tree, gi, from, e.path, budget - 1, depth + 1)
                           ELSE [seen |-> <<e.path>>, left |-> budget - 1]
      rest == Visit(tree, gi, from, Tail(es), one.left, depth)
  IN IF es = <<>> \/ budget <= 0 THEN [seen |-> <<>>, left |-> budget]
     ELSE [seen |-> one.seen \o rest.seen, left |-> rest.left]

Found(tree, gi, from) == Walk(tree, gi, from, from.dir, WalkBudget, 0)
Root == [dir |-> <<>>, prefix |-> <<>>]

Capped(hits) == SubSeq(hits, 1, IF Len(hits) > MaxLines THEN MaxLines ELSE Len(hits))

DoGlob(tree, gi, wanted) ==   \* `wanted`: the names the pattern matches
  LET hits == SelectSeq(Found(tree, gi, Root).seen, LAMBDA p : Last(p) \in wanted)
  IN [hits |-> Capped(hits), more |-> Len(hits) >= MaxLines]

(* Every file of that name that no hidden, linked or ignored folder hides  *)
(* is found, as long as the walk was not cut short by its budget; no other *)
(* is ever named, and no file twice.                                       *)
Above(p) == {SubSeq(p, 1, n) : n \in 1 .. Len(p)}
Visible(tree, gi, p) ==
  /\ \E e \in tree : e.path = p /\ e.kind = "file"
  /\ Len(p) <= WalkDepth + 1
  /\ \A e \in tree : e.path \in Above(p) => ~IgnoredEntry(e) /\ e.kind # "link" /\ e.path \notin gi

GlobFindsAll(tree, gi, wanted) ==
  LET r == DoGlob(tree, gi, wanted)
      all == {e.path : e \in {f \in tree : Name(f) \in wanted /\ Visible(tree, gi, f.path)}}
      finished == Found(tree, gi, Root).left > 0
  IN /\ Range(r.hits) \subseteq all
     /\ Cardinality(Range(r.hits)) = Len(r.hits)
     /\ finished /\ ~r.more => Range(r.hits) = all

(* search of a file: a line counts when the first occurrence of the        *)
(* pattern from its start on ends in it.                                   *)
Occurrences(t, w) == {i \in 1 .. Len(t) - Len(w) + 1 : SubSeq(t, i, i + Len(w) - 1) = w}
SearchVisit(t, w) ==
  LET starts == {1} \cup {i + 1 : i \in {k \in DOMAIN t : t[k] = Newline}}
      last(s) == Least({Len(t)} \cup {i - 1 : i \in {k \in DOMAIN t : k >= s /\ t[k] = Newline}})
      hits(s) == {i \in Occurrences(t, w) : i >= s}
  IN IF "nul" \in Range(t) THEN {}
     ELSE {Cardinality({k \in starts : k <= s}) : s \in
             {k \in starts : last(k) >= k /\ hits(k) # {} /\ Least(hits(k)) + Len(w) - 1 <= last(k)}}

SearchFindsLines(t, w) ==     \* ... which is every line that contains it
  "nul" \notin Range(t) =>
    SearchVisit(t, w) = {n \in 1 .. Total(t) :
      Occurrences(SubSeq(t, EndOf(t, n - 1) + 1, EndOf(t, n)), w) # {}
        /\ Newline \notin Range(w)}

(* search starts below a folder and names what it finds from the root: the *)
(* names come from the text of the argument, cleaned up.                   *)
Spelled(sub) ==               \* the prefix of the names, character by character
  LET bare == IF sub = <<".">> THEN <<>> ELSE sub
      l == SubSeq(bare, 1, Most({0} \cup {i \in DOMAIN bare : bare[i] \notin {"/", "\\"}}))
  IN IF Len(l) >= 2 /\ l[1] = "." /\ l[2] \in {"/", "\\"} THEN SubSeq(l, 3, Len(l)) ELSE l

(***************************************************************************)
(* fetch: a page to text.  A document is a sequence of pieces: words,      *)
(* spaces, tags ("<p>" is a block, "<b>" is not), script tags, the         *)
(* comment marks, an entity, and a "<" that opens nothing.                 *)
(***************************************************************************)
Blocks == {"<p>", "</p>"}
Tags == Blocks \cup {"<b>", "</b>", "<script>", "</script>"}
Closed == Tags \cup {"-->"}   \* the pieces with a ">"

From(d, i, S) ==              \* behind the next piece of S, or the end
  LET at == {k \in i .. Len(d) : d[k] \in S} IN IF at = {} THEN Len(d) + 1 ELSE Least(at) + 1

Decoded(c) == IF c = "&lt;" THEN "less" ELSE c

RECURSIVE HtmlFrom(_, _, _, _)
HtmlFrom(d, i, run, out) ==   \* run: newlines in a row
  LET brk == IF run < 2 THEN Append(out, Newline) ELSE out
      grown == IF run < 2 THEN run + 1 ELSE run
  IN CASE i > Len(d) -> out
       [] i <= Len(d) /\ d[i] = "<!--" -> HtmlFrom(d, From(d, i + 1, {"-->"}), run, out)
       [] i <= Len(d) /\ d[i] = "<script>" -> HtmlFrom(d, From(d, i + 1, {"</script>"}), run, out)
       [] i <= Len(d) /\ d[i] \in Blocks -> HtmlFrom(d, i + 1, grown, brk)
       [] i <= Len(d) /\ d[i] \in Tags \ (Blocks \cup {"<script>"}) -> HtmlFrom(d, i + 1, run, out)
       [] i <= Len(d) /\ d[i] = "<" ->
            IF \A k \in i .. Len(d) : d[k] \notin Closed THEN out
            ELSE HtmlFrom(d, From(d, i, Closed), run, out)
       [] i <= Len(d) /\ d[i] = Newline -> HtmlFrom(d, i + 1, grown, brk)
       [] i <= Len(d) /\ d[i] = " " -> HtmlFrom(d, i + 1, run, Append(out, " "))
       [] OTHER -> HtmlFrom(d, i + 1, 0, Append(out, Decoded(d[i])))
HtmlToText(d) == HtmlFrom(d, 1, 2, <<>>)

(* The reference: where a reader of the page is after each piece.          *)
Reader(d) ==
  LET at[i \in 0 .. Len(d)] ==
        IF i = 0 THEN "text"
        ELSE CASE at[i - 1] = "text" ->
                    (CASE d[i] = "<!--" -> "comment" [] d[i] = "<script>" -> "script"
                       [] d[i] = "<" -> "tag" [] OTHER -> "text")
               [] at[i - 1] = "comment" -> IF d[i] = "-->" THEN "text" ELSE "comment"
               [] at[i - 1] = "script" -> IF d[i] = "</script>" THEN "text" ELSE "script"
               [] at[i - 1] = "tag" -> IF d[i] \in Closed THEN "text" ELSE "tag"
  IN at
Words == {"w", "&lt;", "less"}

IsHtml(d) ==                  \* it begins with markup
  LET ink == SelectSeq(d, LAMBDA c : c \notin {" ", Newline})
  IN ink # <<>> /\ ink[1] \in Tags \cup {"<", "<!--"}

DoFetch(scheme, reached, status, d) ==
  LET text == IF IsHtml(d) THEN HtmlToText(d) ELSE d
  IN IF scheme \notin {"http", "https"} \/ ~reached
     THEN [ok |-> FALSE, text |-> NoText, cut |-> FALSE]
     ELSE [ok |-> status \in 200 .. 299,
           text |-> IF Len(text) > TextCap THEN SubSeq(text, 1, TextCap) ELSE text,
           cut |-> Len(text) > TextCap]

(* The words of the page outside its markup, scripts and comments, all of  *)
(* them and in their order, as far as a page that says it is whole goes;   *)
(* and never more than one empty line in a row.                            *)
PageIsReadable(d) ==
  LET out == HtmlToText(d)
      read == SelectSeq([i \in DOMAIN d |-> i], LAMBDA i : d[i] \in Words /\ Reader(d)[i - 1] = "text")
      got == DoFetch("https", TRUE, 200, d)
      told == SelectSeq(got.text, LAMBDA c : c \in Words)
      words == SelectSeq(out, LAMBDA c : c \in Words)
  IN /\ words = [k \in DOMAIN read |-> Decoded(d[read[k]])]
     /\ Range(out) \cap Tags = {}
     /\ IsHtml(d) => IsPrefix(told, words) /\ (got.cut \/ told = words)
     /\ \A i \in 1 .. Len(out) - 2 : SubSeq(out, i, i + 2) # <<Newline, Newline, Newline>>

(* websearch puts the query into the address: a character stands for       *)
(* itself, for a "+" or, after "%", for its code.                          *)
Plain == {"a", "-"}
UrlEncode(q) ==
  FlattenSeq([i \in DOMAIN q |-> CASE q[i] \in Plain -> <<q[i]>>
                                   [] q[i] = " " -> <<"+">>
                                   [] OTHER -> <<"%", q[i]>>])
RECURSIVE UrlDecode(_)
UrlDecode(s) ==               \* the server's reading
  CASE s = <<>> -> <<>>
    [] s # <<>> /\ s[1] = "%" -> <<s[2]>> \o UrlDecode(SubSeq(s, 3, Len(s)))
    [] OTHER -> <<IF s[1] = "+" THEN " " ELSE s[1]>> \o UrlDecode(Tail(s))
QuerySurvives(q) == UrlDecode(UrlEncode(q)) = q
=============================================================================
