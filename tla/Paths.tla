-------------------------------- MODULE Paths --------------------------------
(***************************************************************************)
(* Names that come from outside and what they may reach: the paths of      *)
(* Sandbox, glob_match of core/glob.c and the patterns of                  *)
(* core/gitignore.c.  A name is a sequence of characters.                  *)
(***************************************************************************)
EXTENDS Sandbox, SequencesExt

(***************************************************************************)
(* Wildcards: one pass with a return to the last '*'.                      *)
(***************************************************************************)
At(s, i) == IF i \in DOMAIN s THEN s[i] ELSE "end"

RECURSIVE GlobFrom(_, _, _, _, _, _)
GlobFrom(p, s, i, k, star, from) ==
  IF k > Len(s) THEN \A j \in i .. Len(p) : p[j] = "*"
  ELSE IF At(p, i) \in {"?", s[k]} THEN GlobFrom(p, s, i + 1, k + 1, star, from)
  ELSE IF At(p, i) = "*" THEN GlobFrom(p, s, i + 1, k, i, k)
  ELSE IF star > 0 THEN GlobFrom(p, s, star + 1, from + 1, star, from + 1)
  ELSE FALSE
GlobMatch(p, s) == GlobFrom(p, s, 1, 1, 0, 0)

RECURSIVE Matches(_, _)
Matches(p, s) ==              \* the reference: what a pattern means
  CASE p = <<>> -> s = <<>>
    [] p # <<>> /\ p[1] = "*" -> \E n \in 0 .. Len(s) : Matches(Tail(p), SubSeq(s, n + 1, Len(s)))
    [] OTHER -> s # <<>> /\ p[1] \in {"?", s[1]} /\ Matches(Tail(p), Tail(s))

(* Returning to the last '*' only never misses a match.                    *)
GlobIsExact(p, s) == GlobMatch(p, s) = Matches(p, s)

(***************************************************************************)
(* .gitignore: a line to a pattern, and the last pattern that matches.     *)
(***************************************************************************)
RECURSIVE Trimmed(_)
Trimmed(l) == IF l # <<>> /\ Last(l) \in {" ", "\r"} THEN Trimmed(Front(l)) ELSE l

ParseLine(line) ==            \* no pattern, or one
  LET l == Trimmed(line)
      negated == At(l, 1) = "!"
      bare == IF negated THEN Tail(l) ELSE l
      dirOnly == bare # <<>> /\ Last(bare) = "/"
      body == IF dirOnly THEN Front(bare) ELSE bare
      glob == IF At(body, 1) = "/" THEN Tail(body) ELSE body
  IN IF At(l, 1) = "#" \/ glob = <<>> THEN <<>>
     ELSE <<[glob |-> glob, negated |-> negated, dirOnly |-> dirOnly,
             anchored |-> "/" \in Range(body)]>>

GitignoreParse(lines) == FlattenSeq([i \in DOMAIN lines |-> ParseLine(lines[i])])

BaseOf(rel) == IF Cut(rel, {"/"}) = <<>> THEN <<>> ELSE Last(Cut(rel, {"/"}))

PatMatches(pat, rel, isDir) ==
  /\ pat.dirOnly => isDir
  /\ GlobMatch(pat.glob, IF pat.anchored THEN rel ELSE BaseOf(rel))

GitignoreMatch(pats, rel, isDir) ==
  LET hits == {i \in DOMAIN pats : PatMatches(pats[i], rel, isDir)}
  IN hits # {} /\ ~pats[CHOOSE i \in hits : \A k \in hits : k <= i].negated

(* What a user may rely on when writing a .gitignore: '!' takes back what  *)
(* the same line ignored, a leading '/' and a trailing '/' only narrow a   *)
(* line, and a later line never shields an entry from an earlier one       *)
(* unless it is a '!'.                                                     *)
IgnoreIsLawful(line, other, rel, isDir) ==
  LET ignored(lines) == GitignoreMatch(GitignoreParse(lines), rel, isDir)
      plain == At(line, 1) \notin {"!", "#", "/"}
      whole == line # <<>> /\ Last(line) \notin {" ", "/"}
      starred == "*" \in Range(line)          \* "*" may cross a "/"
  IN /\ plain /\ ignored(<<line>>) => ~ignored(<<line, <<"!">> \o line>>)
     /\ plain /\ ~starred /\ ignored(<<<<"/">> \o line>>) => ignored(<<line>>)
     /\ plain /\ whole => ignored(<<line \o <<"/">>>>) = (ignored(<<line>>) /\ isDir)
     /\ ignored(<<line>>) /\ ~ignored(<<line, other>>) => At(other, 1) = "!"
=============================================================================
