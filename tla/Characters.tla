----------------------------- MODULE Characters -----------------------------
(***************************************************************************)
(* Texts as sequences of characters, and what the modules that read them   *)
(* one by one have in common.                                              *)
(***************************************************************************)
EXTENDS Naturals, Sequences

Newline == "\n"
Slash == "\\"
Blanks == {" ", "\t"}

At(s, i) == IF i \in DOMAIN s THEN s[i] ELSE "end"     \* C's terminating NUL

Least(S) == CHOOSE i \in S : \A k \in S : i <= k

Picked(s, S) ==           \* the symbols of s at the positions in S, in order
  LET upTo[n \in 0 .. Len(s)] ==
        IF n = 0 THEN <<>> ELSE IF n \in S THEN Append(upTo[n - 1], s[n]) ELSE upTo[n - 1]
  IN upTo[Len(s)]

Joined(parts) ==          \* one after another
  LET upTo[n \in 0 .. Len(parts)] == IF n = 0 THEN <<>> ELSE upTo[n - 1] \o parts[n]
  IN upTo[Len(parts)]
=============================================================================
