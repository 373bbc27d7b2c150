------------------------------ MODULE Sandbox ------------------------------
(***************************************************************************)
(* sandbox_resolve of core/sandbox.c: a path the model names, below the    *)
(* root of the sandbox.  A path is a sequence of characters, a component a *)
(* piece of it between separators.                                         *)
(***************************************************************************)
EXTENDS Integers, Sequences, FiniteSets

CONSTANT MaxDepth             \* the component stack: 256

Failed == [ok |-> FALSE, path |-> <<>>]
Separators == {"/", "\\"}

(* The pieces between separators, none empty; `open` is not over yet.      *)
Closed(p) == IF p.open = <<>> THEN p.done ELSE Append(p.done, p.open)

CutAt(p, c, seps) ==
  IF c \in seps THEN [done |-> Closed(p), open |-> <<>>]
  ELSE [done |-> p.done, open |-> Append(p.open, c)]

Cut(s, seps) ==
  LET upTo[n \in 0 .. Len(s)] ==
        IF n = 0 THEN [done |-> <<>>, open |-> <<>>] ELSE CutAt(upTo[n - 1], s[n], seps)
  IN Closed(upTo[Len(s)])

Components(rel) == Cut(rel, Separators)
Here == <<".">>
Parent == <<".", ".">>

(* Mutant of Climb: ".." at the root stays at the root instead of failing. *)
ClimbClamped(path) == [ok |-> TRUE, path |-> SubSeq(path, 1, Len(path) - 1)]

Climb(path) ==
  IF path = <<>> THEN Failed ELSE [ok |-> TRUE, path |-> SubSeq(path, 1, Len(path) - 1)]

Descend(path, c) ==
  IF Len(path) >= MaxDepth THEN Failed ELSE [ok |-> TRUE, path |-> Append(path, c)]

Follow(r, c) ==
  CASE ~r.ok \/ c = Here -> r
    [] r.ok /\ c = Parent -> Climb(r.path)
    [] OTHER -> Descend(r.path, c)

Resolved(cs) ==
  LET upTo[n \in 0 .. Len(cs)] ==
        IF n = 0 THEN [ok |-> TRUE, path |-> <<>>] ELSE Follow(upTo[n - 1], cs[n])
  IN upTo[Len(cs)]

SandboxResolve(rel) ==
  IF \E i \in DOMAIN rel : rel[i] = ":" THEN Failed ELSE Resolved(Components(rel))
-----------------------------------------------------------------------------
(* The reference: how far below the root the first n components lead, and  *)
(* the names that no later component climbs back over.                     *)
Level(cs, n) == Cardinality({i \in 1 .. n : cs[i] \notin {Here, Parent}})
                - Cardinality({i \in 1 .. n : cs[i] = Parent})

Remains(cs, i) ==
  /\ cs[i] \notin {Here, Parent}
  /\ \A n \in i .. Len(cs) : Level(cs, n) >= Level(cs, i)

(* A path resolves exactly when none of its prefixes leaves the root, even *)
(* if it came back, or is too deep; and then it names what remains of its  *)
(* components, each a plain name, in their order.                          *)
StaysInside(rel) ==
  LET cs == Components(rel)
      r == SandboxResolve(rel)
  IN /\ r.ok <=> /\ \A i \in DOMAIN rel : rel[i] # ":"
                 /\ \A n \in DOMAIN cs : Level(cs, n) \in 0 .. MaxDepth
     /\ r.ok =>
          /\ \A i \in DOMAIN cs : Remains(cs, i) =>
               Level(cs, i) \in DOMAIN r.path /\ r.path[Level(cs, i)] = cs[i]
          /\ \A k \in DOMAIN r.path :
               /\ \E i \in DOMAIN cs : Remains(cs, i) /\ Level(cs, i) = k
               /\ r.path[k] \notin {<<>>, Here, Parent}
               /\ \A i \in DOMAIN r.path[k] : r.path[k][i] \notin Separators
=============================================================================
