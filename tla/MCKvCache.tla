----------------------------- MODULE MCKvCache -----------------------------
(***************************************************************************)
(* A small instance of KvCache for TLC: two characters, three tokens, one  *)
(* of which merges the two, and every text of up to MaxPrompt characters   *)
(* as a prompt.                                                            *)
(***************************************************************************)
EXTENDS KvCache

S == INSTANCE SequencesExt

CONSTANT MaxPrompt

Piece == [a |-> <<"a">>, b |-> <<"b">>, ab |-> <<"a", "b">>]
SmallTokens == DOMAIN Piece
SmallSpell(run) == S!FlattenSeq([i \in DOMAIN run |-> Piece[run[i]]])

SmallChars == {"a", "b"}
Texts == S!BoundedSeq(SmallChars, MaxPrompt)
SmallPrompts == Texts \ {<<>>}

(* Greedy: the longest piece first.                                        *)
Greedy[t \in Texts] ==
  IF t = <<>> THEN <<>>
  ELSE IF Len(t) > 1 /\ SubSeq(t, 1, 2) = <<"a", "b">>
         THEN <<"ab">> \o Greedy[SubSeq(t, 3, Len(t))]
         ELSE <<t[1]>> \o Greedy[SubSeq(t, 2, Len(t))]
=============================================================================
