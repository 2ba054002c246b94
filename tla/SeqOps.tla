------------------------------- MODULE SeqOps -------------------------------
(***************************************************************************)
(* The few operations of std::vector and std::deque that modules with      *)
(* proofs need.  SequencesExt has them too, but everything it defines      *)
(* would be part of the context of every proof obligation.                 *)
(***************************************************************************)
EXTENDS Naturals, Sequences

\* v.back()
Last(s) == s[Len(s)]

\* The elements of s.
Elements(s) == {s[k] : k \in 1..Len(s)}

\* The position of the first e in s, which has one.
FirstPosition(s, e) ==
  CHOOSE k \in 1..Len(s) : s[k] = e /\ \A l \in 1..(k - 1) : s[l] # e

\* s.erase(find(s.begin(), s.end(), e)), or nothing if e is not there.
RemoveFirst(s, e) ==
  IF e \in Elements(s)
  THEN LET p == FirstPosition(s, e)
       IN  SubSeq(s, 1, p - 1) \o SubSeq(s, p + 1, Len(s))
  ELSE s

\* Erases every e.
RemoveEvery(s, e) == SelectSeq(s, LAMBDA x : x # e)
=============================================================================
