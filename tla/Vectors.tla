------------------------------- MODULE Vectors -------------------------------
(***************************************************************************)
(* The vector operations the modules share: std::find followed by erase,   *)
(* which takes out the first entry equal to a value, and the words used to *)
(* say what a vector holds.                                                *)
(***************************************************************************)
EXTENDS Naturals, Sequences

\* The values a vector holds.
Listed(s) == {s[i] : i \in 1..Len(s)}

\* No value is held twice.
NoRepeat(s) == \A i, k \in 1..Len(s) : s[i] = s[k] => i = k

\* erase(begin() + i - 1)
EraseAt(s, i) == SubSeq(s, 1, i-1) \o SubSeq(s, i+1, Len(s))

\* The index of the first entry equal to e, when there is one.
FirstIndex(s, e) ==
  CHOOSE i \in 1..Len(s) : s[i] = e /\ \A k \in 1..(i-1) : s[k] # e

\* I = std::find(begin(), end(), e); if (I != end()) erase(I);
Erase(s, e) == IF e \in Listed(s) THEN EraseAt(s, FirstIndex(s, e)) ELSE s
==============================================================================
