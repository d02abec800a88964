-------------------------- MODULE SequenceHelpers --------------------------
(***************************************************************************)
(* The sequence operators of the container modules, of the same names and  *)
(* meanings as those of SequencesExt.  They are defined here because that  *)
(* module brings Bags with it: DataStructures has six instances of the     *)
(* containers, and with six copies of Bags in its context every obligation *)
(* of the proofs about it takes seven times as long.                       *)
(***************************************************************************)
EXTENDS Integers, Sequences, FiniteSetsExt

Last(s) == s[Len(s)]
Front(s) == SubSeq(s, 1, Len(s) - 1)
ToSet(s) == {s[j] : j \in DOMAIN s}
InsertAt(s, j, e) == SubSeq(s, 1, j - 1) \o <<e>> \o SubSeq(s, j, Len(s))
RemoveAt(s, j) == SubSeq(s, 1, j - 1) \o SubSeq(s, j + 1, Len(s))
Reverse(s) == [j \in 1 .. Len(s) |-> s[(Len(s) - j) + 1]]

\* The position of the first element that passes Test, or 0.
SelectInSeq(s, Test(_)) ==
  LET hits == {j \in 1 .. Len(s) : Test(s[j])}
  IN  IF hits = {} THEN 0 ELSE Min(hits)

RemoveFirst(s, e) ==
  IF \E j \in 1 .. Len(s) : s[j] = e THEN RemoveAt(s, SelectInSeq(s, LAMBDA x : x = e)) ELSE s

\* s is a prefix of t.
IsPrefix(s, t) == Len(s) <= Len(t) /\ SubSeq(s, 1, Len(s)) = SubSeq(t, 1, Len(s))

\* The concatenation of a sequence of sequences.
FlattenSeq(q) ==
  IF Len(q) = 0 THEN q
  ELSE LET joined[j \in 1 .. Len(q)] == IF j = 1 THEN q[j] ELSE joined[j - 1] \o q[j]
       IN  joined[Len(q)]

\* s without the elements at the positions gone.
Without(s, gone) ==
  LET kept[j \in 0 .. Len(s)] ==
        IF j = 0 THEN <<>> ELSE IF j \in gone THEN kept[j - 1] ELSE Append(kept[j - 1], s[j])
  IN  kept[Len(s)]
=============================================================================
