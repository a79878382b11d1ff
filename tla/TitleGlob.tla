----------------------------- MODULE TitleGlob -----------------------------
(***************************************************************************)
(* The title patterns of window rules: glob_matches, and what it means for *)
(* a title to match a pattern in which every star stands for any text.     *)
(***************************************************************************)
EXTENDS Naturals, Sequences, SequencesExt

CONSTANTS Letters, Star   \* the characters of titles, and the wildcard

ASSUME StarAssumption == Star \notin Letters

-----------------------------------------------------------------------------
(* The code. *)

\* The non-empty pieces between the stars, from left to right.
pieces(pattern) ==
  LET upto[k \in 0..Len(pattern)] ==
        IF k = 0 THEN << >>
        ELSE IF pattern[k] = Star THEN upto[k - 1]
        ELSE IF k = 1 \/ pattern[k - 1] = Star THEN Append(upto[k - 1], <<pattern[k]>>)
        ELSE Append(Front(upto[k - 1]), Append(Last(upto[k - 1]), pattern[k]))
  IN  upto[Len(pattern)]

\* Where piece occurs in value at or after offset: the offsets it starts at.
Occurrences(value, offset, piece) ==
  {o \in offset..Len(value) : IsPrefix(piece, SubSeq(value, o + 1, Len(value)))}

\* Mutant: the search starts from the end.
LastOccurrence(found) == CHOOSE o \in found : \A n \in found : n <= o

FirstOccurrence(found) == CHOOSE o \in found : \A n \in found : o <= n

\* Mutant: the first piece may be anywhere.
AnchoredNowhere(pattern) == FALSE

anchored_start(pattern) == Head(pattern) # Star
anchored_end(pattern) == Last(pattern) # Star

glob_matches(pattern, value) ==
  LET ps == pieces(pattern)
      \* the offset behind the i-th piece, or Len(value) + 1 once one is missing
      offset[i \in 0..Len(ps)] ==
        IF i = 0 THEN 0
        ELSE LET found == Occurrences(value, offset[i - 1], ps[i])
                 first == FirstOccurrence(found)
             IN  IF found = {} \/ (i = 1 /\ anchored_start(pattern) /\ first # 0)
                 THEN Len(value) + 1
                 ELSE first + Len(ps[i])
  IN  IF anchored_end(pattern)
      THEN offset[Len(ps)] = Len(value)
      ELSE offset[Len(ps)] <= Len(value)

-----------------------------------------------------------------------------
(* The reference: the value can be cut into one part per character of the  *)
(* pattern, a letter taking itself and a star any part.                    *)

GlobMatches(pattern, value) ==
  \E cut \in [0..Len(pattern) -> 0..Len(value)] :
    /\ cut[0] = 0 /\ cut[Len(pattern)] = Len(value)
    /\ \A i \in 1..Len(pattern) :
         IF pattern[i] = Star
         THEN cut[i - 1] <= cut[i]
         ELSE cut[i] = cut[i - 1] + 1 /\ value[cut[i]] = pattern[i]
=============================================================================
