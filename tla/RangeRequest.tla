---------------------------- MODULE RangeRequest ----------------------------
(***************************************************************************)
(* The Range header of a download, as the Android update server reads it   *)
(* (UpdateRepositoryHandler._parse_range), beside a definition of the same *)
(* thing by the positions a client asks for.                               *)
(*                                                                         *)
(* A header is the record of what its parts parse to.  header[6:] is split *)
(* at its first "-", so the part before it is a natural number, blank or   *)
(* no number at all, while the part after it may also be negative.         *)
(***************************************************************************)
EXTENDS Integers

CONSTANTS
    Blank,         \* an empty part: "bytes=-5" has a blank first part
    Garbage,       \* a part that int() refuses
    Unsatisfiable  \* the None of _parse_range, answered with 416

ASSUME RangeConstantsDistinct ==
    /\ Blank \notin Int /\ Garbage \notin Int /\ Blank # Garbage
    /\ Unsatisfiable \notin Nat \X Int

Headers ==
    [ bytesUnit : BOOLEAN,   \* starts with "bytes=", holds a "-" and no ","
      first     : Nat \cup {Blank, Garbage},
      last      : Int \cup {Blank, Garbage} ]

LowerOf(a, b) == IF a < b THEN a ELSE b
HigherOf(a, b) == IF a > b THEN a ELSE b

\* MUTANT: no max(0, ...) for a suffix longer than the file.
SuffixRangeUnfloored(n, size) ==
    IF n = Blank \/ n = Garbage THEN Unsatisfiable
    ELSE IF n <= 0 THEN Unsatisfiable
    ELSE <<size - n, size - 1>>

\* "bytes=-n": the last n bytes of the file.
SuffixRange(n, size) ==
    IF n = Blank \/ n = Garbage THEN Unsatisfiable
    ELSE IF n <= 0 THEN Unsatisfiable
    ELSE <<HigherOf(0, size - n), size - 1>>

\* "bytes=first-" and "bytes=first-last".
BoundedRange(first, last, size) ==
    LET end == IF last = Blank THEN size - 1 ELSE last
    IN  IF first = Garbage \/ end = Garbage THEN Unsatisfiable
        ELSE IF first >= size \/ end < first THEN Unsatisfiable
        ELSE <<first, LowerOf(end, size - 1)>>

ParseRange(h, size) ==
    IF ~h.bytesUnit \/ size = 0 THEN Unsatisfiable
    ELSE IF h.first = Blank THEN SuffixRange(h.last, size)
    ELSE BoundedRange(h.first, h.last, size)

-----------------------------------------------------------------------------
(* The reference: which positions 0 .. size-1 of a file a header asks for. *)

Asks(h, p, size) ==
    /\ h.bytesUnit
    /\ \/ /\ h.first = Blank
          /\ h.last \in Int
          /\ p >= size - h.last
       \/ /\ h.first \in Nat
          /\ p >= h.first
          /\ h.last = Blank \/ (h.last \in Int /\ p <= h.last)

AskedPositions(h, size) == { p \in 0 .. size - 1 : Asks(h, p, size) }
=============================================================================
