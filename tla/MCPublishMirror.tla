--------------------------- MODULE MCPublishMirror ---------------------------
(***************************************************************************)
(* Three jobs mirror an image: two of the same image.json, whose list      *)
(* names a tag twice as node's does, and one after its first tag was       *)
(* changed.  The image.json of one has no latestTag.  Each upstream tag    *)
(* moves once.                                                             *)
(***************************************************************************)
EXTENDS PublishMirror

CONSTANTS nightly, push, bump, old, new

MCLists == [j \in {nightly, push, bump} |->
               IF j = bump THEN <<new, old>> ELSE <<old, old>>]

MCNamesLatest == [j \in {nightly, push, bump} |-> j # push]

MCImages == [tag : {old, new}, moves : 0 .. MaxMoves]
=============================================================================
