--------------------------- MODULE MCPublishBuild ---------------------------
(***************************************************************************)
(* Three jobs publish one built image with a static tag: two of the same   *)
(* version (a rebuild) and one of the next, which a release tag started;   *)
(* or the last one was started by a release tag of a wrong version.        *)
(***************************************************************************)
EXTENDS PublishBuild

CONSTANTS first, rebuild, next, wrong, v1, v2, rtspcap4

MCPlan ==
    [ j \in {first, rebuild, next, wrong} |->
        [ version |-> IF j = next THEN v2 ELSE v1,
          release |-> CASE j = next -> v2 [] j = wrong -> v2 [] OTHER -> NoRelease ] ]

NoStaticTags == <<>>
MCStaticTags == <<rtspcap4>>
=============================================================================
