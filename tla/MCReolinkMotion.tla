--------------------------- MODULE MCReolinkMotion ---------------------------
(***************************************************************************)
(* One Reolink camera over sessions that are lost and made again.          *)
(***************************************************************************)
EXTENDS ReolinkMotion

CONSTANTS core_task, poller, none, person
=============================================================================
