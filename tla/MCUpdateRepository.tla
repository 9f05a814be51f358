------------------------- MODULE MCUpdateRepository -------------------------
(***************************************************************************)
(* The Android update server on a small volume: two handler threads, an    *)
(* artifact name below another one, one channel, and requests that         *)
(* between them take every exit of the handlers.                           *)
(***************************************************************************)
EXTENDS UpdateRepository

CONSTANTS app, appDelta, stable, beta, x, y

MCNames == {app, appDelta}
MCAbove == [n \in MCNames |-> IF n = appDelta THEN {app} ELSE {}]

\* Two valid manifests of stable, the second one longer, and three that are refused.
Manifest(version, c, ok, packages) ==
    [schemaVersion |-> version, channel |-> c, releasesOk |-> ok, packages |-> packages]
Old == Manifest(1, stable, TRUE, <<"launcher">>)
New == Manifest(1, stable, TRUE, <<"launcher", "camera">>)
Twice == Manifest(1, stable, TRUE, <<"launcher", "launcher">>)
Other == Manifest(1, beta, TRUE, <<>>)
MCDocuments == {Old, New, Twice, Other}
MCText == [d \in MCDocuments |->
              CASE d = Old -> <<y>> [] d = New -> <<x, y>>
                [] d = Twice -> <<y, x>> [] d = Other -> <<x, x>>]

Upload(n, checked, length, body) ==
    [ kind |-> "artifact", authorized |-> TRUE, name |-> n,
      checksum |-> Sha256(checked), length |-> length, body |-> body ]

Post(length, sent, document) ==
    [ kind |-> "channel", authorized |-> TRUE, name |-> stable,
      length |-> length, sent |-> sent, document |-> document ]

Download(n, range, body) ==
    [ kind |-> "get", name |-> n, range |-> range, sendBody |-> body ]

Range(first, last) == [bytesUnit |-> TRUE, first |-> first, last |-> last]

Uploads ==
    { Upload(app, <<x, y>>, 2, <<x, y>>),         \* two contents for one name
      Upload(app, <<y>>, 1, <<y>>),
      Upload(appDelta, <<>>, 0, <<>>),            \* an empty file, below the first
      Upload(appDelta, <<x, y>>, 2, <<x, x>>),    \* wrong digest
      Upload(app, <<x>>, 2, <<x>>) }              \* body shorter than announced

BadUploads ==
    { [Upload(app, <<x>>, 1, <<x>>) EXCEPT !.authorized = FALSE],
      Upload(NoName, <<x>>, 1, <<x>>),
      Upload(app, <<x, x, x>>, 3, <<x, x, x>>) }    \* too large

Posts ==
    { Post(1, 1, Old), Post(2, 2, New), Post(2, 2, Twice), Post(2, 2, Other),
      Post(1, 1, NotJson), Post(2, 1, NotJson) }

Downloads ==
    { Download(app, NoRange, TRUE), Download(app, Range(1, Blank), TRUE),
      Download(app, Range(Blank, 2), TRUE), Download(app, Range(1, 0), FALSE),
      Download(stable, NoRange, TRUE), Download(stable, NoRange, FALSE) }

\* Artifacts and their readers; manifests and their readers.
ArtifactRequests == Uploads \cup BadUploads \cup { r \in Downloads : r.name = app }
ChannelRequests == Posts \cup { r \in Downloads : r.name = stable }
=============================================================================
