---------------------------- MODULE MCMusicDB ----------------------------
(* Small instances of MusicDB for TLC.                                     *)
EXTENDS MusicDB

\* Songs 1 and 3 are of different albums.
MCAlbum == [s \in Songs |-> IF s < 3 THEN "A" ELSE "B"]
\* The automatic result set walks over both albums.
MCAutoList == <<1, 3>>
=============================================================================
