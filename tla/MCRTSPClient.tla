---------------------------- MODULE MCRTSPClient ----------------------------
(* Instance of RTSPClient for TLC.                                         *)
EXTENDS RTSPClient

\* A complete answer to SETUP, one without each thing it must have, a plain
\* answer and one with a line that is no header.
MCHeaderLists ==
  {<<"Session", "Transport", "Audio-Jack-Status">>,
   <<"Session", "Transport">>, <<"Session", "NoPort", "Audio-Jack-Status">>,
   <<"Transport", "Audio-Jack-Status">>, <<"Session", "Audio-Jack-Status">>,
   <<>>, <<"other", "word">>}
=============================================================================
