-------------------------- MODULE MCAudioController --------------------------
(* The audio models beside a small sound server, for TLC.                   *)
EXTENDS AudioController

\* Two outputs to choose the default from, the monitor of one, and a stream.
Outputs == {<<"sink", 1>>, <<"sink", 2>>, <<"source", 1>>, <<"playback", 1>>}
Loopbacks == {<<"source", 1>>}
\* A playback and a recording stream with the same index.
Shared == {<<"sink", 1>>, <<"playback", 1>>, <<"recording", 1>>}
==============================================================================
