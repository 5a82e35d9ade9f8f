------------------------- MODULE MCPulseAudioBackend -------------------------
(* The PulseAudio connection with the retry limits of the code, for TLC.    *)
EXTENDS PulseAudioBackend
==============================================================================
