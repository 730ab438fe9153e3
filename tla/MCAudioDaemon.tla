--------------------------- MODULE MCAudioDaemon ---------------------------
(* A ring of two commands whose indexes wrap after four, DMA buffers of    *)
(* two periods, and a guest that plays or that records.                    *)
EXTENDS AudioDaemon

MCUsePatterns == {{"playback"}, {"capture"}}
=============================================================================
