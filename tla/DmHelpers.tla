----------------------------- MODULE DmHelpers ------------------------------
(***************************************************************************)
(* The two processes of dom0 that serve one device model each: qmp_helper  *)
(* for the toolstack's commands and audio_helper for sound.  They share    *)
(* nothing; this module states what is expected of both.                   *)
(***************************************************************************)
EXTENDS QmpHelper, AudioHelper

(* The sessions of qmp_helper's clients stay apart, as QEMU sees them and  *)
(* as the clients see QEMU.                                                *)
SessionsKeptApart == SessionsTold /\ AnswersInSessionOrder

(* The helpers end only for reasons outside of them.                       *)
HelpersStay == EndsOnlyWithClient /\ EndsOnlyFromOutside

(* audio_helper tells QEMU the truth, and its users the volume.            *)
SoundAsTold == ValidIsOpen /\ VolumeAsAsked
=============================================================================
