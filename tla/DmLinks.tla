------------------------------- MODULE DmLinks ------------------------------
(***************************************************************************)
(* The links between dom0 and the device models of the guests: libdmbus    *)
(* for display and input, qmp_helper for the toolstack's commands, and     *)
(* audio_helper for sound.  They share nothing; scene says which of them   *)
(* is looked at.                                                           *)
(***************************************************************************)
EXTENDS Dmbus, DmHelpers

VARIABLE scene

linkVars == <<scene, dmbusVars, qmpVars, audioVars>>

Init ==
    /\ scene \in {"dmbus", "qmp", "audio"} /\ DmbusInit /\ QmpInit /\ AudioInit
    /\ careless => scene = "audio"

Bus(A) == scene = "dmbus" /\ A /\ UNCHANGED <<scene, qmpVars, audioVars>>
Qmp(A) == scene = "qmp" /\ A /\ UNCHANGED <<scene, dmbusVars, audioVars>>
Audio(A) == scene = "audio" /\ A /\ UNCHANGED <<scene, dmbusVars, qmpVars>>

Next == Bus(DmbusNext) \/ Qmp(QmpNext) \/ Audio(AudioNext)

(***************************************************************************)
(* The service calls the library as long as some descriptor is ready, and  *)
(* the helpers are scheduled; no failure of a call is relied on, and       *)
(* nothing is assumed of device models, clients and QEMU.                  *)
(***************************************************************************)
Spec ==
    /\ Init /\ [][Next]_linkVars
    /\ WF_linkVars(Bus(\E c \in Clients : LibraryStep(c)))
    /\ WF_linkVars(Qmp(HelperStep))
    /\ WF_linkVars(Audio(AudioServes))

-----------------------------------------------------------------------------
(* Whoever speaks to one of the three is served.                           *)
LinksServed == MessagesServed /\ NextIsServed /\ PacketsServed
=============================================================================
