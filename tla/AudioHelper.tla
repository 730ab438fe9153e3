---------------------------- MODULE AudioHelper ----------------------------
(***************************************************************************)
(* audio_helper: one process per guest that plays and records for the QEMU *)
(* in the guest's stub domain.  QEMU's packets come as argo datagrams and  *)
(* are served one after the other; most handlers end the process when a    *)
(* call of ALSA fails.                                                     *)
(*                                                                         *)
(* External: ALSA, with the states of a PCM and the calls that fail in     *)
(* some of them or by themselves, and QEMU, which uses a stream once an    *)
(* acknowledgement said that it is valid, with the voice enabled; or, if   *)
(* it is careless, at any time.                                            *)
(***************************************************************************)
EXTENDS Integers, Sequences

CONSTANTS
    MaxPackets,   \* bound: packets QEMU sends, by whether it is careless
    MaxWaiting,   \* bound: packets on their way
    MaxXruns,     \* bound: under- and overruns and suspensions of a PCM
    Volumes,      \* percentages QEMU asks for
    VolumeRange   \* max - min of the mixer element

ASSUME AudioAssumption ==
    Volumes \subseteq 0 .. 100 /\ VolumeRange \in Nat /\ VolumeRange >= 100

VARIABLES
    handle,       \* settings->handle: "null", "open", or "stale": of a closed PCM
    pcm,          \* ALSA's state of each PCM
    mhandle,      \* whether the mixer is open
    volume,       \* of the guest's mixer element, with the percentage asked for
    task,         \* rcv_packet while it is processed
    ended,        \* "no", or what ended the process
    packets,      \* from QEMU, not yet received
    packed,       \* how many QEMU has sent
    acks,         \* to QEMU, not yet read
    careless,     \* whether QEMU is
    belief,       \* what QEMU knows of each stream
    voice,        \* the streams QEMU has enabled
    xruns,        \* xruns and suspensions so far
    reopenFailed  \* streams openxt_alsa_init() left with a stale handle (history)

alsaVars == <<handle, pcm, mhandle, volume>>
qemuVars == <<careless, packed, belief, voice>>
audioVars == <<alsaVars, task, ended, packets, acks, qemuVars, xruns, reopenFailed>>

Streams == {"playback", "capture"}
NoTask == [op |-> "none"]

AudioInit ==
    /\ handle = [s \in Streams |-> "null"] /\ pcm = [s \in Streams |-> "closed"]
    /\ mhandle = FALSE /\ volume = [value |-> 0, asked |-> 0]
    /\ task = NoTask /\ ended = "no"
    /\ packets = <<>> /\ packed = 0 /\ acks = <<>>
    /\ careless \in BOOLEAN /\ belief = [s \in Streams |-> "nothing"] /\ voice = {}
    /\ xruns = 0 /\ reopenFailed = {}

-----------------------------------------------------------------------------
(* QEMU and ALSA (outside of the helper)                                   *)

Ready(s) == belief[s] = "valid"
Enabled(s) == s \in voice

(* What it sends to a helper that has ended is of no account.              *)
SendPacket(p) ==
    /\ ended = "no" /\ packed < MaxPackets[careless] /\ Len(packets) < MaxWaiting
    /\ packed' = packed + 1 /\ packets' = Append(packets, p)
    /\ UNCHANGED <<alsaVars, task, ended, acks, careless, xruns, reopenFailed>>

Use(p, allowed) == (careless \/ allowed) /\ SendPacket(p)

(* Initialisation is asked for again when it failed, or at any time.       *)
QemuSends(s) ==
    \/ /\ belief[s] # "asked" /\ Use([op |-> "init", stream |-> s], ~Enabled(s))
       /\ belief' = [belief EXCEPT ![s] = "asked"] /\ UNCHANGED voice
    \/ /\ belief[s] # "asked" /\ SendPacket([op |-> "fini", stream |-> s])
       /\ belief' = [belief EXCEPT ![s] = "nothing"] /\ voice' = voice \ {s}
    \/ /\ Use([op |-> "enable", stream |-> s], Ready(s) /\ ~Enabled(s))
       /\ voice' = voice \cup {s} /\ UNCHANGED belief
    \/ /\ Use([op |-> "disable", stream |-> s], Enabled(s))
       /\ voice' = voice \ {s} /\ UNCHANGED belief
    \/ Use([op |-> "samples", stream |-> s], Enabled(s)) /\ UNCHANGED <<belief, voice>>
    \/ SendPacket([op |-> "available", stream |-> s]) /\ UNCHANGED <<belief, voice>>

QemuSetsVolume ==
    /\ \E v \in Volumes : Use([op |-> "volume", stream |-> "playback", vol |-> v], Ready("playback"))
    /\ UNCHANGED <<belief, voice>>

QemuLeaves ==
    /\ \A s \in Streams : belief[s] # "asked"
    /\ SendPacket([op |-> "FINI"])
    /\ belief' = [s \in Streams |-> "nothing"] /\ voice' = {}

QemuReadsAck ==
    /\ acks # <<>> /\ acks' = Tail(acks)
    /\ LET a == Head(acks) IN
         belief' = IF a.op = "init" THEN [belief EXCEPT ![a.stream] = IF a.valid THEN "valid" ELSE "invalid"]
                   ELSE belief
    /\ UNCHANGED <<alsaVars, task, ended, packets, careless, packed, voice, xruns, reopenFailed>>

(* A stream runs dry or over, or the host sleeps.                          *)
Interrupted(s) ==
    /\ pcm[s] = "running" /\ xruns < MaxXruns /\ ended = "no"
    /\ \E state \in {"xrun", "suspended"} : pcm' = [pcm EXCEPT ![s] = state]
    /\ xruns' = xruns + 1
    /\ UNCHANGED <<handle, mhandle, volume, task, ended, packets, acks, qemuVars, reopenFailed>>

-----------------------------------------------------------------------------
(* The helper                                                              *)

(* openxt_argo_recv(): the next packet; an error of argo ends the process. *)
ReceivePacket ==
    /\ ended = "no" /\ task = NoTask /\ packets # <<>>
    /\ \/ task' = Head(packets) /\ ended' = ended
       \/ task' = task /\ ended' = "argo"
    /\ packets' = Tail(packets)
    /\ UNCHANGED <<alsaVars, acks, qemuVars, xruns, reopenFailed>>

Serving(op) == ended = "no" /\ task.op = op

(* How a handler comes to its end: with 0, or with an error that           *)
(* openxt_vmaudio() returns, without closing anything.                     *)
Return == task' = NoTask /\ ended' = ended
End(why) == task' = NoTask /\ ended' = why /\ UNCHANGED <<alsaVars, acks>>
Outside == UNCHANGED <<packets, qemuVars, xruns>>

(* openxt_argo_send().                                                     *)
Acknowledge(a) ==
    /\ task' = NoTask
    /\ \/ acks' = Append(acks, a) /\ ended' = ended
       \/ acks' = acks /\ ended' = "argo"

SetPcm(s, state) == pcm' = [pcm EXCEPT ![s] = state] /\ UNCHANGED <<handle, mhandle, volume>>

(* What openxt_alsa_init() may leave and return.  It does nothing if there *)
(* is a handle.  It opens the PCM, closes it and opens it again; when the  *)
(* closing or the second opening fails it returns with the handle of the   *)
(* first.  When the parameters are refused it closes the PCM.              *)
openxt_alsa_init(s) ==
    IF handle[s] # "null" THEN {[handle |-> handle[s], pcm |-> pcm[s], ok |-> TRUE]}
    ELSE {[handle |-> "open", pcm |-> "prepared", ok |-> TRUE],
          [handle |-> "null", pcm |-> "closed", ok |-> FALSE],
          [handle |-> "stale", pcm |-> "closed", ok |-> FALSE]}

openxt_alsa_mixer_init == IF mhandle THEN {TRUE} ELSE BOOLEAN

openxt_process_init ==
    /\ Serving("init")
    /\ LET s == task.stream IN
       \E a \in openxt_alsa_init(s), m \in IF s = "playback" THEN openxt_alsa_mixer_init ELSE {mhandle} :
         /\ handle' = [handle EXCEPT ![s] = a.handle] /\ pcm' = [pcm EXCEPT ![s] = a.pcm]
         /\ mhandle' = m
         /\ reopenFailed' = IF a.handle = "stale" /\ ~a.ok THEN reopenFailed \cup {s} ELSE reopenFailed
         /\ Acknowledge([op |-> "init", stream |-> s, valid |-> a.ok /\ (s = "playback" => m)])
    /\ UNCHANGED volume /\ Outside

\* Mutant: the handle is not reset.
handle_after_fini_MutKept(s) == IF handle[s] = "null" THEN "null" ELSE "stale"
handle_after_fini(s) == "null"

(* openxt_alsa_fini(), with openxt_alsa_mixer_fini() before it.            *)
openxt_process_fini ==
    /\ Serving("fini")
    /\ LET s == task.stream IN
       IF handle[s] = "stale" THEN End("undefined")
       ELSE /\ handle' = [handle EXCEPT ![s] = handle_after_fini(s)]
            /\ pcm' = [pcm EXCEPT ![s] = "closed"]
            /\ mhandle' = (mhandle /\ s # "playback")
            /\ UNCHANGED volume /\ Return
    /\ UNCHANGED <<acks, reopenFailed>> /\ Outside

(* Every call on a PCM: refused without a handle, and anything may happen  *)
(* with a stale one; otherwise it does A, or fails by itself.              *)
OnPcm(s, A) ==
    \/ handle[s] = "null" /\ End("refused")
    \/ handle[s] = "stale" /\ End("undefined")
    \/ handle[s] = "open" /\ A
    \/ handle[s] = "open" /\ End("alsa")

openxt_process_enable_voice ==
    /\ Serving("enable")
    /\ LET s == task.stream IN
       OnPcm(s, IF pcm[s] = "running" THEN End("refused")
                ELSE SetPcm(s, IF s = "capture" THEN "running" ELSE "prepared") /\ Return)
    /\ UNCHANGED <<acks, reopenFailed>> /\ Outside

openxt_process_disable_voice ==
    /\ Serving("disable")
    /\ OnPcm(task.stream, SetPcm(task.stream, "setup") /\ Return)
    /\ UNCHANGED <<acks, reopenFailed>> /\ Outside

\* Mutant: an xrun is tried again without the call that ends it.
Recovered_MutNoPrepare == "xrun"
Recovered == "prepared"

(* One turn of the loop in openxt_alsa_writei() and openxt_alsa_readi():   *)
(* after an xrun the PCM is prepared and the call made again; all other    *)
(* errors end the process, a suspended PCM's too.  Samples recorded are    *)
(* sent, as many as there are.                                             *)
openxt_process_samples ==
    /\ Serving("samples")
    /\ LET s == task.stream IN
       OnPcm(s, CASE pcm[s] = "xrun" -> SetPcm(s, Recovered) /\ UNCHANGED <<task, ended, acks>>
                  [] pcm[s] = "suspended" -> End("suspended")
                  [] pcm[s] = "setup" -> End("refused")
                  [] pcm[s] \in {"prepared", "running"} ->
                       /\ SetPcm(s, "running")
                       /\ IF s = "capture" THEN Acknowledge([op |-> "samples", stream |-> s])
                          ELSE Return /\ UNCHANGED acks)
    /\ UNCHANGED reopenFailed /\ Outside

(* Without a PCM, or with one that cannot be prepared, the error number is *)
(* sent as the number of samples.  For capture QEMU has an opcode and the  *)
(* helper no case.                                                         *)
openxt_process_get_available ==
    /\ Serving("available")
    /\ LET s == task.stream IN
       CASE s = "capture" -> End("unknown opcode")
         [] s = "playback" /\ handle[s] = "stale" -> End("undefined")
         [] s = "playback" /\ handle[s] # "stale" ->
              \/ pcm[s] = "xrun" /\ SetPcm(s, Recovered) /\ UNCHANGED <<task, ended, acks>>
              \/ Acknowledge([op |-> "available", stream |-> s]) /\ UNCHANGED alsaVars
    /\ UNCHANGED reopenFailed /\ Outside

Rounded(a, b) == (2 * a + b) \div (2 * b)

(* openxt_alsa_mixer_sset_volume(), from a percentage, and                 *)
(* openxt_alsa_percentage(), by which a user of the mixer is told it.      *)
sset_volume(vol) == Rounded(VolumeRange * vol, 100)

\* Mutant: the division truncates.
openxt_alsa_percentage_MutTruncates(value) == (value * 100) \div VolumeRange
openxt_alsa_percentage(value) == Rounded(value * 100, VolumeRange)

(* The element is looked up again each time.                               *)
openxt_process_set_volume ==
    /\ Serving("volume")
    /\ \/ ~mhandle /\ End("refused")
       \/ mhandle /\ End("alsa")
       \/ /\ mhandle /\ volume' = [value |-> sset_volume(task.vol), asked |-> task.vol]
          /\ UNCHANGED <<handle, pcm, mhandle>> /\ Return
    /\ UNCHANGED <<acks, reopenFailed>> /\ Outside

(* FINI: everything is closed and the process ends.                        *)
Finish ==
    /\ Serving("FINI") /\ task' = NoTask
    /\ ended' = IF \E s \in Streams : handle[s] = "stale" THEN "undefined" ELSE "fini"
    /\ handle' = [s \in Streams |-> "null"] /\ pcm' = [s \in Streams |-> "closed"] /\ mhandle' = FALSE
    /\ UNCHANGED <<volume, acks, reopenFailed>> /\ Outside

openxt_vmaudio ==
    \/ ReceivePacket \/ openxt_process_init \/ openxt_process_fini
    \/ openxt_process_enable_voice \/ openxt_process_disable_voice
    \/ openxt_process_samples \/ openxt_process_get_available
    \/ openxt_process_set_volume \/ Finish

(* A step of the helper in which ALSA and argo do what they are asked.     *)
AudioServes == openxt_vmaudio /\ ended' \notin {"alsa", "argo"}

AudioNext ==
    \/ openxt_vmaudio \/ QemuSetsVolume \/ QemuLeaves \/ QemuReadsAck
    \/ \E s \in Streams : QemuSends(s) \/ Interrupted(s)

AudioSpec == AudioInit /\ [][AudioNext]_audioVars

-----------------------------------------------------------------------------
(* Properties                                                              *)

(***************************************************************************)
(* A stream that QEMU was told is valid has its PCM open, and playback its *)
(* mixer, whatever was closed and asked for before; unless an earlier      *)
(* openxt_alsa_init() failed between its two openings: it left a handle,   *)
(* and the next one takes that for an open PCM.                            *)
(***************************************************************************)
ValidIsOpen ==
    ended = "no" => \A s \in Streams : (Ready(s) /\ s \notin reopenFailed) =>
        /\ handle[s] = "open" /\ pcm[s] # "closed"
        /\ s = "playback" => mhandle

(* The percentage QEMU asked for last is the one a user is shown:          *)
(* openxt_alsa_percentage() undoes the conversion of                       *)
(* openxt_alsa_mixer_sset_volume(), if the element has a hundred steps.    *)
VolumeAsAsked == openxt_alsa_percentage(volume.value) = volume.asked

(***************************************************************************)
(* A careful QEMU never ends the helper by what it asks: no packet         *)
(* waiting when a stream is closed, reopened or failed to open is refused, *)
(* and a closed PCM is touched only after such a failure.  What ends it    *)
(* is the end of the guest, argo, ALSA, a suspended stream, or the opcode  *)
(* that no case handles.                                                   *)
(***************************************************************************)
EndsOnlyFromOutside ==
    /\ ended = "refused" => careless
    /\ ended = "undefined" => reopenFailed # {}

(* Every packet is dealt with, an xrun in the middle of it included, if a  *)
(* PCM does not go on being interrupted.                                   *)
PacketsServed == []<>(ended # "no" \/ (packets = <<>> /\ task = NoTask))

-----------------------------------------------------------------------------
(* The inductive invariant behind ValidIsOpen and EndsOnlyFromOutside.     *)

(* What QEMU has sent and the helper has not dealt with: the packet in     *)
(* hand, in place 0, and those waiting behind it.                          *)
Queue(i) == IF i = 0 THEN task ELSE packets[i]
Places == 0 .. Len(packets)
Is(i, op, s) == Queue(i).op = op /\ Queue(i).stream = s

Closes(i, s) == Is(i, "fini", s) \/ Queue(i).op = "FINI"
Uses(i, s) == \E op \in {"enable", "disable", "samples", "volume"} : Is(i, op, s)
InitAck(k, s) == acks[k].op = "init" /\ acks[k].stream = s

(* Between asking for a stream and the answer QEMU asks for nothing that   *)
(* opens or closes it, so an initialisation is the last such packet in the *)
(* queue, and its answer the only one.                                     *)
BeliefInv ==
    \A s \in Streams :
        /\ belief[s] # "asked" => /\ \A i \in Places : ~Is(i, "init", s)
                                  /\ \A k \in DOMAIN acks : ~InitAck(k, s)
        /\ belief[s] = "valid" => \A i \in Places : ~Closes(i, s)
        /\ \A i, j \in Places : i < j /\ Is(i, "init", s) => ~Is(j, "init", s) /\ ~Closes(j, s)
        /\ \A k \in DOMAIN acks : InitAck(k, s) =>
              /\ \A i \in Places : ~Is(i, "init", s) /\ ~Closes(i, s)
              /\ \A l \in DOMAIN acks : l # k => ~InitAck(l, s)

(* A stream that QEMU was told, or is about to be told, is valid has a     *)
(* handle and its mixer.                                                   *)
HandleInv ==
    \A s \in Streams :
        /\ handle[s] = "stale" <=> s \in reopenFailed
        /\ handle[s] = "open" => pcm[s] # "closed"
        /\ (Ready(s) \/ \E k \in DOMAIN acks : InitAck(k, s) /\ acks[k].valid) =>
              handle[s] # "null" /\ (s = "playback" => mhandle)

(* What uses a stream is in the queue before everything that opens or      *)
(* closes it.                                                              *)
UseInv ==
    \A s \in Streams :
        /\ Enabled(s) => Ready(s)
        /\ \A i, j \in Places : i < j /\ (Is(i, "init", s) \/ Closes(i, s)) => ~Uses(j, s)
        /\ \A i \in Places : Uses(i, s) => handle[s] # "null"
        /\ \A i \in Places : Is(i, "volume", s) => mhandle

Running(s) == pcm[s] \in {"running", "xrun", "suspended"}
Starts(i, s) == Is(i, "enable", s) \/ Is(i, "samples", s)
Stops(i, s) == Is(i, "disable", s) \/ Closes(i, s)

(* Between what lets a PCM run and the next enabling of its voice there is *)
(* something that stops it; between disabling it and the next samples the  *)
(* enabling; and the same between the present state of the PCM, the queue  *)
(* and what QEMU will send.                                                *)
VoiceInv ==
    \A s \in Streams :
        /\ \A i, j \in Places : i < j /\ Starts(i, s) /\ Is(j, "enable", s) =>
              \E k \in i + 1 .. j - 1 : Stops(k, s)
        /\ \A i, j \in Places : i < j /\ Is(i, "disable", s) /\ Is(j, "samples", s) =>
              \E k \in i + 1 .. j - 1 : Is(k, "enable", s)
        /\ \A j \in Places : Running(s) /\ Is(j, "enable", s) => \E k \in 0 .. j - 1 : Stops(k, s)
        /\ \A j \in Places : pcm[s] = "setup" /\ Is(j, "samples", s) =>
              \E k \in 0 .. j - 1 : Is(k, "enable", s)
        /\ ~Enabled(s) =>
              /\ Running(s) => \E k \in Places : Stops(k, s)
              /\ \A i \in Places : Starts(i, s) => \E k \in Places : i < k /\ Stops(k, s)
        /\ Enabled(s) =>
              /\ pcm[s] = "setup" => \E k \in Places : Is(k, "enable", s)
              /\ \A i \in Places : Is(i, "disable", s) => \E k \in Places : i < k /\ Is(k, "enable", s)

AudioInv ==
    /\ ended = "no" => /\ BeliefInv /\ HandleInv
                       /\ ~careless => UseInv /\ VoiceInv
    /\ EndsOnlyFromOutside
    /\ VolumeAsAsked
=============================================================================
