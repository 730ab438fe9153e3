---------------------------- MODULE AudioDaemon ----------------------------
(***************************************************************************)
(* audio-daemon: the backend of the guests' paravirtual sound card.  One   *)
(* thread runs the libevent loop, which reads the front end's commands     *)
(* from the shared ring; ALSA calls capture_callback from a signal handler *)
(* on that same thread, at any point of what the loop is doing.  So the    *)
(* callback runs to its end before the loop goes on, unless it meets a     *)
(* mutex the interrupted code holds: then neither ever runs again.         *)
(*                                                                         *)
(* Audio positions count periods of PERIOD_FRAMES frames.                  *)
(***************************************************************************)
EXTENDS Naturals, Integers, Sequences, SndRing

CONSTANTS
    UsePatterns,  \* the sets of streams a guest may use
    Periods,      \* periods in a stream's DMA buffer (N_AUD_BUFFER_PAGES)
    MaxAppl       \* bound: periods the guest writes per preparation, so that
                  \* the 32-bit byte count "processed" does not wrap

ASSUME AudioAssumption ==
    /\ Periods \in Nat \ {0} /\ MaxAppl \in Nat
    /\ UsePatterns \subseteq SUBSET {"playback", "capture"}

VARIABLES
    uses,        \* the streams this guest uses, fixed
    fe,          \* front end: per stream, the state of its PCM
    appl,        \* playback be_info.appl_ptr, written by the front end
    queue,       \* commands sent and not yet taken by xen_vsnd_event, in order
    kick,        \* an event-channel notification is pending
    bound,       \* the event channel is bound and watched by libevent
    page,        \* xvb->page: the connection is up
    cmd_ring,    \* "null", "mapped", or "stale": left from an old connection
    pc,          \* what the event loop is doing
    stoppedIn,   \* what it was doing when it hung or faulted
    cmd,         \* the command it is doing it for
    mutex,       \* per stream, held by the event loop
    handle,      \* per stream, the PCM is open
    started,     \* capture runs, so the callback is called
    running,     \* playback_is_running and capture_is_running
    hw_ptr,      \* per stream, the next period of the DMA buffer
    processed,   \* periods played; the capture stream's count is never read
    be_info,     \* per stream, what the front end sees
    carried      \* history: streams a front end that is gone left running, and
                 \* no START or STOP has reached since

feVars == <<uses, fe, appl, queue>>
streamVars == <<running, hw_ptr, processed, be_info, carried>>
connVars == <<bound, page, cmd_ring, handle, started>>
vars == <<feVars, kick, connVars, pc, stoppedIn, cmd, mutex, streamVars, ringVars>>

Streams == {"playback", "capture"}
Commands == [stream : Streams, op : {"open", "close", "prepare", "start", "stop"}]
Bytes(c) == [k \in 1 .. CmdLen |-> <<c.stream, c.op, k>>]
AllBytes(q) == [i \in 1 .. CmdLen * Len(q) |->
                  Bytes(q[1 + ((i - 1) \div CmdLen)])[1 + ((i - 1) % CmdLen)]]
NoCmd == [stream |-> "none", op |-> "none"]

TypeOK ==
    /\ uses \in UsePatterns
    /\ fe \in [Streams -> {"closed", "open", "prepared", "started"}]
    /\ appl \in 0 .. MaxAppl /\ queue \in Seq(Commands)
    /\ kick \in BOOLEAN /\ bound \in BOOLEAN /\ page \in BOOLEAN
    /\ cmd_ring \in {"null", "mapped", "stale"}
    /\ pc \in {"idle", "opening", "reading", "locked", "closing", "unmapping",
               "hung", "fault", "exited"}
    /\ stoppedIn \in {"none", "idle", "opening", "locking", "reading", "locked", "closing"}
    /\ cmd \in Commands \cup {NoCmd}
    /\ mutex \in [Streams -> BOOLEAN] /\ handle \in [Streams -> BOOLEAN]
    /\ started \in BOOLEAN
    /\ running \in [Streams -> 0 .. 2]
    /\ hw_ptr \in [Streams -> 0 .. Periods - 1]
    /\ processed \in 0 .. MaxAppl
    /\ be_info \in [Streams -> [hw_ptr : 0 .. Periods - 1,
                                status : {"stopped", "starting", "started"}]]
    /\ carried \subseteq Streams
    /\ req_cons \in Idx /\ req_prod \in Idx

(* The event loop goes on at "where"; or it never runs again. *)
GoTo(where) == pc' = where /\ UNCHANGED stoppedIn
Stop(how, in) == pc' = how /\ stoppedIn' = in

Fresh(x) == [s \in Streams |-> x]
Stopped == [hw_ptr |-> 0, status |-> "stopped"]

Init ==
    /\ uses \in UsePatterns
    /\ fe = Fresh("closed") /\ appl = 0 /\ queue = <<>> /\ kick = FALSE
    /\ bound = FALSE /\ page = FALSE /\ cmd_ring = "null"
    /\ pc = "idle" /\ stoppedIn = "none" /\ cmd = NoCmd
    /\ mutex = Fresh(FALSE) /\ handle = Fresh(FALSE) /\ started = FALSE
    /\ running = Fresh(0) /\ hw_ptr = Fresh(0) /\ processed = 0
    /\ be_info = Fresh(Stopped) /\ carried = {}
    /\ RingInit

-----------------------------------------------------------------------------
(* The front end, a guest's ALSA driver: external.  It stops a stream      *)
(* before it prepares or closes it, as ALSA makes every driver do.         *)

FeStep == [open |-> <<{"closed"}, "open">>, prepare |-> <<{"open", "prepared"}, "prepared">>,
           start |-> <<{"prepared"}, "started">>, stop |-> <<{"started"}, "open">>,
           close |-> <<{"open", "prepared"}, "closed">>]

FrontSend(c) ==
    /\ page /\ pc \notin {"opening", "closing", "unmapping", "hung", "fault", "exited"}
    /\ c.stream \in uses /\ fe[c.stream] \in FeStep[c.op][1]
    /\ RingWrite(Bytes(c))
    /\ fe' = [fe EXCEPT ![c.stream] = FeStep[c.op][2]]
    /\ appl' = IF c = [stream |-> "playback", op |-> "prepare"] THEN 0 ELSE appl
    /\ queue' = Append(queue, c)
    /\ kick' = TRUE
    /\ UNCHANGED <<uses, connVars, pc, stoppedIn, cmd, mutex, streamVars>>

FrontWrite ==
    /\ page /\ pc \notin {"hung", "fault", "exited"}
    /\ fe["playback"] \in {"prepared", "started"} /\ appl < MaxAppl
    /\ appl' = appl + 1
    /\ UNCHANGED <<uses, fe, queue, kick, connVars, pc, stoppedIn, cmd, mutex, streamVars, ringVars>>

(* A front end that fails may leave any producer index in the shared page; *)
(* what it had queued is then lost.                                        *)
FrontBreaks ==
    /\ page /\ pc \in {"idle", "reading"} /\ data = <<>>
    /\ req_prod' \in {i \in Idx : ~RingCheckIndexes(req_cons, i)}
    /\ fe' = Fresh("closed") /\ queue' = <<>> /\ kick' = TRUE
    /\ carried' = carried \cup {s \in Streams : running[s] # 0}
    /\ UNCHANGED <<uses, appl, connVars, pc, stoppedIn, cmd, mutex, running, hw_ptr, processed,
                   be_info, req, req_cons, data>>

-----------------------------------------------------------------------------
(* Connecting: xen_vsnd_connect and, within it, init_alsa. *)

ConnectFails ==
    /\ pc = "idle" /\ ~page /\ ~bound
    /\ bound' \in BOOLEAN           \* bind failed, or the page was not mapped
    /\ UNCHANGED <<feVars, kick, page, cmd_ring, handle, started, pc, stoppedIn, cmd, mutex,
                   streamVars, ringVars>>

(* alsa_prepare. *)
Prepare(s) ==
    /\ hw_ptr' = [hw_ptr EXCEPT ![s] = 0]
    /\ processed' = IF s = "playback" THEN 0 ELSE processed

(* Up to alsa_open and alsa_prepare of the playback stream.  alsa_open     *)
(* returns with the mutex locked when the PCM does not open, and           *)
(* alsa_prepare then waits for it; bad parameters end the process.         *)
ConnectPlayback ==
    /\ pc = "idle" /\ ~page
    /\ bound' = TRUE /\ page' = TRUE
    /\ IF cmd_ring = "null" THEN cmd_ring' = "mapped" /\ RingReset
                            ELSE UNCHANGED <<cmd_ring, ringVars>>
    /\ queue' = <<>> /\ kick' = FALSE /\ fe' = Fresh("closed") /\ appl' = 0
    /\ be_info' = Fresh(Stopped) /\ carried' = {s \in Streams : running[s] # 0}
    /\ \/ /\ GoTo("opening") /\ handle' = [handle EXCEPT !["playback"] = TRUE]
          /\ Prepare("playback") /\ UNCHANGED mutex
       \/ /\ Stop("hung", "opening") /\ mutex' = [mutex EXCEPT !["playback"] = TRUE]
          /\ UNCHANGED <<handle, hw_ptr, processed>>
       \/ Stop("exited", "opening") /\ UNCHANGED <<handle, hw_ptr, processed, mutex>>
    /\ UNCHANGED <<uses, cmd, started, running>>

(* The same for capture, and snd_pcm_start: from here the callback runs. *)
ConnectCapture ==
    /\ pc = "opening"
    /\ \/ /\ GoTo("idle") /\ handle' = [handle EXCEPT !["capture"] = TRUE]
          /\ Prepare("capture") /\ started' = TRUE /\ UNCHANGED mutex
       \/ /\ Stop("hung", "opening") /\ mutex' = [mutex EXCEPT !["capture"] = TRUE]
          /\ UNCHANGED <<handle, hw_ptr, processed, started>>
       \/ Stop("exited", "opening") /\ UNCHANGED <<handle, hw_ptr, processed, started, mutex>>
    /\ UNCHANGED <<feVars, kick, bound, page, cmd_ring, cmd, running, be_info, carried, ringVars>>

-----------------------------------------------------------------------------
(* Disconnecting: cleanup_alsa closes playback, then capture. *)

DisconnectPlayback ==
    /\ pc = "idle" /\ page
    /\ GoTo("closing") /\ handle' = [handle EXCEPT !["playback"] = FALSE]
    /\ UNCHANGED <<feVars, kick, bound, page, cmd_ring, started, cmd, mutex,
                   streamVars, ringVars>>

DisconnectCapture ==
    /\ pc = "closing"
    /\ GoTo("unmapping") /\ handle' = [handle EXCEPT !["capture"] = FALSE]
    /\ started' = FALSE
    /\ UNCHANGED <<feVars, kick, bound, page, cmd_ring, cmd, mutex, streamVars, ringVars>>

\* Mutant: the pointer to the ring of the old connection stays.
Unmap_MutKeepsRing ==
    /\ pc = "unmapping"
    /\ GoTo("idle") /\ bound' = FALSE /\ page' = FALSE /\ cmd_ring' = "stale"
    /\ kick' = FALSE
    /\ UNCHANGED <<feVars, handle, started, cmd, mutex, streamVars, ringVars>>

Unmap ==
    /\ pc = "unmapping"
    /\ GoTo("idle") /\ bound' = FALSE /\ page' = FALSE /\ cmd_ring' = "null"
    /\ kick' = FALSE
    /\ UNCHANGED <<feVars, handle, started, cmd, mutex, streamVars, ringVars>>

-----------------------------------------------------------------------------
(* The event loop: xen_vsnd_event reads commands until the ring is empty. *)

EventStart ==
    /\ pc = "idle" /\ bound /\ kick /\ page
    /\ GoTo("reading") /\ kick' = FALSE
    /\ UNCHANGED <<feVars, connVars, cmd, mutex, streamVars, ringVars>>

EventRead ==
    /\ pc = "reading" /\ RingReadChunk
    /\ UNCHANGED <<feVars, kick, connVars, pc, stoppedIn, cmd, mutex, streamVars>>

EventEmpty ==
    /\ pc = "reading" /\ (RingReadEmpty \/ RingReadBroken)
    /\ GoTo("idle")
    /\ UNCHANGED <<feVars, kick, connVars, cmd, mutex, streamVars>>

(* The bytes read are a command again only if they belong together. *)
Decoded(bytes) == CHOOSE c \in Commands : Bytes(c)[1] = bytes[1]

(* process_*_cmd takes the stream's mutex: only the callback competes for  *)
(* it, and the callback never leaves it locked.                            *)
EventLock ==
    /\ pc = "reading" /\ RingReadDone
    /\ LET c == Decoded(data) IN
         /\ cmd' = c /\ queue' = Tail(queue)
         /\ IF mutex[c.stream] THEN Stop("hung", "locking") /\ UNCHANGED mutex
            ELSE GoTo("locked") /\ mutex' = [mutex EXCEPT ![c.stream] = TRUE]
    /\ UNCHANGED <<uses, fe, appl, kick, connVars, streamVars>>

\* Mutant: CLOSE returns with the mutex locked.
Unlock_MutNotOnClose(s) == mutex' = [mutex EXCEPT ![s] = cmd.op = "close"]

Unlock(s) == mutex' = [mutex EXCEPT ![s] = FALSE]

\* Mutant: one command is read per notification.
ReadOn_MutOncePerEvent == GoTo("idle")

ReadOn == GoTo("reading")

(* The switch of process_playback_cmd and of process_capture_cmd, up to    *)
(* the unlock.                                                             *)
ProcessCmd ==
    LET s == cmd.stream IN
    /\ pc = "locked" /\ ReadOn /\ cmd' = NoCmd
    /\ Unlock(s)
    /\ running' = [running EXCEPT ![s] = IF cmd.op = "start" THEN 1 ELSE 0]
    /\ IF cmd.op = "prepare" THEN Prepare(s) ELSE UNCHANGED <<hw_ptr, processed>>
    /\ be_info' = [be_info EXCEPT ![s] =
         CASE cmd.op = "start" -> [hw_ptr |-> 0, status |-> "starting"]
           [] cmd.op = "stop"  -> Stopped
           [] OTHER            -> @]
    /\ carried' = IF cmd.op \in {"start", "stop"} THEN carried \ {s} ELSE carried
    /\ UNCHANGED <<feVars, kick, connVars, ringVars>>

-----------------------------------------------------------------------------
(* capture_callback, on the event loop's thread. *)

CaptureEnabled == started /\ pc \notin {"hung", "fault", "exited"}

\* Mutant: the position runs past the buffer.
Advance_MutNoWrap(s) == hw_ptr[s] + 1

Advance(s) == (hw_ptr[s] + 1) % Periods

(* alsa_get_live_frames, signed. *)
LiveFrames == appl - processed

\* Mutant: a running stream plays whether or not the guest has written.
PlaysData_MutNoLiveCheck == running["playback"] # 0

PlaysData == running["playback"] # 0 /\ LiveFrames >= 1

\* Mutant: the position of the period just taken is reported.
PlaybackPointer_MutNoLag == Advance("playback")

(* alsa_refresh_be_playback_info(as, 1) reports one period behind. *)
PlaybackPointer == (Advance("playback") + Periods - 1) % Periods

(* The capture section: the first period after the start is dropped.       *)
CapturePart(s) ==
    [run |-> IF running[s] = 0 THEN 0 ELSE 2,
     hw  |-> IF running[s] = 2 THEN Advance(s) ELSE hw_ptr[s],
     be  |-> IF running[s] = 2 THEN [hw_ptr |-> Advance(s), status |-> "started"] ELSE be_info[s]]

(* The playback section: silence, or the guest's next period; the position *)
(* is reported from the second one on.                                     *)
PlaybackPart(s) ==
    [run |-> IF PlaysData THEN 2 ELSE running[s],
     hw  |-> IF PlaysData THEN Advance(s) ELSE hw_ptr[s],
     be  |-> IF PlaysData /\ running[s] = 2
             THEN [hw_ptr |-> PlaybackPointer, status |-> "started"] ELSE be_info[s]]

Apply(parts) ==
    /\ running' = [s \in Streams |-> IF s \in DOMAIN parts THEN parts[s].run ELSE running[s]]
    /\ hw_ptr' = [s \in Streams |-> IF s \in DOMAIN parts THEN parts[s].hw ELSE hw_ptr[s]]
    /\ be_info' = [s \in Streams |-> IF s \in DOMAIN parts THEN parts[s].be ELSE be_info[s]]
    /\ processed' = IF "playback" \in DOMAIN parts /\ PlaysData THEN processed + 1 ELSE processed
    /\ UNCHANGED carried

CaptureOnly == [s \in {"capture"} |-> CapturePart(s)]
Both == [s \in Streams |-> IF s = "capture" THEN CapturePart(s) ELSE PlaybackPart(s)]

(* No full period to read, or ALSA fails before the capture section and    *)
(* alsa_repare restarts both PCMs: no state here changes.  Otherwise the   *)
(* callback takes one mutex after the other; the use of a PCM that is      *)
(* closed is undefined behaviour, here a fault.                            *)
CaptureCallback ==
    /\ CaptureEnabled
    /\ \/ /\ ~handle["playback"]
          /\ Stop("fault", pc) /\ Apply(CaptureOnly)
       \/ /\ handle["playback"] /\ mutex["capture"]
          /\ Stop("hung", pc) /\ UNCHANGED streamVars
       \/ /\ handle["playback"] /\ ~mutex["capture"]      \* ALSA fails half way
          /\ GoTo(pc) /\ Apply(CaptureOnly)
       \/ /\ handle["playback"] /\ ~mutex["capture"] /\ mutex["playback"]
          /\ Stop("hung", pc) /\ Apply(CaptureOnly)
       \/ /\ handle["playback"] /\ ~mutex["capture"] /\ ~mutex["playback"]
          /\ GoTo(pc) /\ Apply(Both)
    /\ UNCHANGED <<feVars, kick, connVars, cmd, mutex, ringVars>>

Next ==
    \/ \E c \in Commands : FrontSend(c)
    \/ FrontWrite \/ FrontBreaks
    \/ ConnectFails \/ ConnectPlayback \/ ConnectCapture
    \/ DisconnectPlayback \/ DisconnectCapture \/ Unmap
    \/ EventStart \/ EventRead \/ EventEmpty \/ EventLock \/ ProcessCmd
    \/ CaptureCallback

(* libevent dispatches a readable event channel, and what the loop has     *)
(* begun it goes on with: the callback only delays it.                     *)
EventLoop == EventStart \/ EventRead \/ EventEmpty \/ EventLock \/ ProcessCmd
               \/ ConnectCapture \/ DisconnectCapture \/ Unmap

Spec == Init /\ [][Next]_vars
FairSpec == Spec /\ WF_vars(EventLoop)

-----------------------------------------------------------------------------
Lost == pc \in {"hung", "fault", "exited"}

(* Whatever the index wrap-around and the interleaving with the front      *)
(* end, the ring holds exactly the commands sent and not yet taken, in     *)
(* order and none of them torn; and so again after ring_read has met a     *)
(* broken index.                                                           *)
RingIsQueue == page /\ RingCheckIndexes(req_cons, req_prod) => RingContents = AllBytes(queue)

(* The daemon stops for good in three ways only: a PCM that fails to open  *)
(* leaves its mutex locked; the callback interrupts a command's critical   *)
(* section and waits for the mutex of the code it interrupted; or it runs  *)
(* between the two snd_pcm_close of cleanup_alsa.  At any other point the  *)
(* callback finds both mutexes free and both PCMs open.                    *)
OnlyKnownStops ==
    /\ pc = "hung" => stoppedIn \in {"opening", "locked"}
    /\ pc = "fault" => stoppedIn = "closing"

(* What the front end reads agrees with the backend: "started" is shown    *)
(* only for a running stream, playback one period behind the data taken    *)
(* and capture at the data delivered; and the position in the DMA buffer   *)
(* is the count of periods modulo its size, through every prepare and      *)
(* reconnection.  The exception is a stream that a broken connection left  *)
(* running: connect does not reset the running flags, so until the new     *)
(* front end first starts or stops it the callback goes on with it.        *)
PointersAgree ==
    /\ hw_ptr["playback"] = processed % Periods
    /\ \A s \in Streams : be_info[s].status = "started" /\ s \notin carried =>
         /\ running[s] = 2
         /\ be_info[s].hw_ptr = (hw_ptr[s] + Periods - (IF s = "playback" THEN 1 ELSE 0)) % Periods

(* Once the backend has taken every playback command, it has consumed no   *)
(* more periods than the guest has written since it prepared the stream.   *)
PlaysOnlyWritten ==
    /\ ~Lost /\ "playback" \notin carried /\ running["playback"] > 0 /\ cmd.stream # "playback"
    /\ \A i \in DOMAIN queue : queue[i].stream # "playback"
    => processed <= appl

(* A connection is served through its own mapping of the ring. *)
RingIsCurrent == page => cmd_ring = "mapped"

(* A command in the ring is eventually taken, unless the daemon is lost or *)
(* the connection goes.                                                    *)
CommandsTaken == queue # <<>> ~> (queue = <<>> \/ cmd # NoCmd \/ Lost \/ ~page)

(* The streams are sound: what the front end reads of them is right, what  *)
(* is played was written, and commands come through the connection's own   *)
(* mapping of the ring.                                                    *)
StreamsSound == TypeOK /\ PointersAgree /\ PlaysOnlyWritten /\ RingIsCurrent
=============================================================================
