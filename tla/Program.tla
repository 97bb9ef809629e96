------------------------------- MODULE Program -------------------------------
(***************************************************************************)
(* The main thread of an application, from the first Prepare to the end of *)
(* the process: blocks get their session and their frames                  *)
(* (MfxSessionMgr, FrameAllocator), all threads run, ReportPeriodly        *)
(* decides when they are stopped (Statistics), and the destructors close   *)
(* the sessions.  Of the threads it has what they count and that they end; *)
(* what they do meanwhile is in Pipeline.                                  *)
(***************************************************************************)
EXTENDS FrameAllocator, Statistics, Sequences, FiniteSetsExt

CONSTANTS
  Apps,       (* the applications: see below                                 *)
  Suggested,  (* frames that QueryIOSurf suggests                            *)
  MaxSteps    (* bound: steps of a counter                                   *)

(***************************************************************************)
(* An application has decoders, maybe an encoder on the session of the     *)
(* first; SetBatchSize; the kinds of its inference blocks; the duration    *)
(* given to ReportPeriodly in periods, -1 for none; and it starts the      *)
(* countdown of the decoders or does not.                                  *)
(***************************************************************************)
ASSUME AppAssumption ==
  /\ \A a \in Apps :
       /\ a.decoders \in Nat \ {0} /\ a.encoder \in BOOLEAN /\ a.batch \in Nat \ {0}
       /\ a.infer \in Seq({"SR", "OD", "OC"})
       /\ a.duration \in Nat \union {-1} /\ a.countdown \in BOOLEAN
       /\ 1 .. a.decoders \subseteq Sessions
       /\ Suggested + a.batch * 4 <= MaxFrames
       /\ [use : {"block", "vpp", "runtime", "coded"},
           block : 1 .. IF a.encoder THEN a.decoders + 1 ELSE a.decoders] \subseteq Holders
       /\ a.decoders < Wrap
  /\ Suggested \in Nat \ {0} /\ MaxSteps \in Nat

VARIABLES
  app,
  main,      (* where the main thread is                                     *)
  at,        (* the block or the counter it is at                            *)
  sessions,  (* channels with a session and an allocator in MfxSessionMgr    *)
  display,   (* m_va_dpy is open                                             *)
  running,   (* the threads that count and run                               *)
  pending,   (* the second counter of an image that an inference counts      *)
  count,     (* count of ReportPeriodly, when there is a duration            *)
  noFPS,     (* countNoFPS                                                   *)
  interrupted,  (* history: Ctrl-C                                           *)
  handler       (* sigint_hanlder is installed                               *)

process == <<sessions, display>>
threads == <<running, pending>>
report  == <<count, noFPS, interrupted, handler>>
vars    == <<app, main, at, process, threads, report, memory, statistics>>

Decoders  == 1 .. app.decoders
Encoder   == app.decoders + 1
Blocks    == IF app.encoder THEN 1 .. Encoder ELSE Decoders
Inferences == Encoder + 1 .. Encoder + Len(app.infer)
Kind(b)    == app.infer[b - Encoder]
Channel(b) == IF b = Encoder THEN 1 ELSE b

(* Who holds memory: for each block the arrays it asked for and those the   *)
(* runtime asked for.                                                       *)
Holder(use, b) == [use |-> use, block |-> b]
RuntimeOf(c) ==
  {h \in Holders : h.use \in {"runtime", "coded"} /\ h.block \in Blocks /\ Channel(h.block) = c}

Goto(label, n) == main' = label /\ at' = n

Init ==
  /\ app \in Apps
  /\ main = "session" /\ at = 1
  /\ sessions = {} /\ display = FALSE
  /\ running = {} /\ pending = [b \in Inferences |-> "none"]
  /\ count = 0 /\ noFPS = 0 /\ interrupted = FALSE /\ handler = FALSE
  /\ MemoryInit /\ StatisticsInit

-----------------------------------------------------------------------------
(* CHECK_STATUS: main returns -1, and the destructors run: the encoder's,   *)
(* which was declared last, and then the decoders', first to last.  To fail *)
(* is the same at a block that has no frames (inference, crop, detector),   *)
(* whose Prepare changes nothing here, and at the block before it.          *)
LastBlock == Cardinality(Blocks)
FirstToGo == IF app.encoder THEN Encoder ELSE 1
NextToGo  == IF at = app.decoders THEN 0 ELSE IF at = Encoder THEN 1 ELSE at + 1
Fail == Goto("destroy", FirstToGo)

(* The session, the display, its handle, the allocator: each may fail.  The *)
(* display is opened once.                                                  *)
Initialize      == display' = TRUE
InitializeFails == display' \in {display, TRUE}

(* GetSession and GetAllocator; a new channel gets both, or none.           *)
NewChannel(c) ==
  \/ Initialize /\ sessions' = sessions \union {c} /\ Goto("frames", at)
  \/ InitializeFails /\ UNCHANGED sessions /\ Fail

GetSession ==
  /\ main = "session"
  /\ IF Channel(at) \in sessions THEN Goto("frames", at) /\ UNCHANGED process
     ELSE NewChannel(Channel(at))
  /\ UNCHANGED <<app, threads, report, memory, statistics>>

(* CreateVAEnvDRM finds no adapter and throws; nobody catches it. *)
NoAdapter ==
  /\ main = "session" /\ Channel(at) \notin sessions /\ ~display
  /\ Goto("returned", 0)
  /\ UNCHANGED <<app, process, threads, report, memory, statistics>>

(* Alloc at the lowest free address; or it fails.                           *)
FreshMids == Min(Mids \ Used)
AllocFor(h, c, request) == \E made \in 0 .. request.num : Alloc(h, c, request, FreshMids, made)
Got(h)    == held'[h] # NotHeld

(* The decoder adds surfaces for its batches. *)
DecodeRequest(num) == [num |-> num, target |-> TRUE, decode |-> TRUE, fourcc |-> "picture"]
FrameRequest(num)  == [num |-> num, target |-> TRUE, decode |-> FALSE, fourcc |-> "picture"]
CodedRequest(num)  == [num |-> num, target |-> TRUE, decode |-> FALSE, fourcc |-> "P8"]
DecodeFrames == Suggested + app.batch * 4
VppFrames    == IF app.batch > 1 THEN app.batch * 4 ELSE Suggested

AllocFrames ==
  LET h == Holder("block", at)
  IN /\ main = "frames" /\ at # Encoder
     /\ AllocFor(h, Channel(at), DecodeRequest(DecodeFrames))
     /\ IF Got(h) THEN Goto("vpp", at) ELSE Fail
     /\ UNCHANGED <<app, process, threads, report, statistics>>

(* The encoder's block: one more than suggested, its AsyncDepth.            *)
AllocEncoderFrames ==
  LET h == Holder("block", at)
  IN /\ main = "frames" /\ at = Encoder
     /\ AllocFor(h, Channel(at), FrameRequest(Suggested + 1))
     /\ IF Got(h) THEN Goto("init", at) ELSE Fail
     /\ UNCHANGED <<app, process, threads, report, statistics>>

AllocVpp ==
  LET h == Holder("vpp", at)
  IN /\ main = "vpp"
     /\ AllocFor(h, Channel(at), FrameRequest(VppFrames))
     /\ IF Got(h) THEN Goto("init", at) ELSE Fail
     /\ UNCHANGED <<app, process, threads, report, statistics>>

NextBlock == IF at = LastBlock THEN Goto("run", 0) ELSE Goto("session", at + 1)

(* MFXVideoDECODE::Init asks for the decoder's surfaces once more, and for  *)
(* no more of them than it suggested; then MFXVideoVPP::Init.               *)
InitDecoder ==
  LET h == Holder("runtime", at)
  IN /\ main = "init" /\ at # Encoder
     /\ \E num \in {Suggested, DecodeFrames} : AllocFor(h, Channel(at), DecodeRequest(num))
     /\ (Got(h) /\ NextBlock) \/ Fail
     /\ UNCHANGED <<app, process, threads, report, statistics>>

(* MFXVideoENCODE::Init asks for frames of its own and for coded buffers;   *)
(* that it failed is printed and not returned.                              *)
InitEncoder ==
  LET h == Holder("runtime", at)
  IN /\ main = "init" /\ at = Encoder
     /\ AllocFor(h, Channel(at), FrameRequest(Suggested))
     /\ IF Got(h) THEN Goto("coded", at) ELSE NextBlock
     /\ UNCHANGED <<app, process, threads, report, statistics>>

InitCoded ==
  /\ main = "coded"
  /\ AllocFor(Holder("coded", at), Channel(at), CodedRequest(Suggested))
  /\ NextBlock
  /\ UNCHANGED <<app, process, threads, report, statistics>>

Prepare ==
  \/ GetSession \/ NoAdapter \/ AllocFrames \/ AllocEncoderFrames \/ AllocVpp \/ InitDecoder \/ InitEncoder \/ InitCoded

-----------------------------------------------------------------------------
(* The threads run, and with the first Statistics::getInstance(), by main   *)
(* or by one of them, Ctrl-C is handled.                                    *)
RunAllThreads ==
  /\ main = "run"
  /\ IF app.countdown THEN CountDownStart(app.decoders) ELSE UNCHANGED statistics
  /\ running' = Decoders \union Inferences
  /\ handler' = TRUE
  /\ Goto("report", 0)
  /\ UNCHANGED <<app, process, pending, count, noFPS, interrupted, memory>>

(* A decoder counts what it has decoded, and down when its loop ends: at    *)
(* the end of its stream, after an error, or when it is stopped.            *)
Decode(d) ==
  /\ d \in running /\ steps["DECODED"] < MaxSteps
  /\ Step("DECODED")
  /\ UNCHANGED <<app, main, at, process, threads, report, memory>>

EndDecoder(d) ==
  /\ d \in running
  /\ running' = running \ {d}
  /\ CountDown
  /\ UNCHANGED <<app, main, at, process, pending, report, memory>>

(* An inference block counts each image twice, in a counter of all and in   *)
(* one of its kind.  Frames whose results come in two calls of GetOutput    *)
(* are counted again with the second, so PROCESSED has no upper limit.      *)
Own(b, kind) ==
  LET of == [SR |-> [RECEIVED |-> "none",        PROCESSED |-> "none"],
             OD |-> [RECEIVED |-> "OD_RECEIVED", PROCESSED |-> "OD_PROCESSED"],
             OC |-> [RECEIVED |-> "OC_RECEIVED", PROCESSED |-> "OC_PROCESSED"]]
  IN of[Kind(b)][kind]

(* What was counted before the block can get an image, or have processed    *)
(* one: a classifier is behind the detectors, if there are any.             *)
Before(b, kind) ==
  IF kind = "PROCESSED" THEN IF Kind(b) = "SR" THEN "RECEIVED" ELSE Own(b, "RECEIVED")
  ELSE IF Kind(b) = "OC" /\ \E d \in Inferences : Kind(d) = "OD" THEN "OD_PROCESSED"
  ELSE "DECODED"

Infer(b, kind) ==
  /\ b \in running /\ pending[b] = "none"
  /\ steps[Before(b, kind)] > 0 /\ steps[kind] < MaxSteps
  /\ Step(kind)
  /\ pending' = [pending EXCEPT ![b] = Own(b, kind)]
  /\ UNCHANGED <<app, main, at, process, running, report, memory>>

InferOwn(b) ==
  /\ pending[b] # "none"
  /\ Step(pending[b])
  /\ pending' = [pending EXCEPT ![b] = "none"]
  /\ UNCHANGED <<app, main, at, process, running, report, memory>>

EndInference(b) ==
  /\ main = "join" /\ b \in running /\ pending[b] = "none"
  /\ running' = running \ {b}
  /\ UNCHANGED <<app, main, at, process, pending, report, memory, statistics>>

(* Ctrl-C.  Without the handler it kills the process, whatever main does.   *)
Interrupt ==
  /\ handler /\ ~interrupted /\ main # "returned"
  /\ interrupted' = TRUE
  /\ SigInt
  /\ UNCHANGED <<app, main, at, process, threads, count, noFPS, handler, memory>>

Killed ==
  /\ ~handler /\ main # "returned"
  /\ Goto("returned", 0)
  /\ UNCHANGED <<app, process, threads, report, memory, statistics>>

-----------------------------------------------------------------------------
(* ReportPeriodly: while (_continue), the counters are updated one by one.  *)
BeginReport ==
  /\ main = "report"
  /\ IF continue THEN Goto("update", 1) ELSE Goto("stop", 0)
  /\ UNCHANGED <<app, process, threads, report, memory, statistics>>

UpdateNext ==
  /\ main = "update"
  /\ Update(Types[at])
  /\ IF at = Len(Types) THEN Goto("decide", 0) ELSE Goto("update", at + 1)
  /\ UNCHANGED <<app, process, threads, report, memory>>

(* Five reports in a row without a frame, once the program has started, or  *)
(* the end of the duration.                                                 *)
Endless == app.duration < 0
Idle    == Endless /\ IsNoFPS /\ IsStarted

Decide ==
  /\ main = "decide"
  /\ noFPS' = IF Idle THEN noFPS + 1 ELSE 0
  /\ count' = IF Endless THEN 0 ELSE count + 1
  /\ IF noFPS' = 5 \/ (~Endless /\ count' >= app.duration)
       THEN Goto("stop", 0) ELSE Goto("report", 0)
  /\ UNCHANGED <<app, process, threads, interrupted, handler, memory, statistics>>

(* StopAllThreads: every thread ends and is joined (Pipeline's StopEnds). *)
Stop ==
  /\ main = "stop"
  /\ Goto("join", 0)
  /\ UNCHANGED <<app, process, threads, report, memory, statistics>>

Join ==
  /\ main = "join" /\ running = {}
  /\ Goto("destroy", FirstToGo)
  /\ UNCHANGED <<app, process, threads, report, memory, statistics>>

-----------------------------------------------------------------------------
(* The destructors of the blocks: MfxSessionMgr::Clear of the channel       *)
(* deletes the session, with which the runtime frees what it holds, and the *)
(* allocator.  The arrays of the blocks themselves are not freed.           *)
CloseFrees ==
  /\ main = "destroy" /\ at > 0
  /\ \E h \in RuntimeOf(Channel(at)) : Free(h)
  /\ UNCHANGED <<app, main, at, process, threads, report, statistics>>

Clear ==
  /\ main = "destroy" /\ at > 0
  /\ \A h \in RuntimeOf(Channel(at)) : held[h] = NotHeld
  /\ sessions' = sessions \ {Channel(at)}
  /\ Goto("destroy", NextToGo)
  /\ UNCHANGED <<app, display, threads, report, memory, statistics>>

(* The destructor of MfxSessionMgr deletes what is left.                    *)
Return ==
  /\ main = "destroy" /\ at = 0
  /\ sessions' = {}
  /\ Goto("returned", 0)
  /\ UNCHANGED <<app, display, threads, report, memory, statistics>>

Report  == BeginReport \/ UpdateNext \/ Decide
MainThread == Prepare \/ RunAllThreads \/ Report \/ Stop \/ Join \/ CloseFrees \/ Clear \/ Return

Next ==
  \/ MainThread
  \/ \E d \in Decoders : Decode(d) \/ EndDecoder(d)
  \/ \E b \in Inferences, kind \in {"RECEIVED", "PROCESSED"} : Infer(b, kind)
  \/ \E b \in Inferences : InferOwn(b) \/ EndInference(b)
  \/ Interrupt \/ Killed

Spec == Init /\ [][Next]_vars

(* The main thread runs; a thread that is stopped ends (Pipeline's          *)
(* StopEnds), and one that has counted an image once counts it again.       *)
FairSpec ==
  /\ Spec
  /\ WF_vars(MainThread)
  /\ WF_vars(\E b \in Inferences : InferOwn(b))
  /\ WF_vars(main = "join" /\ \E d \in Decoders : EndDecoder(d))
  /\ WF_vars(\E b \in Inferences : EndInference(b))

-----------------------------------------------------------------------------
TypeOK ==
  /\ MemoryTypeOK /\ StatisticsTypeOK
  /\ main \in {"session", "frames", "vpp", "init", "coded", "run", "report", "update",
               "decide", "stop", "join", "destroy", "returned"}
  /\ at \in Nat /\ sessions \subseteq Sessions /\ running \subseteq Decoders \union Inferences
  /\ pending \in [Inferences -> AllTypes \union {"none"}] /\ noFPS \in 0 .. 5 /\ count \in Nat

(***************************************************************************)
(* The runtime decodes into the surfaces that the decoder's block knows:   *)
(* asked again at Init, with the encoder's requests on the same session    *)
(* perhaps between, the allocator answers with the same array.             *)
(***************************************************************************)
SameSurfaces ==
  \A d \in Decoders :
    held[Holder("runtime", d)] # NotHeld =>
      held[Holder("runtime", d)].response = held[Holder("block", d)].response

(***************************************************************************)
(* The countdown ends the program only when every decoder has ended, and   *)
(* never in an application that has not started it.                        *)
(***************************************************************************)
CountdownEnds ==
  ~continue => interrupted \/ (app.countdown /\ running \intersect Decoders = {})

(***************************************************************************)
(* The program ends: after its duration, after the countdown or Ctrl-C,    *)
(* or when frames no longer come, however the counting falls between the   *)
(* reports.  The exception is an endless program that has not "started":   *)
(* nothing was decoded, or what the inference took never came back.        *)
(***************************************************************************)
CanEnd == ~Endless \/ ~continue \/ StartedBy(steps)

ProgramEnds == <>[]CanEnd => <>(main = "returned")
=============================================================================
