------------------------------ MODULE Pipeline ------------------------------
(***************************************************************************)
(* A whole pipeline, as ObjectDetection, SamplePipeline, Decode_SR_Encode  *)
(* and DecodeCrop_test build it: the threads of the decoders               *)
(* (DecodeThreadBlock::Loop, of either build), of the inference blocks, of *)
(* the crop block (CropThreadBlock::Loop) and of the encoder               *)
(* (EncodeThreadBlock::Loop), the connectors between them, the sink, and   *)
(* the main thread that stops them.                                        *)
(*                                                                         *)
(* The connectors are what PacketChannel says of them: a pool of packets   *)
(* and a queue.  The inference blocks are what HoldingStage says of them.  *)
(* A step is a call of a pin, or what a block does between two calls.      *)
(* Objects travel in packets; of an object the model keeps which pool its  *)
(* memory is from, since it is the counter of that pool's surface          *)
(* (SetExternalRef) that tells whether the pool may use it again.          *)
(***************************************************************************)
EXTENDS Naturals, SequencesExt, FiniteSetsExt, Functions

CONSTANTS
  Apps,         (* the applications: see below                               *)
  CropBuffers,  (* m_bufferNum of the crop block                             *)
  Hold,         (* of an inference block, see HoldingStage                   *)
  BatchNum      (* images in a batch                                         *)

(***************************************************************************)
(* An application has channels, the blocks behind the decoders, and the    *)
(* packets of a connector; for each decoder the frames of its stream, the  *)
(* surfaces in each pool, one in how many frames is taken (m_vpRatio), and *)
(* whether its output has the decoded surface (SetDecodeOutputRef,         *)
(* SetDecodeOutputWithVP) and a surface scaled by the VPP (it has not      *)
(* after SetDecPostProc); what numbers of objects a detector finds; if it  *)
(* is built with oneVPL; in which order the blocks behind the decoders     *)
(* were prepared; and, a bound, for how many frames the VPP wants more     *)
(* data or another surface (maxLost).                                      *)
(* The stream that is scaled up does not have the encoder's output size    *)
(* already (the encoder would take the decoded frame for the result).  A   *)
(* packet without objects never reaches the dummy detector, which would    *)
(* drop it together with its output packet.  Of the applications only      *)
(* DecodeCropTestVpl is built with oneVPL.                                 *)
(***************************************************************************)
ASSUME AppAssumption ==
  \A a \in Apps :
    /\ a.channels \in Nat \ {0} /\ a.frames \in Nat /\ a.surfaces \in Nat \ {0}
    /\ a.packets \in Nat \ {0} /\ a.ratio \in Nat \ {0} /\ a.dec \in {0, 1} /\ a.vpp \in BOOLEAN /\ a.rois \subseteq Nat
    /\ a.blocks \in {<<"detector">>, <<"detector", "crop", "classifier">>,
                     <<"upscaler", "encoder">>, <<"dummy", "crop">>}
    /\ a.vpl \in BOOLEAN /\ a.order \in Bijection(DOMAIN a.blocks, DOMAIN a.blocks)
    /\ a.maxLost \in Nat
    /\ a.dec = 1 \/ a.vpp
    /\ Len(a.blocks) > 1 => a.dec = 1
    /\ a.blocks[1] = "upscaler" => a.channels = 1 /\ a.vpp
    /\ a.blocks[1] = "dummy" => a.vpl \/ a.ratio = 1
    /\ a.vpl => a.blocks[1] = "dummy"

ASSUME SizeAssumption ==
  /\ CropBuffers \in Nat \ {0}
  /\ BatchNum \in Nat \ {0} /\ Hold \in Nat

VARIABLES
  app,        (* the application                                             *)
  pc,         (* where each thread is                                        *)
  hand,       (* what is in the packet that a thread is filling              *)
  decoded,    (* nDecoded of each decoder                                    *)
  decUsed,    (* of m_decodeSurfaces, how many have a counter above 0        *)
  vpUsed,     (* the same for m_vpOutSurfaces                                *)
  cropUsed,   (* the same for the buffers of the crop block                  *)
  todo,       (* objects of the packet that the crop block has still to crop *)
  free,       (* packets of each connector that are ready to be filled       *)
  filled,     (* the filled packets in each connector                        *)
  inside,     (* the packets recorded in each inference block                *)
  part,       (* the images of its batch that is not whole yet               *)
  image,      (* m_outImg of the upscaler: the frame whose picture it is     *)
  delivered,  (* the last frame of each channel that reached the sink        *)
  lost,       (* what was in the packets that were not enqueued              *)
  unscaled,   (* history: <<channel, frame>>, enqueued without being scaled  *)
  stops,      (* the threads that have been stopped: the first so many       *)
  joined      (* and joined                                                  *)

pools == <<decUsed, vpUsed, cropUsed>>
pipes == <<free, filled>>
stage == <<inside, part>>
main  == <<stops, joined>>
vars  == <<app, pc, hand, decoded, pools, todo, pipes, stage, image, delivered, lost, unscaled, main>>

(* Threads in the order of their Prepare: decoders, then the blocks.  Block *)
(* s takes its input from connector s; the last one sends to the sink.      *)
Channels   == 1 .. app.channels
Blocks     == 1 .. Len(app.blocks)
IsLast(s)  == s = Len(app.blocks)
Threads    == 1 .. app.channels + Len(app.blocks)
BlockOf(s) == app.channels + app.order[s]

Stopped(t) == t <= stops

NoFrame == [chan |-> 0, frame |-> 0, dec |-> 0, vp |-> 0, rois |-> 0, crops |-> 0, res |-> 0]

IsEmpty(p) == p.dec + p.vp + p.rois + p.crops + p.res = 0

(* The objects of a packet that the block can process. *)
ImagesFor(kind, p) ==
  IF kind = "classifier" THEN p.crops ELSE IF app.vpp THEN p.vp ELSE p.dec

MostObjects == Max({1} \union UNION {a.rois : a \in Apps})
Images(s)   == [i \in DOMAIN inside[s] |-> ImagesFor(app.blocks[s], inside[s][i])]

Stage(s) == INSTANCE HoldingStage
              WITH inside <- Images(s), part <- part[s], MostImages <- MostObjects

(* The upscaler has one request for one image: the block polls until it is  *)
(* done (all requests are busy) and asks for no packet meanwhile.           *)
OneByOne(s) == INSTANCE HoldingStage
                 WITH Hold <- 0, BatchNum <- 1, inside <- Images(s), part <- part[s],
                      MostImages <- 1

IsUpscaler(s) == app.blocks[s] = "upscaler"
Waits(s)      == IF IsUpscaler(s) THEN OneByOne(s)!Waits ELSE Stage(s)!Waits
MayLeave(s)   == IF IsUpscaler(s) THEN OneByOne(s)!MayLeave ELSE Stage(s)!MayLeave
Batch(s)      == IF IsUpscaler(s) THEN 1 ELSE BatchNum

Init ==
  /\ app \in Apps
  /\ pc = [t \in Threads |-> IF t \in Channels THEN "top" ELSE "input"]
  /\ hand = [t \in Threads |-> NoFrame]
  /\ decoded = [c \in Channels |-> 0] /\ delivered = [c \in Channels |-> 0]
  /\ decUsed = [c \in Channels |-> 0] /\ vpUsed = [c \in Channels |-> 0] /\ cropUsed = 0
  /\ todo = 0
  /\ free = [s \in Blocks |-> app.packets] /\ filled = [s \in Blocks |-> <<>>]
  /\ inside = [s \in Blocks |-> <<>>] /\ part = [s \in Blocks |-> 0]
  /\ image = 0
  /\ lost = <<>> /\ unscaled = {}
  /\ stops = 0 /\ joined = 0

-----------------------------------------------------------------------------
(* m_noInput or m_noOutput of connector s, once the blocks on one side of   *)
(* it have all been stopped.                                                *)
Closed(s) ==
  \/ Stopped(BlockOf(s))
  \/ IF s = 1 THEN \A c \in Channels : Stopped(c) ELSE Stopped(BlockOf(s - 1))

At(t, label) == pc' = [pc EXCEPT ![t] = label]

(* EnqueueOutput of thread t; without its pin it does nothing. *)
EnqueueOutput(t, s, p) ==
  filled' = IF Stopped(t) THEN filled ELSE [filled EXCEPT ![s] = Append(@, p)]

-----------------------------------------------------------------------------
(* DecodeThreadBlock::Loop.  A frame needs a decode surface that is free.   *)
(* The stream comes from ReadBitStreamData (BitStream); a decoder that      *)
(* wants more data or another surface first goes back to the top.           *)
DecodeFrame(c) ==
  /\ pc[c] = "top" /\ ~Stopped(c) /\ decoded[c] < app.frames
  /\ decUsed[c] < app.surfaces
  /\ decoded' = [decoded EXCEPT ![c] = @ + 1]
  /\ At(c, "dequeue")
  /\ UNCHANGED <<app, hand, pools, todo, pipes, stage, image, delivered, lost, unscaled, main>>

Selected(n) == n % app.ratio = 0

(* DequeueOutput of the decoder, and the decoded surface put in the packet. *)
FillPacket(c) ==
  LET dec == IF Selected(decoded[c]) THEN app.dec ELSE 0
  IN /\ pc[c] = "dequeue" /\ free[1] > 0 /\ ~Closed(1)
     /\ free' = [free EXCEPT ![1] = @ - 1]
     /\ hand' = [hand EXCEPT ![c] = [NoFrame EXCEPT !.chan = c, !.frame = decoded[c], !.dec = dec]]
     /\ decUsed' = [decUsed EXCEPT ![c] = @ + dec]
     /\ At(c, IF app.vpp /\ Selected(decoded[c]) THEN "vpp" ELSE "enqueue")
     /\ UNCHANGED <<app, decoded, vpUsed, cropUsed, todo, filled, stage, image, delivered, lost, unscaled, main>>

(* The frame is scaled; if the synchronisation then fails, the decoder      *)
(* sends the packet and ends.                                               *)
Scale(c) ==
  /\ pc[c] = "vpp" /\ ~Stopped(c) /\ vpUsed[c] < app.surfaces
  /\ vpUsed' = [vpUsed EXCEPT ![c] = @ + 1]
  /\ hand' = [hand EXCEPT ![c].vp = 1]
  /\ \E label \in {"enqueue", "last"} : At(c, label)
  /\ UNCHANGED <<app, decoded, decUsed, cropUsed, todo, pipes, stage, image, delivered, lost, unscaled, main>>

(* The VPP wants more data: the packet is neither sent nor given back. *)
ScaleWantsMore(c) ==
  /\ pc[c] = "vpp" /\ ~Stopped(c) /\ vpUsed[c] < app.surfaces
  /\ Len(lost) + Cardinality(unscaled) < app.maxLost
  /\ lost' = Append(lost, hand[c])
  /\ hand' = [hand EXCEPT ![c] = NoFrame]
  /\ At(c, "top")
  /\ UNCHANGED <<app, decoded, pools, todo, pipes, stage, image, delivered, unscaled, main>>

(* It wants another surface: the packet is sent without a scaled one, and   *)
(* the loop goes on.                                                        *)
ScaleWantsSurface(c) ==
  /\ pc[c] = "vpp" /\ ~Stopped(c) /\ vpUsed[c] < app.surfaces
  /\ Len(lost) + Cardinality(unscaled) < app.maxLost
  /\ unscaled' = unscaled \union {<<c, decoded[c]>>}
  /\ At(c, "enqueue")
  /\ UNCHANGED <<app, hand, decoded, pools, todo, pipes, stage, image, delivered, lost, main>>

(* The VPP fails: the packet is sent without a scaled surface and the       *)
(* decoder ends, or it ends at once if the synchronisation fails when the   *)
(* output is in video memory.                                               *)
ScaleFails(c) ==
  /\ pc[c] = "vpp" /\ ~Stopped(c) /\ vpUsed[c] < app.surfaces
  /\ \/ At(c, "last") /\ UNCHANGED <<hand, lost>>
     \/ /\ At(c, "ended")
        /\ lost' = Append(lost, hand[c])
        /\ hand' = [hand EXCEPT ![c] = NoFrame]
  /\ UNCHANGED <<app, decoded, pools, todo, pipes, stage, image, delivered, unscaled, main>>

SendFrame(c) ==
  /\ pc[c] \in {"enqueue", "last"}
  /\ EnqueueOutput(c, 1, hand[c])
  /\ hand' = [hand EXCEPT ![c] = NoFrame]
  /\ At(c, IF pc[c] = "last" THEN "ended" ELSE "top")
  /\ UNCHANGED <<app, decoded, pools, todo, free, stage, image, delivered, lost, unscaled, main>>

(* Where the loop looks at m_stop. *)
LooksAtStop == IF app.vpl THEN {"top"} ELSE {"top", "dequeue", "vpp"}

(* Mutant: the wait for a VPP surface does not look at m_stop. *)
EndDecoding_WaitsForVpp(c) ==
  /\ \/ pc[c] = "top" /\ decoded[c] = app.frames
     \/ pc[c] \in {"top", "dequeue"} /\ Stopped(c)
  /\ At(c, "ended")
  /\ UNCHANGED <<app, hand, decoded, pools, todo, pipes, stage, image, delivered, lost, unscaled, main>>

(* The end of the stream, or m_stop seen at the top, while waiting for a    *)
(* surface, or after DequeueOutput without a packet.                        *)
EndDecoding(c) ==
  /\ \/ pc[c] = "top" /\ decoded[c] = app.frames
     \/ pc[c] \in LooksAtStop /\ Stopped(c)
  /\ At(c, "ended")
  /\ UNCHANGED <<app, hand, decoded, pools, todo, pipes, stage, image, delivered, lost, unscaled, main>>

-----------------------------------------------------------------------------
(* DecodeThreadBlock::Loop of the oneVPL build.  The runtime brings its own *)
(* surfaces, as many as it is asked for, and scales while it decodes.       *)
DecodeVpl(c) ==
  /\ pc[c] = "top" /\ ~Stopped(c) /\ decoded[c] < app.frames
  /\ decoded' = [decoded EXCEPT ![c] = @ + 1]
  /\ At(c, "dequeue")
  /\ UNCHANGED <<app, hand, pools, todo, pipes, stage, image, delivered, lost, unscaled, main>>

SelectedVpl(n) == (n - 1) % app.ratio = 0

(* Every packet gets the decoded surface.                                   *)
FillVpl(c) ==
  /\ pc[c] = "dequeue" /\ free[1] > 0 /\ ~Closed(1)
  /\ free' = [free EXCEPT ![1] = @ - 1]
  /\ hand' = [hand EXCEPT ![c] = [NoFrame EXCEPT !.chan = c, !.frame = decoded[c], !.dec = app.dec]]
  /\ decUsed' = [decUsed EXCEPT ![c] = @ + app.dec]
  /\ At(c, IF app.vpp /\ SelectedVpl(decoded[c]) THEN "vpp" ELSE "enqueue")
  /\ UNCHANGED <<app, decoded, vpUsed, cropUsed, todo, filled, stage, image, delivered, lost, unscaled, main>>

(* When it is stopped there is no packet, and the loop uses it.             *)
NoPacketVpl(c) ==
  /\ pc[c] = "dequeue" /\ Closed(1)
  /\ At(c, "crashed")
  /\ UNCHANGED <<app, hand, decoded, pools, todo, pipes, stage, image, delivered, lost, unscaled, main>>

(* The scaled picture is copied to a buffer, once one is free.              *)
CopyVpl(c) ==
  /\ pc[c] = "vpp" /\ vpUsed[c] < app.surfaces
  /\ vpUsed' = [vpUsed EXCEPT ![c] = @ + 1]
  /\ hand' = [hand EXCEPT ![c].vp = 1]
  /\ At(c, "enqueue")
  /\ UNCHANGED <<app, decoded, decUsed, cropUsed, todo, pipes, stage, image, delivered, lost, unscaled, main>>

Decoder(c) ==
  \/ ~app.vpl /\ \/ DecodeFrame(c) \/ FillPacket(c) \/ Scale(c)
                 \/ ScaleWantsMore(c) \/ ScaleWantsSurface(c) \/ ScaleFails(c)
  \/ app.vpl /\ (DecodeVpl(c) \/ FillVpl(c) \/ NoPacketVpl(c) \/ CopyVpl(c))
  \/ SendFrame(c) \/ EndDecoding(c)

-----------------------------------------------------------------------------
(* Mutant: an empty packet is not given back. *)
Acquire_EmptyKept(s) ==
  LET p == Head(filled[s])
      t == BlockOf(s)
      images == ImagesFor(app.blocks[s], p)
  IN /\ pc[t] = "input" /\ ~Closed(s)
     /\ filled[s] # <<>> /\ Waits(s)
     /\ filled' = [filled EXCEPT ![s] = Tail(@)]
     /\ IF IsEmpty(p) THEN UNCHANGED <<free, stage>>
        ELSE /\ free' = [free EXCEPT ![s] = @ + 1]
             /\ inside' = [inside EXCEPT ![s] = Append(@, p)]
             /\ part' = [part EXCEPT ![s] = (@ + images) % Batch(s)]
     /\ UNCHANGED <<app, pc, hand, decoded, pools, todo, image, delivered, lost, unscaled, main>>

(* Mutant: a packet without an image does not wait for those before it. *)
Acquire_Overtakes(s) ==
  LET p == Head(filled[s])
      t == BlockOf(s)
      images == ImagesFor(app.blocks[s], p)
  IN /\ pc[t] = "input" /\ ~Closed(s)
     /\ filled[s] # <<>> /\ Waits(s)
     /\ filled' = [filled EXCEPT ![s] = Tail(@)]
     /\ free' = [free EXCEPT ![s] = @ + 1]
     /\ IF IsEmpty(p) THEN UNCHANGED stage
        ELSE /\ inside' = [inside EXCEPT ![s] = IF images = 0 THEN <<p>> \o @ ELSE Append(@, p)]
             /\ part' = [part EXCEPT ![s] = (@ + images) % Batch(s)]
     /\ UNCHANGED <<app, pc, hand, decoded, pools, todo, image, delivered, lost, unscaled, main>>

(* InferenceThreadBlock::Loop: a packet that is empty is given back; any    *)
(* other is given back as well, but what was in it is kept.                 *)
Acquire(s) ==
  LET p == Head(filled[s])
      t == BlockOf(s)
      images == ImagesFor(app.blocks[s], p)
  IN /\ pc[t] = "input" /\ ~Closed(s)
     /\ filled[s] # <<>> /\ Waits(s)
     /\ filled' = [filled EXCEPT ![s] = Tail(@)]
     /\ free' = [free EXCEPT ![s] = @ + 1]
     /\ IF IsEmpty(p) THEN UNCHANGED stage
        ELSE /\ inside' = [inside EXCEPT ![s] = Append(@, p)]
             /\ part' = [part EXCEPT ![s] = (@ + images) % Batch(s)]
     /\ UNCHANGED <<app, pc, hand, decoded, pools, todo, image, delivered, lost, unscaled, main>>

(* One result for each picture that was scaled up. *)
Upscaled(p) == [p EXCEPT !.res = p.vp]

(* What is in the packet, once the results are attached. *)
WithResults(s, p) ==
  IF app.blocks[s] = "detector" /\ ImagesFor("detector", p) > 0
    THEN {[p EXCEPT !.rois = n] : n \in app.rois}
  ELSE IF IsUpscaler(s) THEN {Upscaled(p)} ELSE {p}

(* VASinkPin::Store and VACsvWriterPin::Store: SetRef(0) for all objects. *)
Sink(p) ==
  /\ decUsed' = [decUsed EXCEPT ![p.chan] = @ - p.dec]
  /\ vpUsed' = [vpUsed EXCEPT ![p.chan] = @ - p.vp]
  /\ cropUsed' = cropUsed - p.crops
  /\ delivered' = [delivered EXCEPT ![p.chan] = p.frame]
  /\ UNCHANGED pipes

(* Translate makes the picture from the result tensors, in the one buffer   *)
(* that the first call allocated; then the packet can be sent.              *)
Translate(s) ==
  /\ pc[BlockOf(s)] = "input" /\ ~Stopped(BlockOf(s))
  /\ IsUpscaler(s) /\ MayLeave(s) /\ Head(inside[s]).vp = 1
  /\ image' = Head(inside[s]).frame
  /\ At(BlockOf(s), "output")
  /\ UNCHANGED <<app, hand, decoded, pools, todo, pipes, stage, delivered, lost, unscaled, main>>

(* DequeueOutput and EnqueueOutput of the first packet inside. *)
Release(s) ==
  /\ MayLeave(s) /\ ~Stopped(BlockOf(s))
  /\ pc[BlockOf(s)] = IF IsUpscaler(s) /\ Head(inside[s]).vp = 1 THEN "output" ELSE "input"
  /\ \E p \in WithResults(s, Head(inside[s])) :
       IF IsLast(s) THEN Sink(p)
       ELSE /\ free[s + 1] > 0
            /\ free' = [free EXCEPT ![s + 1] = @ - 1]
            /\ EnqueueOutput(BlockOf(s), s + 1, p)
            /\ UNCHANGED <<pools, delivered>>
  /\ inside' = [inside EXCEPT ![s] = Tail(@)]
  /\ At(BlockOf(s), "input")
  /\ UNCHANGED <<app, hand, decoded, todo, part, image, lost, unscaled, main>>

(* The block polls for results until one more packet may leave, or does not *)
(* keep what has no image and nothing before it.                            *)
MustLeave(s) == ~Waits(s) \/ ImagesFor(app.blocks[s], Head(inside[s])) = 0

EndInference(s) ==
  /\ pc[BlockOf(s)] \in {"input", "output"} /\ Stopped(BlockOf(s))
  /\ At(BlockOf(s), "ended")
  /\ UNCHANGED <<app, hand, decoded, pools, todo, pipes, stage, image, delivered, lost, unscaled, main>>

-----------------------------------------------------------------------------
(* CropThreadBlock::Loop and EncodeThreadBlock::Loop: AcquireInput, then    *)
(* DequeueOutput.                                                           *)
TakeInput(s) ==
  LET t == BlockOf(s)
  IN /\ pc[t] = "input" /\ ~Closed(s) /\ filled[s] # <<>>
     /\ hand' = [hand EXCEPT ![t] = Head(filled[s])]
     /\ filled' = [filled EXCEPT ![s] = Tail(@)]
     /\ At(t, "output")
     /\ UNCHANGED <<app, decoded, pools, todo, free, stage, image, delivered, lost, unscaled, main>>

(* DequeueOutput has a packet: the sink's, or one of the next connector.    *)
HasOutput(s) == IF IsLast(s) THEN ~Stopped(BlockOf(s)) ELSE free[s + 1] > 0 /\ ~Closed(s + 1)
NoOutput(s)  == Stopped(BlockOf(s)) \/ (~IsLast(s) /\ Closed(s + 1))

(* Both packets change hands: the output is taken, the input given back.    *)
Swapped(s) == [n \in Blocks |-> free[n] + (IF n = s THEN 1 ELSE 0) - (IF n = s + 1 THEN 1 ELSE 0)]

(* Mutant: the input packet is not given back. *)
CropOutput_NoRelease(s) ==
  LET t == BlockOf(s)
  IN /\ pc[t] = "output" /\ HasOutput(s)
     /\ free' = [Swapped(s) EXCEPT ![s] = free[s]]
     /\ todo' = hand[t].rois
     /\ At(t, "crop")
     /\ UNCHANGED <<app, hand, decoded, pools, filled, stage, image, delivered, lost, unscaled, main>>

(* With both packets, what is not needed goes from one to the other, and    *)
(* the input packet is given back.  (A packet without a decoded frame,      *)
(* which the code would drop, and an empty one, which would end its loop,   *)
(* do not come here: AppAssumption, Acquire.)                               *)
CropOutput(s) ==
  LET t == BlockOf(s)
  IN /\ pc[t] = "output" /\ HasOutput(s)
     /\ free' = Swapped(s)
     /\ todo' = hand[t].rois
     /\ At(t, "crop")
     /\ UNCHANGED <<app, hand, decoded, pools, filled, stage, image, delivered, lost, unscaled, main>>

(* Mutant: a buffer is taken although none is free. *)
CropRoi_NoFree(s) ==
  LET t == BlockOf(s)
  IN /\ pc[t] = "crop" /\ todo > 0 /\ ~Stopped(t)
     /\ cropUsed' = cropUsed + 1
     /\ todo' = todo - 1
     /\ hand' = [hand EXCEPT ![t].crops = @ + 1]
     /\ UNCHANGED <<app, pc, decoded, decUsed, vpUsed, pipes, stage, image, delivered, lost, unscaled, main>>

(* An object is cropped into a free buffer. *)
CropRoi(s) ==
  LET t == BlockOf(s)
  IN /\ pc[t] = "crop" /\ todo > 0 /\ ~Stopped(t) /\ cropUsed < CropBuffers
     /\ cropUsed' = cropUsed + 1
     /\ todo' = todo - 1
     /\ hand' = [hand EXCEPT ![t].crops = @ + 1]
     /\ UNCHANGED <<app, pc, decoded, decUsed, vpUsed, pipes, stage, image, delivered, lost, unscaled, main>>

(* Mutant: the decoded surface is not dereferenced. *)
CropSend_NoDeRef(s) ==
  LET t == BlockOf(s)
  IN /\ pc[t] = "crop" /\ todo = 0
     /\ IF IsLast(s) /\ ~Stopped(t) THEN Sink(hand[t])
        ELSE /\ EnqueueOutput(t, s + 1, [hand[t] EXCEPT !.dec = 0])
             /\ UNCHANGED <<pools, delivered, free>>
     /\ hand' = [hand EXCEPT ![t] = NoFrame]
     /\ At(t, "input")
     /\ UNCHANGED <<app, decoded, todo, stage, image, lost, unscaled, main>>

(* The decoded surface is dereferenced, the packet sent. *)
CropSend(s) ==
  LET t == BlockOf(s)
  IN /\ pc[t] = "crop" /\ todo = 0
     /\ IF IsLast(s) /\ ~Stopped(t) THEN Sink(hand[t])
        ELSE /\ decUsed' = [decUsed EXCEPT ![hand[t].chan] = @ - hand[t].dec]
             /\ EnqueueOutput(t, s + 1, [hand[t] EXCEPT !.dec = 0])
             /\ UNCHANGED <<vpUsed, cropUsed, delivered, free>>
     /\ hand' = [hand EXCEPT ![t] = NoFrame]
     /\ At(t, "input")
     /\ UNCHANGED <<app, decoded, todo, stage, image, lost, unscaled, main>>

EndCrop(s) ==
  LET t == BlockOf(s)
  IN /\ \/ pc[t] = "input" /\ (Closed(s) \/ Stopped(t))
        \/ pc[t] = "output" /\ NoOutput(s)
        \/ pc[t] = "crop" /\ todo > 0 /\ Stopped(t)
     /\ At(t, "ended")
     /\ UNCHANGED <<app, hand, decoded, pools, todo, pipes, stage, image, delivered, lost, unscaled, main>>

-----------------------------------------------------------------------------
(* DummyObjectDetection::Loop of DecodeCrop_test, which adds one region to  *)
(* every packet.  (One that is empty it would drop together with its output *)
(* packet.)                                                                 *)
DetectOutput(s) ==
  LET t == BlockOf(s)
  IN /\ pc[t] = "output" /\ HasOutput(s)
     /\ free' = Swapped(s)
     /\ hand' = [hand EXCEPT ![t].rois = 1]
     /\ At(t, "send")
     /\ UNCHANGED <<app, decoded, pools, todo, filled, stage, image, delivered, lost, unscaled, main>>

DetectSend(s) ==
  LET t == BlockOf(s)
  IN /\ pc[t] = "send"
     /\ EnqueueOutput(t, s + 1, hand[t])
     /\ hand' = [hand EXCEPT ![t] = NoFrame]
     /\ At(t, "input")
     /\ UNCHANGED <<app, decoded, pools, todo, free, stage, image, delivered, lost, unscaled, main>>

EndDetect(s) ==
  LET t == BlockOf(s)
  IN /\ \/ pc[t] = "input" /\ (Closed(s) \/ Stopped(t))
        \/ pc[t] = "output" /\ NoOutput(s)
     /\ At(t, "ended")
     /\ UNCHANGED <<app, hand, decoded, pools, todo, pipes, stage, image, delivered, lost, unscaled, main>>

-----------------------------------------------------------------------------
(* EncodeThreadBlock::Loop, with the packet of the sink.  What has the size *)
(* of the encoder's output is to be encoded: the result of the upscaler.    *)
CanBeProcessed(p) == p.res = 1

(* The input packet is given back, and what is not to be encoded goes on.   *)
EncodeOutput(s) ==
  LET t == BlockOf(s)
  IN /\ pc[t] = "output" /\ ~Stopped(t)
     /\ free' = [free EXCEPT ![s] = @ + 1]
     /\ At(t, "encode")
     /\ UNCHANGED <<app, hand, decoded, pools, todo, filled, stage, image, delivered, lost, unscaled, main>>

(* The result is copied and encoded, or kept by the encoder (MORE_DATA), or *)
(* there is none, or an earlier error (sts) makes the encoder skip it:      *)
(* the packet goes to the sink without it.                                  *)
Encode(s) ==
  LET t == BlockOf(s)
  IN /\ pc[t] = "encode"
     /\ IF Stopped(t) THEN UNCHANGED <<pools, delivered, pipes>> ELSE Sink(hand[t])
     /\ hand' = [hand EXCEPT ![t] = NoFrame]
     /\ At(t, "input")
     /\ UNCHANGED <<app, decoded, todo, stage, image, lost, unscaled, main>>

(* The synchronisation fails: Loop returns with the packet. *)
EncodeFails(s) ==
  LET t == BlockOf(s)
  IN /\ pc[t] = "encode" /\ CanBeProcessed(hand[t])
     /\ At(t, "ended")
     /\ UNCHANGED <<app, hand, decoded, pools, todo, pipes, stage, image, delivered, lost, unscaled, main>>

EndEncode(s) ==
  LET t == BlockOf(s)
  IN /\ \/ pc[t] = "input" /\ (Closed(s) \/ Stopped(t))
        \/ pc[t] = "output" /\ Stopped(t)
     /\ At(t, "ended")
     /\ UNCHANGED <<app, hand, decoded, pools, todo, pipes, stage, image, delivered, lost, unscaled, main>>

-----------------------------------------------------------------------------
(* The main thread: ReportPeriodly returns at some time, StopAllThreads     *)
(* stops the blocks in the order of their Prepare and then joins them.      *)
Stop ==
  /\ stops < Cardinality(Threads)
  /\ stops' = stops + 1
  /\ UNCHANGED <<app, pc, hand, decoded, pools, todo, pipes, stage, image, delivered, lost, unscaled, joined>>

Join ==
  /\ stops = Cardinality(Threads) /\ joined < stops
  /\ pc[joined + 1] = "ended"
  /\ joined' = joined + 1
  /\ UNCHANGED <<app, pc, hand, decoded, pools, todo, pipes, stage, image, delivered, lost, unscaled, stops>>

Crop(s)      == TakeInput(s) \/ CropOutput(s) \/ CropRoi(s) \/ CropSend(s) \/ EndCrop(s)
Dummy(s)     == TakeInput(s) \/ DetectOutput(s) \/ DetectSend(s) \/ EndDetect(s)
Encoder(s)   == TakeInput(s) \/ EncodeOutput(s) \/ Encode(s) \/ EncodeFails(s) \/ EndEncode(s)
Inference(s) == Acquire(s) \/ Translate(s) \/ Release(s) \/ EndInference(s)

IsInference(s) == app.blocks[s] \notin {"crop", "encoder", "dummy"}

Next ==
  \/ \E c \in Channels : Decoder(c)
  \/ \E s \in Blocks : \/ IsInference(s) /\ Inference(s)
                       \/ app.blocks[s] = "crop" /\ Crop(s)
                       \/ app.blocks[s] = "encoder" /\ Encoder(s)
                       \/ app.blocks[s] = "dummy" /\ Dummy(s)
  \/ Stop \/ Join

Spec == Init /\ [][Next]_vars

(* Every thread runs.  An inference block need not hand over more than it   *)
(* must; a stop that has begun goes on.                                     *)
FairSpec ==
  /\ Spec
  /\ \A t \in 1 .. 5 :
       /\ WF_vars(t \in Channels /\ Decoder(t))
       /\ WF_vars(t \in Blocks /\ app.blocks[t] = "crop" /\ Crop(t))
       /\ WF_vars(t \in Blocks /\ app.blocks[t] = "encoder" /\ Encoder(t))
       /\ WF_vars(t \in Blocks /\ app.blocks[t] = "dummy" /\ Dummy(t))
       /\ WF_vars(t \in Blocks /\ IsInference(t) /\ (Acquire(t) \/ Translate(t) \/ EndInference(t)))
       /\ WF_vars(t \in Blocks /\ IsInference(t) /\ inside[t] # <<>> /\ MustLeave(t) /\ Release(t))
  /\ WF_vars(stops > 0 /\ Stop)
  /\ WF_vars(Join)

-----------------------------------------------------------------------------
TypeOK ==
  /\ pc \in [Threads -> {"top", "dequeue", "vpp", "enqueue", "last", "ended", "crashed",
                         "input", "output", "crop", "send", "encode"}]
  /\ image \in 0 .. app.frames
  /\ \A c \in Channels : (~app.vpl => decUsed[c] \in 0 .. app.surfaces) /\ vpUsed[c] \in 0 .. app.surfaces
  /\ cropUsed \in 0 .. CropBuffers
  /\ \A s \in Blocks : free[s] \in 0 .. app.packets /\ Len(filled[s]) <= app.packets
  /\ stops \in 0 .. Cardinality(Threads) /\ joined \in 0 .. stops

(* The packets behind the decoders, from the sink backwards: in each block  *)
(* and in the connector before it.                                          *)
Held(t) == IF hand[t] = NoFrame THEN <<>> ELSE <<hand[t]>>
In(s)   == IF IsInference(s) THEN inside[s] ELSE Held(BlockOf(s))

(* (No application has more than three blocks.)                             *)
Place(s) == IF s \in Blocks THEN In(s) \o filled[s] ELSE <<>>

Line == Place(3) \o Place(2) \o Place(1)

(***************************************************************************)
(* The frames of a channel stay in order, over two queues, two inference   *)
(* blocks that hold some back and a crop block, and none is lost, or sent  *)
(* twice: between the sink and the decoder are all that were taken and     *)
(* have not been delivered.  (Scaled by the decoder, or not scaled because *)
(* the VPP wanted another surface, a frame in which no object is found     *)
(* leaves the crop block with nothing, and is dropped.)                    *)
(***************************************************************************)
Ordered(packets) ==
  \A i, j \in DOMAIN packets :
    i < j /\ packets[i].chan = packets[j].chan => packets[i].frame < packets[j].frame

FramesOf(c) == {p.frame : p \in {q \in Range(Line) : q.chan = c /\ ~IsEmpty(q) /\ <<c, q.frame>> \notin unscaled}}

Sends(n) == app.vpl \/ Selected(n)

Due(c) ==
  {n \in 1 .. decoded[c] - 1 :
     /\ n > delivered[c] /\ Sends(n) /\ <<c, n>> \notin unscaled
     /\ \A p \in Range(lost) : p.chan = c => p.frame # n}

KeepsPicture == app.vpp \/ Len(app.blocks) = 1

InOrder ==
  stops = 0 =>
    /\ Ordered(Line)
    /\ KeepsPicture => \A c \in Channels : FramesOf(c) \in {Due(c), Due(c) \union {decoded[c]}}

(***************************************************************************)
(* Every packet of a connector is free, filled, or in the hands of one     *)
(* thread, or it is one that the decoder did not enqueue because of the    *)
(* VPP: no other path through the loops forgets to give back or to send.   *)
(***************************************************************************)
(* The decoders that fill one, and what the loops of the blocks hold of     *)
(* their input and of their output.                                         *)
FillOne  == {c \in Channels : hand[c] # NoFrame}
Takes(s) == IF ~IsInference(s) /\ pc[BlockOf(s)] = "output" THEN 1 ELSE 0
Fills(s) == IF s = 1 THEN Cardinality(FillOne)
            ELSE IF pc[BlockOf(s - 1)] \in {"crop", "send"} THEN 1 ELSE 0

Accounted(s) ==
  free[s] + Len(filled[s]) + Takes(s) + Fills(s) + (IF s = 1 THEN Len(lost) ELSE 0)

PacketsConserved ==
  stops = 0 => \A s \in Blocks : Accounted(s) = app.packets

(***************************************************************************)
(* A surface has a counter above 0 exactly while a packet in the pipeline  *)
(* has an object made from it, so that it comes back to its pool with the  *)
(* last of them (and is lost with a packet that is lost).                  *)
(***************************************************************************)
Packets == [chan : Nat, frame : Nat, dec : {0, 1}, vp : {0, 1}, rois : Nat, crops : Nat, res : {0, 1}]

DecSurfaces(c) == [p \in Packets |-> IF p.chan = c THEN p.dec ELSE 0]
VpSurfaces(c)  == [p \in Packets |-> IF p.chan = c THEN p.vp ELSE 0]
CropSurfaces   == [p \in Packets |-> p.crops]

(* How many of them are in a sequence of packets. *)
Count(surfaces, packets) ==
  LET upTo[n \in 0 .. Len(packets)] == IF n = 0 THEN 0 ELSE upTo[n - 1] + surfaces[packets[n]]
  IN upTo[Len(packets)]

Everything(c) == Line \o Held(c) \o lost

SurfacesConserved ==
  stops = 0 =>
    /\ \A c \in Channels : /\ decUsed[c] = Count(DecSurfaces(c), Everything(c))
                           /\ vpUsed[c] = Count(VpSurfaces(c), Everything(c))
    /\ cropUsed = Count(CropSurfaces, Line)

(***************************************************************************)
(* A decoder that waits for a surface or a packet gets one: what the       *)
(* blocks hold back leaves enough in the pools.  The exceptions: packets   *)
(* without an image, which an inference block keeps while the last one     *)
(* with an image waits for its batch, in any number; and all packets of    *)
(* the connector lost to the VPP, or the encoder's loop left by an error.  *)
(***************************************************************************)
Starved(c) ==
  \/ pc[c] = "top" /\ decoded[c] < app.frames /\ ~app.vpl /\ decUsed[c] = app.surfaces
  \/ pc[c] = "vpp" /\ vpUsed[c] = app.surfaces
  \/ pc[c] = "dequeue" /\ free[1] = 0

KeepsWithoutImage ==
  \E s \in Blocks : IsInference(s) /\ \E i \in DOMAIN inside[s] : ImagesFor(app.blocks[s], inside[s][i]) = 0

Flows ==
  \A c \in 1 .. 2 :
    (c \in Channels /\ Starved(c)) ~>
      (~Starved(c) \/ KeepsWithoutImage \/ Len(lost) = app.packets \/ stops > 0
         \/ \E s \in Blocks : pc[BlockOf(s)] = "ended")

(***************************************************************************)
(* StopAllThreads returns: whatever each thread is doing or waiting for    *)
(* when the stop comes, and although the blocks are stopped one after the  *)
(* other, every thread leaves its loop and is joined.  The exceptions are  *)
(* those of the oneVPL decoder: it uses the packet that it did not get, or *)
(* waits for a buffer that nobody gives back any more.                     *)
(***************************************************************************)
AllStopped == stops = Cardinality(Threads)

StuckVpl ==
  /\ app.vpl
  /\ \E c \in Channels : \/ pc[c] = "crashed"
                         \/ AllStopped /\ pc[c] = "vpp" /\ vpUsed[c] = app.surfaces

StopEnds == stops > 0 ~> (joined = Cardinality(Threads) \/ StuckVpl)

(***************************************************************************)
(* SamplePipeline.cpp 349 makes the pools as large as "two inference       *)
(* after" need: a decoder never waits for a surface for ever, unless some  *)
(* block could send a packet.                                              *)
(***************************************************************************)
PoolsSuffice ==
  \A c \in 1 .. 2 :
    (c \in Channels /\ Starved(c)) ~>
      (~Starved(c) \/ stops > 0 \/ \E s \in Blocks : IsInference(s) /\ MayLeave(s))

(***************************************************************************)
(* "one roi creates one output" (InferenceSISR.cpp:300, InferenceRCAN.cpp: *)
(* 289): when the encoder is about to copy the picture of a frame, the     *)
(* buffer that the result points to holds that frame's picture.            *)
(***************************************************************************)
OwnImage ==
  \A s \in Blocks :
    app.blocks[s] = "encoder" /\ pc[BlockOf(s)] = "encode" /\ hand[BlockOf(s)].res = 1
      => image = hand[BlockOf(s)].frame
=============================================================================
