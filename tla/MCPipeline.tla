----------------------------- MODULE MCPipeline -----------------------------
(* The applications, as their main builds them, with small pools. *)
EXTENDS Pipeline

(* SamplePipeline: decoded and scaled surface in each packet.  Streams that *)
(* are longer than the pools, with an object in every frame; and short ones *)
(* with any number of objects.                                              *)
Sample ==
  [channels |-> 1, frames |-> 6, surfaces |-> 5, packets |-> 1, ratio |-> 1, dec |-> 1,
   vpp |-> TRUE, rois |-> {1}, blocks |-> <<"detector", "crop", "classifier">>, vpl |-> FALSE,
   order |-> <<1, 2, 3>>, maxLost |-> 0]

SampleObjects == [Sample EXCEPT !.frames = 3, !.packets = 2, !.rois = {0, 2}, !.maxLost = 1]

(* SamplePipeline: scaled by the decoder, so that only the objects are left *)
(* of a frame whose decoded surface is dereferenced.                        *)
SampleSFC == [SampleObjects EXCEPT !.vpp = FALSE]

(* ObjectDetection: scaled by the VPP, every second frame. *)
Detection ==
  [channels |-> 2, frames |-> 4, surfaces |-> 3, packets |-> 2, ratio |-> 2, dec |-> 0,
   vpp |-> TRUE, rois |-> {0}, blocks |-> <<"detector">>, vpl |-> FALSE,
   order |-> <<1>>, maxLost |-> 1]

(* ObjectDetection: scaled by the decoder. *)
DetectionSFC == [Detection EXCEPT !.ratio = 1, !.dec = 1, !.vpp = FALSE]

(* Decode_SR_Encode: decoded and scaled surface, every frame. *)
Transcode ==
  [channels |-> 1, frames |-> 4, surfaces |-> 3, packets |-> 2, ratio |-> 1, dec |-> 1,
   vpp |-> TRUE, rois |-> {0}, blocks |-> <<"upscaler", "encoder">>, vpl |-> FALSE,
   order |-> <<1, 2>>, maxLost |-> 1]

(* DecodeCropTestVpl with -crop: the dummy detector is prepared last. *)
DecodeCrop ==
  [channels |-> 1, frames |-> 4, surfaces |-> 2, packets |-> 2, ratio |-> 1, dec |-> 1,
   vpp |-> TRUE, rois |-> {1}, blocks |-> <<"dummy", "crop">>, vpl |-> TRUE, order |-> <<2, 1>>,
   maxLost |-> 0]

AllApps == {Sample, SampleObjects, SampleSFC, Detection, DetectionSFC, Transcode, DecodeCrop}
Upscaling == {Transcode}

(* SamplePipeline with frames that have an object and frames that have not. *)
SampleSparse == {[Sample EXCEPT !.rois = {0, 1}]}
=============================================================================
