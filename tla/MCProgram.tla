------------------------------ MODULE MCProgram ------------------------------
(* The applications, as their main builds them. *)
EXTENDS Program

(* Decode_SR_Encode: the encoder has the session of the decoder. *)
TranscodeSR ==
  [decoders |-> 1, encoder |-> TRUE, batch |-> 1, infer |-> <<"SR">>, duration |-> -1,
   countdown |-> FALSE]

(* ObjectClassification with a duration: no detector before the classifier. *)
Classification ==
  [decoders |-> 1, encoder |-> FALSE, batch |-> 2, infer |-> <<"OC">>, duration |-> 1,
   countdown |-> FALSE]

(* SamplePipeline without one: a detector and a classifier. *)
Sample == [Classification EXCEPT !.infer = <<"OD", "OC">>, !.duration = -1]

(* DecodeCrop_test. *)
DecodeCrop ==
  [decoders |-> 2, encoder |-> FALSE, batch |-> 1, infer |-> <<>>, duration |-> -1,
   countdown |-> TRUE]

AllApps == {TranscodeSR, Classification, Sample, DecodeCrop}

BlocksAndRuntime == [use : {"block", "vpp", "runtime", "coded"}, block : 1 .. 2]
=============================================================================
