--------------------------- MODULE MCInferenceBlock ---------------------------
(* Packets for the model checker. *)
EXTENDS InferenceBlock

(* After a decoder: one image or none; a detector finds up to two objects.  *)
DetectorPackets == {<<>>, <<0>>, <<2>>}

(* After the crop block: up to three images; a classifier has one result    *)
(* for each.                                                                *)
ClassifierPackets == {<<>>, <<1>>, <<1, 1, 1>>}

DetectorAndClassifier == {DetectorPackets, ClassifierPackets}
=============================================================================
