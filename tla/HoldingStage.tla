---------------------------- MODULE HoldingStage ----------------------------
(***************************************************************************)
(* What an inference block promises to the pipeline around it: packets     *)
(* leave in the order in which they came, each only when the batches that  *)
(* its images are in are whole, and the block asks for another packet only *)
(* when it holds no more than Hold packets with images.  The packets it    *)
(* still holds then stay for as long as no other packet comes.             *)
(***************************************************************************)
EXTENDS Naturals, Sequences, FiniteSets

CONSTANTS
  Hold,       (* packets with images that may stay in a block that waits     *)
  BatchNum,   (* images in a batch                                           *)
  MostImages  (* images in a packet, at most                                 *)

VARIABLES
  inside,   (* of each packet in the block, how many images it has           *)
  part      (* the images of the batch that is not whole yet                 *)

vars == <<inside, part>>

Images(packets) ==
  LET upTo[n \in 0 .. Len(packets)] == IF n = 0 THEN 0 ELSE upTo[n - 1] + packets[n]
  IN upTo[Len(packets)]

Init == inside = <<>> /\ part = 0

(* The block may wait for a packet. *)
Waits == Cardinality({i \in DOMAIN inside : inside[i] > 0}) <= Hold

(* The images of the first packet are all in whole batches. *)
MayLeave == inside # <<>> /\ Images(Tail(inside)) >= part

Acquire ==
  /\ Waits
  /\ \E images \in 0 .. MostImages :
       /\ inside' = Append(inside, images)
       /\ part' = (part + images) % BatchNum

Release ==
  /\ MayLeave
  /\ inside' = Tail(inside)
  /\ UNCHANGED part

Next == Acquire \/ Release

Spec == Init /\ [][Next]_vars
=============================================================================
