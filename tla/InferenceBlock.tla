---------------------------- MODULE InferenceBlock ----------------------------
(***************************************************************************)
(* InferenceThreadBlock::Loop around InferenceOV.  The block takes packets *)
(* from its input pin, inserts the images in them that the model can       *)
(* process, keeps the packets in recordedPackets until the results are     *)
(* there, attaches the results and hands the packets on, each to be        *)
(* followed by the packets without image that came after it.               *)
(*                                                                         *)
(* Packets are numbered in the order of their arrival (channel and frame   *)
(* index of the code).  A step is a call of the engine, of a pin, or the   *)
(* stretch between two of them.                                            *)
(***************************************************************************)
EXTENDS InferenceOV, Functions

CONSTANTS
  Networks,   (* for each network the packets that it may be sent: per       *)
              (* image, how many results there will be                       *)
  MostImages, (* images in a packet, at most                                 *)
  MaxPackets  (* bound: the packets that arrive                              *)

ASSUME PacketAssumption ==
  (\A network \in Networks : network \subseteq Seq(Nat)) /\ MaxPackets \in Nat

ASSUME ImagesAssumption ==
  MostImages \in Nat /\ \A network \in Networks : \A c \in network : Len(c) <= MostImages

(* A network that may find nothing in an image, a detector, is sent whole   *)
(* frames; several images in a packet are for a network that has results    *)
(* for each.                                                                *)
ASSUME NetworksAssumption ==
  \A network \in Networks :
    \/ \A c \in network : Len(c) <= 1
    \/ \A c \in network : \A k \in DOMAIN c : c[k] > 0

VARIABLES
  network,        (* the network of the block (m_type, m_index): a member of *)
                  (* Networks                                                *)
  arrived,        (* the contents of the packets acquired so far             *)
  todo,           (* the images of the current packet not yet inserted       *)
  recorded,       (* recordedPackets: the results each packet has so far     *)
  hasOutputs,     (* hasOutputs                                              *)
  pendingIDs,     (* m_pendingIDs                                            *)
  lastInferID,    (* m_lastInferID                                           *)
  flags,          (* what the calls of GetOutput in this pass have told      *)
  lastSize,       (* lastSize                                                *)
  toSend,         (* packets of hasOutputs that are still to be sent now     *)
  following,      (* pending packets of the packet that was sent last        *)
  needInput,      (* needInput                                               *)
  sent,           (* the packets enqueued on the output pin, with results    *)
  stop,           (* m_stop                                                  *)
  pc              (* where the block's thread is                             *)

packets == <<recorded, hasOutputs, pendingIDs, lastInferID>>
sending == <<toSend, following>>
pass    == <<flags, lastSize>>
vars    == <<engine, network, arrived, todo, packets, pass, sending, needInput, sent, stop, pc>>

NoFlags == [inferenceFree |-> FALSE, isPendingTasks |-> TRUE, isAllWorkerBusy |-> FALSE]

Init ==
  /\ EngineInit /\ network \in Networks
  /\ arrived = <<>> /\ todo = <<>>
  /\ recorded = <<>> /\ hasOutputs = <<>> /\ pendingIDs = <<>> /\ lastInferID = 0
  /\ flags = NoFlags /\ lastSize = 0
  /\ toSend = 0 /\ following = <<>>
  /\ needInput = TRUE
  /\ sent = <<>>
  /\ stop = FALSE
  /\ pc = "input"

-----------------------------------------------------------------------------
(* f without the key k, and f with k set to v: the erase and operator[] of  *)
(* the two maps.                                                            *)
Erase(f, k) == Restrict(f, DOMAIN f \ {k})
Set(f, k, v) == [i \in DOMAIN f \union {k} |-> IF i = k THEN v ELSE f[i]]
Get(f, k, default) == IF k \in DOMAIN f THEN f[k] ELSE default

(* The top of the loop of Loop: m_stop ends it. *)
Continue(need) ==
  /\ needInput' = need
  /\ pc' = IF need THEN "input" ELSE "collect"

(* A packet with no image goes straight to the next block if no packet that *)
(* was inserted is still here; otherwise it is recorded, and is pending on  *)
(* the last one that was inserted.  (A packet with no object at all, unlike *)
(* one with objects but no image, <<>>, is given back and forgotten: see    *)
(* Pipeline.)                                                               *)
AcquireInput ==
  LET id == Len(arrived) + 1
  IN /\ pc = "input" /\ ~stop /\ Len(arrived) < MaxPackets
     /\ \E c \in network :
          /\ arrived' = Append(arrived, c)
          /\ \/ /\ c = <<>> /\ DOMAIN pendingIDs = {}
                /\ pc' = "direct"
                /\ UNCHANGED <<todo, packets>>
             \/ /\ c = <<>> /\ DOMAIN pendingIDs # {}
                /\ recorded' = Set(recorded, id, 0)
                /\ pendingIDs' = Set(pendingIDs, lastInferID,
                                     Append(Get(pendingIDs, lastInferID, <<>>), id))
                /\ pc' = "collect"
                /\ UNCHANGED <<todo, hasOutputs, lastInferID>>
             \/ /\ c # <<>>
                /\ recorded' = Set(recorded, id, 0)
                /\ todo' = c
                /\ pc' = "insert"
                /\ UNCHANGED <<hasOutputs, pendingIDs, lastInferID>>
     /\ UNCHANGED <<engine, network, pass, sending, needInput, sent, stop>>

(* DequeueOutput and EnqueueOutput of the packet that needs no inference. *)
SendDirect ==
  /\ pc = "direct"
  /\ sent' = Append(sent, [id |-> Len(arrived), results |-> 0])
  /\ pc' = "input"
  /\ UNCHANGED <<engine, network, arrived, todo, packets, pass, sending, needInput, stop>>

(* InsertImage waits for a request. *)
InsertWaits ==
  /\ pc = "insert"
  /\ MakeRoom
  /\ UNCHANGED <<network, arrived, todo, packets, pass, sending, needInput, sent, stop, pc>>

Insert ==
  LET id == Len(arrived)
  IN /\ pc = "insert"
     /\ InsertImage([id |-> id, found |-> Head(todo)])
     /\ todo' = Tail(todo)
     /\ lastInferID' = id
     /\ pendingIDs' = Set(pendingIDs, id, Get(pendingIDs, id, <<>>))
     /\ pc' = IF Len(todo) = 1 THEN "collect" ELSE "insert"
     /\ UNCHANGED <<network, arrived, recorded, hasOutputs, pass, sending, needInput, sent, stop>>

(* Mutant: lastSize is not updated. *)
Collect_LastSizeKept ==
  /\ pc = "collect" /\ ~stop
  /\ GetOutput
  /\ flags' = [inferenceFree   |-> flags.inferenceFree \/ Returned < 0,
               isPendingTasks  |-> flags.isPendingTasks /\ Returned # -1,
               isAllWorkerBusy |-> flags.isAllWorkerBusy \/ Returned = 2]
  /\ pc' = IF Len(datas') = lastSize THEN "attach" ELSE pc
  /\ UNCHANGED <<network, arrived, todo, packets, lastSize, sending, needInput, sent, stop>>

(* GetOutput, again and again while it brings results. *)
Collect ==
  /\ pc = "collect" /\ ~stop
  /\ GetOutput
  /\ flags' = [inferenceFree   |-> flags.inferenceFree \/ Returned < 0,
               isPendingTasks  |-> flags.isPendingTasks /\ Returned # -1,
               isAllWorkerBusy |-> flags.isAllWorkerBusy \/ Returned = 2]
  /\ IF Len(datas') = lastSize THEN pc' = "attach" /\ UNCHANGED lastSize
     ELSE lastSize' = Len(datas') /\ UNCHANGED pc
  /\ UNCHANGED <<network, arrived, todo, packets, sending, needInput, sent, stop>>

-----------------------------------------------------------------------------
(* One pass over the images that came back: the frame of each is pushed to  *)
(* hasOutputs unless it is the last one there, and takes the results at the *)
(* head of what is left that are its own.                                   *)
PushOutput(queue, id) ==
  IF queue # <<>> /\ Last(queue) = id THEN queue ELSE Append(queue, id)

Pushed(queue, back) ==
  LET f[j \in 0 .. Len(back)] == IF j = 0 THEN queue ELSE PushOutput(f[j - 1], back[j])
  IN f[Len(back)]

(* Behind the results that follow the j-th without a gap and are for id.    *)
Run(j, id) ==
  CHOOSE n \in j .. Len(datas) :
    /\ \A k \in j + 1 .. n : datas[k] = id
    /\ n < Len(datas) => datas[n + 1] # id

Matched ==
  LET f[j \in 0 .. Len(ids)] == IF j = 0 THEN 0 ELSE Run(f[j - 1], ids[j]) IN f[Len(ids)]
ResultsOf(id) == Cardinality({k \in 1 .. Matched : datas[k] = id})

(* Mutant: the last packet is sent when no request is busy, though a batch  *)
(* has been begun.                                                          *)
Attach_IgnoresBatch ==
  LET queue == Pushed(hasOutputs, ids)
      count == Len(queue) - (IF flags.inferenceFree THEN 0 ELSE 1)
  IN /\ pc = "attach"
     /\ hasOutputs' = queue
     /\ recorded' = [id \in DOMAIN recorded \union Range(ids) |->
                       Get(recorded, id, 0) + ResultsOf(id)]
     /\ IF queue = <<>>
          THEN /\ Continue(flags.inferenceFree \/ ~flags.isAllWorkerBusy)
               /\ UNCHANGED toSend
          ELSE /\ toSend' = count
               /\ needInput' = ~(count = 0 /\ ~flags.inferenceFree /\ flags.isAllWorkerBusy)
               /\ pc' = "send"
     /\ datas' = <<>> /\ ids' = <<>> /\ flags' = NoFlags /\ lastSize' = 0
     /\ UNCHANGED <<requests, images, batchIndex, internal, network, arrived, todo,
                    pendingIDs, lastInferID, following, sent, stop>>

(* Mutant: packets are sent in pairs. *)
Attach_InPairs ==
  LET queue == Pushed(hasOutputs, ids)
      ready == Len(queue) - (IF flags.inferenceFree /\ ~flags.isPendingTasks THEN 0 ELSE 1)
      count == ready - (ready % 2)
  IN /\ pc = "attach"
     /\ hasOutputs' = queue
     /\ recorded' = [id \in DOMAIN recorded \union Range(ids) |->
                       Get(recorded, id, 0) + ResultsOf(id)]
     /\ IF queue = <<>>
          THEN /\ Continue(flags.inferenceFree \/ ~flags.isAllWorkerBusy)
               /\ UNCHANGED toSend
          ELSE /\ toSend' = count
               /\ needInput' = ~(count = 0 /\ ~flags.inferenceFree /\ flags.isAllWorkerBusy)
               /\ pc' = "send"
     /\ datas' = <<>> /\ ids' = <<>> /\ flags' = NoFlags /\ lastSize' = 0
     /\ UNCHANGED <<requests, images, batchIndex, internal, network, arrived, todo,
                    pendingIDs, lastInferID, following, sent, stop>>

(* The last packet of hasOutputs is kept, because results may follow for    *)
(* it, unless the engine has nothing left.                                  *)
Attach ==
  LET queue == Pushed(hasOutputs, ids)
      count == Len(queue) - (IF flags.inferenceFree /\ ~flags.isPendingTasks THEN 0 ELSE 1)
  IN /\ pc = "attach"
     /\ hasOutputs' = queue
     /\ recorded' = [id \in DOMAIN recorded \union Range(ids) |->
                       Get(recorded, id, 0) + ResultsOf(id)]
     /\ IF queue = <<>>
          THEN /\ Continue(flags.inferenceFree \/ ~flags.isAllWorkerBusy)
               /\ UNCHANGED toSend
          ELSE /\ toSend' = count
               /\ needInput' = ~(count = 0 /\ ~flags.inferenceFree /\ flags.isAllWorkerBusy)
               /\ pc' = "send"
     /\ datas' = <<>> /\ ids' = <<>> /\ flags' = NoFlags /\ lastSize' = 0
     /\ UNCHANGED <<requests, images, batchIndex, internal, network, arrived, todo,
                    pendingIDs, lastInferID, following, sent, stop>>

(* A packet whose results are there, then those pending on it. *)
Send ==
  LET id == Head(hasOutputs)
  IN /\ pc = "send" /\ toSend > 0 /\ following = <<>>
     /\ sent' = Append(sent, [id |-> id, results |-> Get(recorded, id, 0)])
     /\ hasOutputs' = Tail(hasOutputs)
     /\ recorded' = Erase(recorded, id)
     /\ following' = Get(pendingIDs, id, <<>>)
     /\ pendingIDs' = Erase(pendingIDs, id)
     /\ toSend' = toSend - 1
     /\ UNCHANGED <<engine, network, arrived, todo, lastInferID, pass, needInput, stop, pc>>

(* Mutant: pending packets are sent the newest first. *)
SendFollowing_NewestFirst ==
  LET id == Last(following)
  IN /\ pc = "send" /\ following # <<>>
     /\ sent' = Append(sent, [id |-> id, results |-> Get(recorded, id, 0)])
     /\ recorded' = Erase(recorded, id)
     /\ following' = Front(following)
     /\ UNCHANGED <<engine, network, arrived, todo, hasOutputs, pendingIDs, lastInferID, pass,
                    toSend, needInput, stop, pc>>

SendFollowing ==
  LET id == Head(following)
  IN /\ pc = "send" /\ following # <<>>
     /\ sent' = Append(sent, [id |-> id, results |-> Get(recorded, id, 0)])
     /\ recorded' = Erase(recorded, id)
     /\ following' = Tail(following)
     /\ UNCHANGED <<engine, network, arrived, todo, hasOutputs, pendingIDs, lastInferID, pass,
                    toSend, needInput, stop, pc>>

Sent ==
  /\ pc = "send" /\ toSend = 0 /\ following = <<>>
  /\ Continue(needInput)
  /\ UNCHANGED <<engine, network, arrived, todo, packets, pass, sending, sent, stop>>

-----------------------------------------------------------------------------
(* Stop, by the main thread; and the ways out of Loop: m_stop at the top of *)
(* a pass or of the collection, or DequeueOutput without a packet.  The     *)
(* packets that are still recorded are lost with it.                        *)
Stop ==
  /\ ~stop
  /\ stop' = TRUE
  /\ UNCHANGED <<engine, network, arrived, todo, packets, pass, sending, needInput, sent, pc>>

Exit ==
  /\ stop
  /\ pc \in {"input", "collect", "direct"} \/ (pc = "send" /\ (toSend > 0 \/ following # <<>>))
  /\ pc' = "ended"
  /\ UNCHANGED <<engine, network, arrived, todo, packets, pass, sending, needInput, sent, stop>>

(* What the block does by itself; packets arrive or not. *)
Working ==
  \/ SendDirect \/ InsertWaits \/ Insert \/ Collect \/ Attach
  \/ Send \/ SendFollowing \/ Sent \/ Exit

others == <<network, arrived, todo, packets, pass, sending, needInput, sent, stop, pc>>

Next == AcquireInput \/ Working \/ Stop \/ (Device /\ UNCHANGED others)

Spec == Init /\ [][Next]_vars

(* The device completes its requests and the block's thread runs. *)
FairSpec ==
  /\ Spec /\ WF_vars(Working)
  /\ \A i \in 1 .. AsyncDepth : WF_vars((Complete(i) \/ Fail(i)) /\ UNCHANGED others)

-----------------------------------------------------------------------------
TypeOK ==
  /\ EngineOK
  /\ network \in Networks
  /\ arrived \in Seq(network) /\ Len(arrived) <= MaxPackets
  /\ DOMAIN recorded \subseteq 1 .. Len(arrived)
  /\ DOMAIN pendingIDs \subseteq 1 .. Len(arrived)
  /\ lastInferID \in 0 .. Len(arrived)
  /\ toSend \in 0 .. Len(hasOutputs)
  /\ needInput \in BOOLEAN /\ stop \in BOOLEAN
  /\ pc \in {"input", "direct", "insert", "collect", "attach", "send", "ended"}

(***************************************************************************)
(* Packets leave in the order in which they arrived, none lost, none       *)
(* twice: the ones with an image after their results have come back, the   *)
(* ones without an image after the packet they are pending on.             *)
(***************************************************************************)
SentInOrder == \A i \in DOMAIN sent : sent[i].id = i

(***************************************************************************)
(* A packet leaves with all the results of all its images, although they   *)
(* may have been in several batches and several GetOutput calls.           *)
(***************************************************************************)
Total(counts) ==
  LET upTo[n \in 0 .. Len(counts)] == IF n = 0 THEN 0 ELSE upTo[n - 1] + counts[n]
  IN upTo[Len(counts)]

Due(content) == Total(content)

SentComplete == \A i \in DOMAIN sent : sent[i].results = Due(arrived[sent[i].id])

(***************************************************************************)
(* Results come back only for packets that are recorded: recordedPackets[] *)
(* never makes up a null packet, and every packet that has arrived and has *)
(* not left is recorded (or is about to leave directly).                   *)
(***************************************************************************)
RecordedIsInside ==
  /\ pc = "attach" => Range(ids) \subseteq DOMAIN recorded
  /\ Range(hasOutputs) \union Range(following) \subseteq DOMAIN recorded
  /\ pc \notin {"direct", "ended"} =>
       DOMAIN recorded = (1 .. Len(arrived)) \ {sent[i].id : i \in DOMAIN sent}

(***************************************************************************)
(* The block holds on to no more packets with an image than the engine has *)
(* places for images, one whose results may not be complete, and the one   *)
(* it is inserting: the surfaces in them are not free for the decoder.     *)
(***************************************************************************)
HeldPackets ==
  Cardinality({id \in DOMAIN recorded : arrived[id] # <<>>}) <= AsyncDepth * BatchNum + 1

(***************************************************************************)
(* A pass of the loop ends, and the block asks for its next packet or      *)
(* leaves: it does not poll the engine for ever, unless a request failed,  *)
(* which keeps its place in front of the others: if no request is free     *)
(* then, nothing ends the polling but m_stop.                              *)
(***************************************************************************)
PassEnds ==
  pc \notin {"input", "ended"}
    ~> pc \in {"input", "ended"} \/ Contains(busyRequest, "failed")

(***************************************************************************)
(* What the blocks around it may rely on (HoldingStage): packets leave one *)
(* at a time, in order, none before its images are in whole batches, and   *)
(* the block asks for a packet only when it holds few of them.             *)
(***************************************************************************)
Inside == [i \in 1 .. Len(arrived) - Len(sent) |-> Len(arrived[Len(sent) + i])]

Stage == INSTANCE HoldingStage
           WITH Hold <- AsyncDepth * BatchNum, inside <- Inside,
                part <- Total([i \in DOMAIN arrived |-> Len(arrived[i])]) % BatchNum

StageSpec == Stage!Spec
=============================================================================
