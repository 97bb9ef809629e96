# Specifications of the media-analytics `va_sample` pipeline

TLA+ models of `src/va_sample`, TLC runs of them on small instances, and TLAPS
proofs about them. Source paths below are relative to `src/va_sample/src`
unless they start with `libs/` (`src/va_sample/libs`).

## 1. The system

`va_sample` is a C++ library and a set of applications that decode video,
scale it, find and classify objects in it and optionally encode or display the
result. A pipeline is a chain of *thread blocks*, each with a thread of its
own, joined by *connectors*:

    file -> Decode (one per channel) -> VAConnectorRR -> Inference (detector)
         -> VAConnectorRR -> Crop -> VAConnectorRR -> Inference (classifier)
         -> sink or CSV file

| Component | State it keeps | Operations | Interacts through |
|---|---|---|---|
| `VAConnector`, `VAConnectorRR` (`execution/Connector*.cpp`) | `m_inPipe`, `m_outPipe`, `m_mutex`, `m_cond`, the pins, `m_noInput`, `m_noOutput` | `NewInputPin`, `NewOutputPin`, `GetInput`, `StoreInput`, `GetOutput`, `StoreOutput`, `DisconnectPin`, `Trigger` | called by every block thread through its pins, and by the main thread |
| `VAConnectorDispatch` | one output list per output pin | the same | no program creates one |
| `VAData`, `VADataCleaner` (`execution/DataPacket.cpp`) | the counter of each object or of each surface, `m_destroyList` | `Create`, `SetExternalRef`, `SetRef`, `DeRef`, `Destroy`, `Add`, the cleaner's thread | data objects travel in packets; counters are shared with the block that owns the surfaces |
| `VAFilePin`, `VASinkPin`, `VACsvWriterPin` | file position; nothing | `Get`, `Store` | first and last pin of a pipeline |
| `VAThreadBlock` (`execution/ThreadBlock.*`) | `m_stop`, the two pins | `Prepare`, `Run`, `Stop`, `Join`, `RunAllThreads`, `StopAllThreads`, `DisconnectPin` | main thread against block threads |
| `DecodeThreadBlock` (`function/DecodeThreadBlock.cpp`, `DecodeThreadBlock2.cpp` for oneVPL) | `m_mfxBS`, `m_buffer`, surfaces and their counters | `ReadBitStreamData`, `GetFreeSurface`, `Loop` | file pin, decoder, connector, counters |
| `InferenceOV` (`libs/inference`) | `m_freeRequest`, `m_busyRequest`, the images in flight, internal buffers | `InsertImage`, `GetOutput` | one block thread, the device's requests |
| `InferenceThreadBlock` | `recordedPackets`, `hasOutputs`, `m_pendingIDs` | `Loop` | two connectors and the engine |
| `InferenceSISR`, `InferenceRCAN` (upscalers) | `m_outImg`, one picture | `CopyImage`, `Translate` | the inference block; results that point to the picture |
| `CropThreadBlock`, `EncodeThreadBlock`, `DisplayThreadBlock` | output buffers and counters | `PrepareInternal`, `Loop` | two connectors, counters |
| `MfxSessionMgr` | sessions and allocators by channel, the display | `GetSession`, `GetAllocator`, `Clear` | `PrepareInternal` and destructors of the blocks |
| frame allocator (`common/common.cpp`) | `allocResponses`, `allocDecodeResponses`, arrays of memory IDs | `simple_alloc`, `simple_free` | the blocks and the Media SDK runtime |
| `Statistics` | counters, `m_countdown_counter`, `_continue` | `Step`, `CountDown`, `Update`, `ReportPeriodly`, SIGINT | all blocks count, the main thread decides from it when the program ends |

What is hard in it: two mutexes and a condition variable around every
connector, while the flags they test are set without them; counters that one
thread writes under a lock and another reads without; objects deleted by a
thread of its own; results that arrive in batches, out of step with the
packets they belong to; a byte stream cut in chunks that fit nothing; a stop
that may reach a block anywhere; pools that drain if one path forgets to
return what it took. Correct means, per component:

- connector: a packet is in one place, is delivered once and in order, is
  noticed by a consumer that waits for it, and a stop releases everybody;
- data objects: a surface is not written while it is read, an object is
  destroyed once and not while it is used, nothing leaks;
- bitstream: the decoder gets the bytes of the file in order, and its end is
  its end;
- pipeline: frames keep their order and none is lost, every packet and every
  surface comes back to its pool, who waits for one gets it, a stop ends all;
- allocator: the runtime gets the surfaces that the block has, nobody else
  does, an array is whole as long as somebody has it;
- main thread: no step of a counter is lost, the program ends when it should
  and not before;
- engine and inference block: each image gets its own results in order, each
  packet leaves once, in order and complete, no pass polls for ever, and no
  more packets are held than the pools upstream can spare.

`PROJECT.json` lists all components, also those without a model, and the
hazards with the line at which each bites.

## 2. The modules

| Module | Models | Uses |
|---|---|---|
| `PacketChannel` | what a connector promises: a pool and a FIFO queue | |
| `ConnectorRR` | `VAConnector` and `VAConnectorRR`, step by step | refines `PacketChannel` |
| `BitStream` | `VAFilePin`, `ReadBitStreamData`, the reading part of `Loop` | |
| `BitStreamVpl` | `ReadBitStreamData` of the oneVPL build | extends `BitStream` |
| `DataPacket` | `VAData`, `VADataCleaner`, the owner of a surface pool, a consumer, the sink | |
| `InferenceOV` | the engine's state and operations | |
| `InferenceUser` | the engine driven as `InferenceOV_test` drives it | extends `InferenceOV` |
| `InferenceBlock` | `InferenceThreadBlock::Loop` | extends `InferenceOV` |
| `HoldingStage` | what an inference block promises to the pipeline | refined by `InferenceBlock` |
| `Pipeline` | the threads of an application: `Loop` of `DecodeThreadBlock` in both builds, of the inference blocks, `CropThreadBlock`, `EncodeThreadBlock` and the dummy detector; connectors, sink, `StopAllThreads` | instances of `HoldingStage` |
| `FrameAllocator` | `simple_alloc`, `simple_free` | |
| `Statistics` | the counters and the countdown | |
| `Program` | the main thread from the first `Prepare` to the end of `main` | extends `FrameAllocator`, `Statistics` |
| `MCInferenceBlock`, `MCPipeline`, `MCProgram` | packet contents and applications for TLC | |
| `ConnectorRR_proofs`, `BitStream_proofs`, `DataPacket_proofs`, `Program_proofs`, `Pipeline_proofs` | theorems; those of `FrameAllocator` are in `Program_proofs` | extend their module, `TLAPS` |
| `InferenceOV_proofs` | lemmas about the engine and about sequences | extends `InferenceOV`, `TLAPS` |
| `InferenceUser_proofs`, `InferenceBlock_proofs` | theorems | extend their module, `InferenceOV_proofs` |

Definitions next to a definition, named like it with an underscore and a word
(`OutPipe_NoPop`), are mutants: what the operation would be with a plausible
mistake. Nothing uses them; each shows, put in place of the operation, that a
property can tell the difference (`PROJECT.json`, "mutants").

### ConnectorRR

A pin belongs to one block, so a pin is a thread. A step is what a thread does
between two points where another thread can see or change what it works on:
`GetInput` is `GetInput` (entry), `InFlags` (the test of `m_noInput` and
`m_noOutput`), `InTrigger`, `InPop` (the pop under the lock, or the poll);
`StoreInput` is the push under the lock and then `InNotify`, because
`notify_one` is called after the lock is released; `GetOutput` is `Lock`,
`OutFlags`, `OutPin`, `OutPipe`, which pops or waits. A consumer in `m_cond.wait` is at "waiting" and has no
mutex; a notification, or a spurious wakeup, sends it back to "lock". The main
thread creates the pins, starts the blocks, and disconnects the pins one after
the other, in the four steps in which `DisconnectPin` moves the pin, sets the
flags and triggers twice.

### DataPacket

The counters are one function: `*m_ref` of an object is `count[ref[d]]`, and
`ref[d]` is a surface's counter or the object itself (`m_internalRef`). The
producer's scan of the counters is one step with any surface that reads 0;
what it can pass and what it can find is the same, because only the producer
raises a counter from 0. `DeRef` is `DeRefSubtract`, `DeRefTest`, `Destroy`,
`Push` and `Unlock`: line 282 stores the counter, line 283 tests it. The test
reads memory a second time in the source, and nothing orders it with the
producer's reads and writes, so a build may test either value; `Rereads` says
which. `Add` is `Destroy` and `Push`; the cleaner holds its mutex from
`CleanerBegin` to `CleanerEnd`. A deleted address may be allocated again.
Packets are sets; their order is `ConnectorRR`'s matter.

### BitStream

A byte is its number in the stream, so that a lost, repeated or reordered byte
shows as a wrong number. `data` is `m_mfxBS.Data` up to `DataOffset +
DataLength`, `buffer` is `m_buffer`. `ReadBegin` is the call up to its loop
(the memmove and the bytes kept from last time), `FillChunk`, `FillEos` and
`FillEnds` one pass of it. The decoder takes any number of bytes and then asks
for more. What the first call returns, in `PrepareInternal`
(`DecodeThreadBlock.cpp` 150), is not looked at, so the decoder of an empty
file starts with an empty bitstream; in `Loop` a second failure in a row is the
end (`ReturnMoreData`). `BitStreamVpl` replaces `ReadBegin` and `FillEnds` by those of the
oneVPL build.

### InferenceOV, InferenceUser, InferenceBlock

`busyRequest` is the queue of started requests with the state of each: filled
and running, done or failed. `GetOutput` takes finished batches from its head
only. Images are `[id, found]`, `found` being the number of results the
network finds in it. `InferenceBlock` has one action per stretch of `Loop`
between two calls: `AcquireInput`, `SendDirect`, `InsertWaits` and `Insert`,
`Collect` (one call of `GetOutput`), `Attach` (results to their packets and
how many packets may leave), `Send`, `SendFollowing`, `Sent`, and the exits.
`recorded` maps a packet to the number of results attached to it.
`NetworksAssumption` is what the applications guarantee: a network that may
find nothing (a detector) gets whole frames, one per packet, and one that gets
several images in a packet (a classifier behind the crop block) has results for
each. Without it `SentInOrder` fails (see finding 3). `MostImages` is any bound
on the images of a packet; only `HoldingStage` uses it.

### HoldingStage and Pipeline

`HoldingStage` says when an inference block may take a packet and when the
first packet inside may leave; `ib_loop` checks that `InferenceBlock` does
nothing else on its bounds, and `BlockIsStage` proves it (`StageSpec`). `Pipeline` puts such stages behind decoders. Its
threads are numbered in the order of their `Prepare`: that is the order in
which `StopAllThreads` stops and joins them, so "the first `stops` threads are
stopped" is all the state that needs. A connector is `free` (how many packets
can be filled) and `filled` (the contents of the others, in order), which is
`PacketChannel` with the names of the packets left out; it is closed when all
blocks on one side have been stopped. That a stop can be missed inside
`GetOutput` is `rr_stop_hang`'s matter and not repeated here.

A packet is a record: the channel, the frame, whether it has an object made
from a decode surface (`dec`) or from a VPP surface (`vp`), how many objects
were found (`rois`) and cropped (`crops`), and whether it has an upscaled
picture (`res`); it is *empty* (`IsEmpty`) when nothing is in it, as an
inference block asks with `size`. What was in the packets that no connector
got back is in `lost`, in order. `Line` is everything between the decoders and
the sink, from the sink backwards. `decUsed`, `vpUsed` and `cropUsed` count the surfaces and
buffers whose counter is above 0. `DecodeFrame` stands for all passes of the
decoder's loop until there is a frame; `FillPacket` is `DequeueOutput` with
the decoded surface; `Scale`, `ScaleWantsMore`, `ScaleWantsSurface` and
`ScaleFails` are the ways out of the VPP part; for a frame that needed another
surface the loop sends the packet without a scaled one and goes on, and
`unscaled`, a history variable, remembers it. The crop block acquires its input before it dequeues its
output, and gives the input back after that: `TakeInput`, `CropOutput`,
`CropRoi`, `CropSend`; the encoder (`EncodeOutput`, `Encode`, `EncodeFails`)
and the dummy detector of `DecodeCrop_test` (`DetectOutput`, `DetectSend`) do
the same. The upscaler is an inference block with one request for one image,
which makes its picture in `image` (`Translate`).

The oneVPL decoder is `DecodeVpl`, `FillVpl`, `NoPacketVpl` and `CopyVpl`. Its
decode surfaces belong to the runtime, and it copies each frame to one of its
own buffers (`vpUsed`). It looks at `m_stop` only at the top of its loop:
a stop that finds it waiting for a packet is a crash, since it uses the packet
that it did not get ("crashed"), and one that finds it waiting for a buffer may
leave it there.

An application gives the order in which its blocks were prepared (`order`):
`DecodeCrop_test` prepares the detector after the crop block behind it.

`InOrder` has two parts. The packets of a channel are in `Line` in the order
of their frames (`Ordered`), whatever the application. And the frames that the
line holds with a picture are exactly those that were sent and neither lost nor
delivered (`Due`), perhaps with the frame in the decoder's hands; frames that were sent
without being scaled (`unscaled`) keep their order but need not have a picture. The second
part is for applications whose packets keep their picture to the end
(`KeepsPicture`): where the decoder scales and there is no VPP, the crop block takes the
decoded surface out of each packet, and a frame without objects goes on with
nothing in it and is dropped by the classifier, as it should.

### FrameAllocator, Statistics, Program

An array is known by its address, `response->mids`; `arrays` says how many
memory IDs are in it, `objects` how many VA objects were made for it.
`AllocSaved` is the answer to the runtime from `allocDecodeResponses`,
`AllocNew` any other; `made` says how many objects the driver made before it
failed. `Free` is `simple_free` with the `_simple_free` it calls. All calls
come from the main thread and are one step each. A *holder* is somebody who
asks for one array: a block for its decoder, its VPP or its encoder, and the
runtime under each.

In `Statistics` a call of `Step`, and the update of one counter, is a step,
because each counter has a lock of its own. `countdown` is an unsigned number
(`Wrap` values); `steps` is a history of the calls.

`Program` is the main thread with `main` as its place: "session", "frames",
"vpp", "init", "coded" are the parts of a block's `PrepareInternal`, `at` is
the block. Every call can fail. `UpdateNext` updates one counter, the threads
count between two of them. `Decode`, `EndDecoder`, `Infer`, `InferOwn` and
`EndInference` are what the threads do to the counters; what else they do is
in `Pipeline`. An application may have several inference blocks; a classifier
gets images only after a detector, if there is one, has processed some
(`Before`). Blocks without frames of the Media SDK (inference, crop, detector)
are not prepared in the model: their `Prepare` changes nothing that it has, and
if it fails, main goes where it goes after a failure of the block before. The
destructors run at the end, or after a failure, in the order of the code: of
`Decode_SR_Encode`'s local objects the last declared goes first, the vectors of
blocks are cleared from the first element on. Deleting a session makes the
runtime free what it holds (`CloseFrees`). The handler of SIGINT is installed
by the constructor of `Statistics`, whose first use is after the last
`Prepare`: before that Ctrl-C kills the process (`Killed`), after it, main
leaves its loop (`Interrupt`).

## 3. The runs

| Run | Shows | Bounds |
|---|---|---|
| `rr` | packets neither lost nor shared (`PacketOwnership`), no wakeup lost before a stop (`NoLostWakeup`), the connector implements the FIFO channel (`ChannelSpec`); `GetInputReturns`, `Delivered`, `CloseIsRelayed` | one producer, two consumers, two packets |
| `rr_stop_hang` | **violated**: a consumer misses every notification of a stop (`GetOutputReturns`) | one pin per side |
| `dp_life` | a surface is written only when nobody reads it (`SlotExclusive`), if `DeRef` tests what it stored; each object goes to the cleaner once (`DestroyedOnce`) and is deleted (`Reclaimed`); surfaces come back (`SurfaceReturns`) | two objects, two surfaces, counts up to 2 |
| `bs_file` | no copy leaves its buffer (`TypeOK`), every byte once and in order, also over rewinds (`StreamInOrder`), the end is real (`EndIsReal`), every call returns (`ReadReturns`) | an empty file and one of 9 bytes, read once or endlessly (22 bytes), buffers of 4 |
| `bs_vpl` | **violated**: the oneVPL build loses the bytes it kept (`RemainingIsKept`) | a file of 13 bytes, no new read after its last byte, buffers of 4 |
| `ov_results` | results in order and complete (`ResultsInOrder`), whole batches come back (`AllHandedOver`), requests may fail | 2 requests of 2 images, 7 images |
| `ov_free` | **violated**: -1 is returned with an image still inside (`FreeMeansAll`) | 1 request, 3 images |
| `ib_loop` | packets leave in order (`SentInOrder`) and complete (`SentComplete`), results find their packet (`RecordedIsInside`), few packets are held (`HeldPackets`), every pass of `Loop` ends (`PassEnds`), and all that in the terms of `HoldingStage` (`StageSpec`); requests may fail, the block may be stopped | 2 requests of 2 images, 6 packets; a detector (one image or none in a packet, 0 or 2 results) and a classifier (0, 1 or 3 images) |
| `sp_flow` | frames stay in order from decoder to sink and none is lost (`InOrder`), packets and surfaces are all accounted for (`PacketsConserved`, `SurfacesConserved`), a decoder that waits gets what it waits for (`Flows`), a stop ends all threads (`StopEnds`) | seven applications: `SamplePipeline` with more frames than surfaces, the same with 0 or 2 objects in a frame and with scaling by the decoder, `ObjectDetection` with two channels and the VPP, and with scaling by the decoder, `Decode_SR_Encode`, the oneVPL `DecodeCrop_test`; batches of two |
| `sp_sparse` | **violated**: the decoder of `SamplePipeline` waits for ever for a surface (`PoolsSuffice`) | one channel, 6 frames, 5 surfaces |
| `sr_overwrite` | **violated**: the encoder copies the picture of another frame (`OwnImage`) | `Decode_SR_Encode`, 4 frames, connectors of 2 packets |
| `program` | counts, arrays and owners of memory (`RefCounts`, `WholeArrays`, `ArraysExclusive`, `SameSurfaces`), counters (`StepsCounted`), the countdown (`CountdownEnds`), the program ends (`ProgramEnds`) | four applications: `Decode_SR_Encode` (encoder on the decoder's session), `ObjectClassification` with a duration, `SamplePipeline` (detector and classifier) without, `DecodeCrop_test` with two decoders and the countdown; six addresses, 2 frames suggested, two steps of each counter, a counter of 4 values |

Why the bounds are enough. Two consumers are what the connector's races
need, one that takes a packet and one that sleeps beside it, and a second
packet lets packets overtake each other; two producers share nothing but the
pool, and what is proved of the connector holds for any number of both. In `DataPacket` two objects are enough for every
conflict (one dies, one takes its surface), and an address that was deleted is
used again without bound.
The buffers of `BitStream` are smaller than the file by a factor that is not
whole, so that chunks end everywhere in them; `ChunkSize = MaxLength` is what
the code has (1 MB each). In the inference modules the batch, the queue and
the internal buffers all fill up and wrap several times before `MaxImages` or
`MaxPackets` ends the run; packets of three images in batches of two put the
boundary of a batch inside a packet. In `Pipeline` a pool has one surface more
than the inference blocks together may keep (`Hold`, that is `AsyncDepth *
BatchNum`, each), the least with which anything can flow, and the stream is
longer than the pool; the applications have 4 or 8 surfaces per image of a
batch, so this stands for `-nireq` up to 3. With a larger `-nireq` the pools do not
suffice: nothing in the code sizes them by it. `maxLost`, part of the
application, is the number of frames for which the VPP wants more data or
another surface: one where there are packets to spare, none with the long
stream (its connectors have one packet, and a lost one never comes back) and
with oneVPL, whose decoder scales by itself. In `Program` a session
has up to five holders and there are six addresses, one more than are ever in
use: an array is never freed, so a decoder or an encoder that asks again would
need more, but every holder asks once. Two steps of a counter are enough to
take one before and one after the same update. `Wrap = 4` is more than the
decoders, as 2^32 is; the proof needs no more than that. Runs that stop at
such a bound, or that end with a thread, say `CHECK_DEADLOCK FALSE`; the connector and the
data packets are checked for deadlock.

### Fairness

Threads run: weak fairness of every call that has begun. Strong fairness of
taking a mutex that others release again and again (the sections are a few
instructions, the cleaner sleeps 100 ms between its passes), and in
`DataPacket` of taking one particular packet, which is FIFO order. The device
completes its requests in `FairSpec` of the engine; a decoder need not ask for
more data, packets need not arrive, nobody needs to call `Get` again, and a
condition variable never wakes by itself. `Delivered` and `CloseIsRelayed` add
that consumers keep asking, which every block's `Loop` does. In `Pipeline`
every thread runs; an inference block hands over a packet only when it must
(`MustLeave`: it holds more than `Hold`, or the first packet has no image and
nothing to wait for), which is what `HeldPackets` and `PassEnds` give; a stop
need not come, but once begun it goes on. In `Program` the main thread runs, a
thread that was stopped ends (that is `StopEnds`), and one that has counted an
image once counts it again; nothing makes frames come, or Ctrl-C.

Three liveness properties have exceptions, which the code has. `Flows` does
not hold for the case that `sp_sparse` shows, after all packets of a connector
were lost to a failing VPP, or behind an encoder whose loop ended with an
error. `StopEnds` does not hold for the oneVPL decoder that crashes or waits
for a buffer (`StuckVpl`). `ProgramEnds` is about programs with a duration,
programs that were told to end, and endless ones that have started: an endless
one whose decoder never decoded a frame, or whose inference received images
and never gave one back, runs for ever.

### What was found

Each finding is a run with `expect: violation`; `PROJECT.json` quotes the
lines.

1. `rr_stop_hang`: flags and `notify_all` without the mutex (`Connector.cpp`
   113-117) against `ConnectorRR.cpp` 95 and 117; the block's thread is never joined.
2. `bs_vpl`: `m_bufferLength` set to 0 before it is used.
3. `ov_free`: `GetOutput` looks at `m_internalDatas` only. A detector whose
   packets had several images and found nothing would be hurt in
   `InferenceBlock` too (`SentInOrder` fails with contents such as
   `<<0, 0>>`); the applications give a detector one image per packet.
4. `sp_sparse`: packets without an image wait, with their surfaces, for the
   last packet with one, however many they are. With `-b 2`, one frame with one
   object followed by frames without objects stops `SamplePipeline` for good.
   Five surfaces show it as well as the sixteen that the program has for
   `-b 2`: the number of frames kept has no bound.
5. `sr_overwrite`: `Translate` of the upscalers makes every picture in the one
   buffer that all results point to, while earlier results still wait in the
   connector. Two packets in it show what the ten of the program allow.

More defects are hazards without a run of their own:

- With `Rereads = TRUE` the `dp_life` model violates `SlotExclusive`: line 283
  of `DataPacket.cpp` reads the counter again, and between the two the producer
  can take the surface and send it with a new object. The default Release build
  may well test the value it has in a register, and then the property holds and
  is proved.
- `DeRef` hands an object to the cleaner while it holds the object's own mutex
  (`DataPacket.cpp` 285): the cleaner may delete it first.
- A surface's mapping belongs to the surface. An object that was counted down
  to 0 may unmap it (line 298) after a new object of the same surface was sent
  and mapped; in the `dp_life` model both can be mapped at once.
- A request that failed is never taken out of the queue: `InsertImage` then
  goes on with the front of an empty queue, where the models stop (`MakeRoom`).
- The oneVPL decoder uses packets it did not get, and waits for a buffer
  without looking at `m_stop` (`DecodeThreadBlock2.cpp` 222, 327, 417).
- `simple_free` calls `_simple_free` only when the count is 0, which counts
  down once more and frees only at 1: no array is ever freed. `RefCounts` and
  `WholeArrays` say what is right about it, that nothing is freed too early.
- The error of `MFXVideoENCODE::Init` is printed and not returned
  (`EncodeThreadBlock.cpp` 195-202): the program goes on with an encoder that
  has no frames (`InitEncoder`).

## 4. The proofs

Checked by TLAPS for every value of the constants, with no assumption but the
ones named in the modules (`PinsAssumption`, `FinitePins`, `SizeAssumption`,
`DataAssumption`, `AllocatorAssumption`, `WrapAssumption`, `AppAssumption`, `EngineAssumption`,
`UserAssumption`, `PacketAssumption`, `ImagesAssumption`,
`NetworksAssumption`) and, for one theorem, the one it states.

- `ConnectorRR_proofs`: `TypeCorrect`, `PacketsAreOwned` and
  `WakeupsAreNotLost`. The invariant is
  type correctness with who owns the mutex at each label, and
  `PacketOwnership` itself, which is inductive once it is known that pipes
  have no repetition: `PopFront`, `PushBack` and `PushFront` say what the
  three list operations do to such a pipe. `NoLostWakeup` is inductive on top of
  it, by counting: `StoreInput` adds a packet and a notification to come, the
  notification becomes a consumer that is awake, a consumer leaves with a packet
  or with an empty pipe, and a `notify_all` leaves nobody asleep.
- `ConnectorRR_proofs`, the refinement: `ImplementsChannel`, `Spec => ChannelSpec`. Needs in
  addition that the flags are true whenever the lists of pins say so, and that
  no thread is in a call while the main thread wires the pins. Every step maps
  to a step of the channel or to a stutter, one lemma per group of actions.
- `BitStream_proofs`: `BuffersHold` (`TypeOK`, that is: no copy leaves its
  buffer), `DecoderGetsStream` (`StreamInOrder`) and `LoopEndsWithTheFile`
  (`EndIsReal`). Inductive with `BufferIsFree`: a chunk is read only when
  `m_buffer` is empty; and for the end with `EndInv`: in a call that may end
  `Loop` and has copied nothing yet, an endless pin is at the beginning of its
  file.
- `DataPacket_proofs`: `TypeCorrect`, `DestroyOnce`, and `SurfacesExclusive`
  for a build with `~Rereads`. `OneOwner` says an object is in one place,
  `Unmapped` that what is to be deleted maps nothing, `Counted` that an object
  which is still read has a positive counter that no other such object has.
  `Counted` is what the second read breaks.

- `Program_proofs`, the allocator: `MemoryTyped`, `CountsAreRight` (`RefCounts`),
  `ArraysAreWhole`, `ArraysAreExclusive`. None is inductive alone: what a free
  does depends on the two maps, so the invariant adds what they know.
  `HeldRight`: an array is in `allocResponses` exactly while a holder has it
  that is no decoder. `SavedRight`: a saved answer is an array of decoder
  surfaces of one session and of no other. `ListedRight`: an address in the map
  is in use. `TakingCounts` and `FreeingCounts` say what a step does to the
  number of holders.
- `Program_proofs`, the program: every program uses the allocator as `MemorySpec` says
  (`UsesAllocator`: each step is a step of the allocator or leaves its state
  alone), so the theorems above hold in it (`ProgramMemory`).
  `RuntimeUsesBlocksSurfaces` (`SameSurfaces`) rests on `SavedForRuntime`: once
  the block has its array, the answer stays saved, which needs `RefCounts` when
  the runtime frees, since only a count of 0 erases it. `NoStepIsLost`
  (`StepsCounted`), and `CountdownIsReal` (`CountdownEnds`): the countdown is
  the number of decoders that still run, or, if it was never started, it is
  above `Wrap` minus the decoders that ended, so that it is not 0.

- `Program_proofs` also has `ProgramTyped` (`TypeOK`): the parts of it that
  belong to the allocator and to the counters are theirs, the rest goes by the
  places of the main thread.
- `Pipeline_proofs`: `FramesStayInOrder` (`InOrder`), `SurfacesComeBack`
  (`SurfacesConserved`), `NoPacketIsForgotten` (`PacketsConserved`) and
  `PipelineTyped` (`TypeOK`), for any number of channels, frames, packets and
  surfaces, any batch, any ratio, and any order in which the blocks were
  prepared; the chain of blocks is one of those that the programs build.
  `TInv` gives the types, and what a thread has in its hands at each place of
  its loop (`Carries` for a decoder). On top of it are three invariants, each
  until the first stop:
  - `PacketsInv`: the sum `Accounted(s)` for each connector is constant. A step
    changes at most the terms of the connector before and the one behind its
    block (`KeptByBlock`, `KeepsIf`).
  - `SurfacesInv`, with `LimitsOK` for the pools: each counter is the number of
    such surfaces in the line, in the decoder's hands and in `lost`. A decode
    surface that is taken twice or given back twice would break the equation,
    so it is inductive once the types are known.
  - `OrderInv`: the order of the line, and for each packet in it what relates
    it to its decoder (`Fits`): its frame is later than the last one delivered,
    not later than the decoder's own, not lost, and the packet is filled as a
    packet of such a frame is. `FrameInv` says that a frame which is owed is in
    the line. `InOrder` alone is not inductive: it does not say that the frame
    in the decoder's hands is later than those in the line, nor that a packet
    with a picture is never taken for an empty one. `PictureInv` ties the packet
    that a decoder is about to send to `unscaled`.

  The steps of the blocks are first reduced to four effects on the line: it
  stays, one packet of it changes (`Follows`: never its channel, frame or VPP
  surface), an empty one is dropped, or the first is delivered (`BlockEffect`);
  those of the decoders likewise (`DecoderEffect`). The last two invariants are
  proved from the effects. `Count` is a recursive function over a sequence; that
  it exists, and adds up over a concatenation, is proved by induction over the
  length. The library's induction theorems cannot be used (see below);
  `Induction` says the same of a set of numbers, and follows
  from the library's `WFMin`, which takes a set.

- `InferenceUser_proofs`: `UserTyped` (`TypeOK`) and `ResultsComeInOrder`
  (`ResultsInOrder`), for any depth, batch, number of images and order of
  completion, failed requests included. `ResultsInv` divides the images that
  were inserted in three, in order: `ids` and `datas` are the numbers and the
  results of the first part, the internal buffers those of the second, the third
  is `images`. `PopSplits` says that what `GetOutputInternal` pops is the
  beginning of the third, which needs the equation between images, busy requests
  and batch in `EngineOK`. `FlattenBoth` makes `Translate` of
  two batches the results of the first and then those of the second. The theorem
  assumes that no image is without a result (`0 \notin Found`), and it has to:
  only then are internal buffers with images in them never withheld
  (`NothingKept`); with 0 in `Found` TLC finds the order violated.

- `InferenceBlock_proofs`: `BlockSendsInOrder` (`SentInOrder`),
  `AllResultsAttached` (`SentComplete`), `RecordedInside`
  (`RecordedIsInside`), `FewPacketsHeld` (`HeldPackets`), `BlockTyped`
  (`TypeOK`) and the refinement, `BlockIsStage` (`StageSpec`), for any depth,
  batch and number of packets, any packets that `NetworksAssumption` admits, any
  order of completion, and failed requests. The invariant, `BlockInv`, says where the
  packets are. Those that arrived are in three parts: `sent`, `following`, and
  the numbers from `First` to before `Coming`. `PendingOK` says of the third
  part that each packet with images is followed by exactly the packets in its
  list in `pendingIDs`, and these by the next packet with images. `WayOK` says
  that the frames of `hasOutputs`, then those of the images that the engine
  still has (`Behind`, in the order of their insertion), are sorted and are the
  packets with images: so the head of `hasOutputs` is the first packet inside,
  and what was pushed is never again behind anything else. `SentInOrder` needs
  more than that: a packet must not leave while results are behind it, which is
  what `Place` says of `toSend`, and the order of the images in the engine must
  survive `GetOutput`, which it does only if no image overtakes the internal
  buffers. With a result in every image (`AllFound`) they are never withheld;
  with one image in a packet (`SingleOK`) they are never used, because a
  request is free whenever the block asks for a packet.

  `SentComplete` needs an account of every result. `ResultsOK` says that what a
  packet is due is what is recorded of it, what is `Outstanding` (in `datas`, in
  the internal buffers, of images in the engine) and what its images that are
  not inserted yet will have. Each step moves results from one to the next, and
  a packet leaves when no image of it is in `Behind`, hence with none
  outstanding. The step that is not obvious is `Attach`: its loop gives an image
  the results at the head of what is left as long as they are of its frame, so
  a result out of order would stop it and be lost. `AllMatched` says that it
  reaches the last one, because the results are `Grouped`: sorted, and each of a
  frame whose image came back.

  `HeldPackets` is not inductive, and neither is any bound on what the block
  holds: it follows from what the block asks before it takes a packet. A packet
  with images has an image in the engine or one `Ahead` of it (in `hasOutputs`,
  `ids` or `internalIDs`), so the packets held are at most the images in the
  engine and one, unless two packets are ahead (`Gap`). When every request is
  busy the images fill all places, and the block is one packet over unless the
  engine is `Crowded`: two of its images are of one packet, or one is of a
  packet that is ahead. `RoomOK` says that the block asks for a packet only with
  a request free or the engine crowded; the flags of `GetOutput` give the first,
  and the second is what a packet of several images leaves behind.
  `HeldAtInput` does the counting.

  The refinement maps the block to the sizes of the packets inside and the
  number of images of the batch that is not whole. `Acquire` of the stage is
  `HeldAtInput` again. For `Release`, `BatchOK` says that all images inserted
  make whole batches but for `batchIndex`, and that of those in the engine no
  more are of the packets after the k-th than these packets have: if the first
  packet has none left there (`FirstNotQueued`), the `batchIndex` images are of
  packets behind it.

Each of these invariants was checked with TLC on the bounds of its run before
it was proved. Doing so changed the model: `InOrder` and the two conservation
laws were folds over one recursive sequence, and are now sums and sets over
`Line`; `lost` is a sequence and not a set, so that it is counted like the rest
of the line; and `AppAssumption` now says what the programs guarantee and the old
one forgot (a packet has a decoded or a scaled picture; only `DecodeCropTestVpl`
is built with oneVPL); `Attach` and `Due` of `InferenceBlock` and `Images` of
`HoldingStage` are recursive functions in place of folds, and the packets of
the block have `NetworksAssumption`, without
which the invariant fails.

Every invariant of a run that passes, every action property and both
refinements are now theorems. Only model-checked: liveness (`GetInputReturns`,
`Delivered`, `CloseIsRelayed`, `SurfaceReturns`, `Reclaimed`, `ReadReturns`,
`AllHandedOver`, `PassEnds`, `Flows`, `StopEnds`, `ProgramEnds`), which is out
of the prover's reach, as is `ENABLED`; and the runs that find a violation. What a recursive definition computes can be proved
here only where the definition is a recursive function, as `Count`, `Pushed`,
`Matched` and `Total` are, and the induction is over numbers.

## 5. Plan

What is left, the most important first:

1. `DecodeCrop_test` with the Media SDK decoder and a ratio above 1, where the
   dummy detector drops empty packets (`DecodeCrop_test.cpp` 309).
2. A mapping per surface in `DataPacket`, with a consumer that maps and another
   that counts down, for the defect at `DataPacket.cpp` 298.
3. Pure operators: YOLO's selection of boxes and the crop arithmetic, each
   against a reference definition.
4. Proofs: what 1 and 2 add to the invariants of `Pipeline` and `DataPacket`.

## 6. Not modelled

The media SDK, libva and OpenVINO are external: the models take any answer
they may give. Of the repository:

- `VAConnectorDispatch`, `DisplayThreadBlock`: no program that is built has one.
- `InferenceYOLO`, `InferenceResnet50`, and the pixel loops of the upscalers,
  the crop block and the copies of surfaces: arithmetic within one call, with
  no state that another step sees. So is the test of `InferenceMobileSSD`
  that takes an object of the image one behind the last of the batch
  (`imgid > count`): it concerns what a model may answer, and `Translate` gives
  results to images of the batch only.
- lock, unlock and gethdl of the allocator, and the parameters that
  `PrepareInternal` computes for decoder, VPP and encoder.
- Option parsing, logging, Docker files, templates.
