----------------------------- MODULE Statistics -----------------------------
(***************************************************************************)
(* Statistics (Statistics.cpp): the threads count frames, the main thread  *)
(* collects the counters once in a period and decides from them when the   *)
(* program ends; decoders that end count down to the end as well.          *)
(* Each counter has its own lock, so that a step or the update of one      *)
(* counter is atomic, and the update of all is not.                        *)
(***************************************************************************)
EXTENDS Integers

CONSTANT
  Wrap    (* uint32_t: 2^32 values; bound for the model checker *)

ASSUME WrapAssumption == Wrap \in Nat \ {0}

VARIABLES
  counters,   (* m_counters                                                  *)
  current,    (* m_countersCurrentCycle                                      *)
  acc,        (* m_accCounters                                               *)
  countdown,  (* m_countdown_counter                                         *)
  continue,   (* _continue                                                   *)
  steps       (* history: the calls of Step for each counter                 *)

counts     == <<counters, current, acc, steps>>
statistics == <<counts, countdown, continue>>

(* StatisticsType, in the order of the enum. *)
Types == <<"DECODED", "RECEIVED", "PROCESSED", "OD_RECEIVED", "OD_PROCESSED",
           "OC_RECEIVED", "OC_PROCESSED">>
AllTypes == {Types[i] : i \in DOMAIN Types}

StatisticsInit ==
  /\ counters = [t \in AllTypes |-> 0]
  /\ current = [t \in AllTypes |-> 0]
  /\ acc = [t \in AllTypes |-> 0]
  /\ countdown = 0
  /\ continue = TRUE
  /\ steps = [t \in AllTypes |-> 0]

Step(type) ==
  /\ counters' = [counters EXCEPT ![type] = @ + 1]
  /\ steps' = [steps EXCEPT ![type] = @ + 1]
  /\ UNCHANGED <<current, acc, countdown, continue>>

CountDownStart(number) ==
  /\ countdown' = number
  /\ UNCHANGED <<counts, continue>>

(* Mutant: a signed counter, and the program ends also below zero. *)
CountDown_Signed ==
  /\ countdown' = countdown - 1
  /\ continue' = (continue /\ countdown - 1 > 0)
  /\ UNCHANGED counts

(* Without CountDownStart the counter goes from 0 to 2^32 - 1. *)
CountDown ==
  /\ countdown' = (countdown - 1) % Wrap
  /\ continue' = (continue /\ countdown' # 0)
  /\ UNCHANGED counts

(* Mutant: the total is replaced, not added to. *)
Update_Replaces(type) ==
  /\ acc' = [acc EXCEPT ![type] = counters[type]]
  /\ current' = [current EXCEPT ![type] = counters[type]]
  /\ counters' = [counters EXCEPT ![type] = 0]
  /\ UNCHANGED <<countdown, continue, steps>>

(* Update for one type, under its lock. *)
Update(type) ==
  /\ acc' = [acc EXCEPT ![type] = @ + counters[type]]
  /\ current' = [current EXCEPT ![type] = counters[type]]
  /\ counters' = [counters EXCEPT ![type] = 0]
  /\ UNCHANGED <<countdown, continue, steps>>

(* Ctrl-C: sigint_hanlder. *)
SigInt ==
  /\ continue' = FALSE
  /\ UNCHANGED <<counts, countdown>>

IsNoFPS == current["DECODED"] = 0 /\ current["RECEIVED"] = 0

(* "checkes if Decode/OD/OC has processed any frame". *)
StartedBy(total) ==
  /\ total["DECODED"] > 0
  /\ total["OD_RECEIVED"] > 0 => total["OD_PROCESSED"] > 0
  /\ total["OC_RECEIVED"] > 0 => total["OC_PROCESSED"] > 0

(* Mutant: kinds of inference that the program has not are asked for, too. *)
IsStarted_AllKinds ==
  \A t \in {"DECODED", "OD_PROCESSED", "OC_PROCESSED"} : acc[t] > 0

IsStarted == StartedBy(acc)

-----------------------------------------------------------------------------
StatisticsTypeOK ==
  /\ counters \in [AllTypes -> Nat] /\ current \in [AllTypes -> Nat]
  /\ acc \in [AllTypes -> Nat] /\ steps \in [AllTypes -> Nat]
  /\ countdown \in 0 .. Wrap - 1 /\ continue \in BOOLEAN

(***************************************************************************)
(* No frame is counted twice or forgotten, although the threads count      *)
(* while the main thread goes over the counters one by one.                *)
(***************************************************************************)
StepsCounted == \A t \in AllTypes : acc[t] + counters[t] = steps[t]
=============================================================================
