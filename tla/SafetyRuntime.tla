--------------------------- MODULE SafetyRuntime ---------------------------
(***************************************************************************)
(* The control cycle of a wearable: power supervisor, peer supervisor,     *)
(* startup supervisor, safety arbiter and gate driver, as                  *)
(* openref_system_runtime.c and the contract of                            *)
(* firmware/system/targets/prototype1/README.md put them together, with    *)
(* output gates that may fail and a peer processor that may hang.          *)
(*                                                                         *)
(* A cycle computes what is permitted; its commands to the gates are steps *)
(* of their own.  An age is the time since a supervisor entered its state. *)
(***************************************************************************)
EXTENDS Integers

CONSTANTS
  HeartbeatTimeout, ResetHold, BootWait, PowerCycleWait,  \* openref_peer_config_t
  MaxAttempts,                      \* maximum_reset_attempts
  RailTimeout, ProcessorTimeout,    \* openref_startup_config_t
  CriticalGrace,                    \* critical_grace_ms
  MaxDelay                          \* bound: time between two cycles

ASSUME SafetyAssumption ==
  /\ HeartbeatTimeout \in Nat \ {0} /\ ResetHold \in Nat \ {0} /\ BootWait \in Nat \ {0}
  /\ PowerCycleWait \in Nat \ {0} /\ MaxAttempts \in Nat \ {0} /\ RailTimeout \in Nat \ {0}
  /\ ProcessorTimeout \in Nat \ {0} /\ CriticalGrace \in Nat \ {0}
  /\ MaxDelay \in Nat \ {0}

Outputs == {"voice", "playback", "radio"}

VARIABLES
  power,    \* openref_power_supervisor_t
  startup,  \* openref_startup_supervisor_t
  peer,     \* openref_peer_supervisor_t
  line,     \* the supervisor's reset line to the peer is asserted
  device,   \* the peer processor
  beat,     \* a heartbeat of the peer is on its way
  output,   \* what the last arbitration permits
  driver,   \* openref_safety_gate_driver_t: applied, and the commands left of this cycle
  faulted,  \* actuation_fault_latched
  gates,    \* the outputs that are open
  stuck,    \* history: outputs that stayed open although told to close
  resets    \* history: resets and power cycles of the peer since its last heartbeat

runtimeVars == <<power, startup, peer, line, device, beat, output, driver, faulted,
                 gates, stuck, resets>>

PowerState   == {"disconnected", "normal", "critical", "shutdown"}
StartupState == {"safe", "power_wait", "processor_wait", "local_ready", "operational",
                 "fault"}
PeerState    == {"healthy", "reset_asserted", "boot_wait", "power_cycle_wait", "failed"}

RuntimeTypeOK ==
  /\ power \in [state : PowerState, age : 0..CriticalGrace]
  /\ startup \in [state : StartupState, age : Nat]
  /\ peer \in [state : PeerState, age : Nat, attempts : 0..MaxAttempts]
  /\ line \in BOOLEAN /\ beat \in BOOLEAN
  /\ device \in {"held", "booting", "running", "hung"}
  /\ output \subseteq Outputs
  /\ driver \in [phase : {"idle", "apply", "force"}, applied : SUBSET Outputs,
                 close : SUBSET Outputs, open : SUBSET Outputs]
  /\ faulted \in BOOLEAN
  /\ gates \subseteq Outputs /\ stuck \subseteq Outputs
  /\ resets \in Nat

Idle == [phase |-> "idle", applied |-> {}, close |-> {}, open |-> {}]

\* The pins are safe while the firmware is not in control
\* (openref_safety_gate_driver_init).
RuntimeInit ==
  /\ power = [state |-> "disconnected", age |-> 0]
  /\ startup = [state |-> "safe", age |-> 0]
  /\ peer = [state |-> "healthy", age |-> 0, attempts |-> 0]
  /\ line = FALSE /\ device = "held" /\ beat = FALSE
  /\ output = {} /\ driver = Idle /\ faulted = FALSE
  /\ gates = {} /\ stuck = {} /\ resets = 0

----------------------------------------------------------------------------
(* openref_power_supervisor_update.  Of a sample matters whether the pack  *)
(* is there, whether the sample is bad (invalid, too hot, too low a        *)
(* voltage), and on which side of the critical threshold and its exit the  *)
(* predicted runtime lies.  LOW is normal with a warning, and every latched*)
(* state is "shutdown".                                                    *)

PackSample == {"absent", "bad", "critical", "hysteresis", "enough"}

PowerSafe(p) == p.state \in {"normal", "critical"}

PowerUpdate(p, sample, elapsed) ==
  LET critical == sample = "critical" \/ (sample = "hysteresis" /\ p.state = "critical")
      age      == IF p.state = "critical" THEN p.age + elapsed ELSE 0 IN
  CASE sample = "absent" -> [state |-> "disconnected", age |-> 0]
    [] sample # "absent" /\ (\/ p.state = "shutdown" \/ sample = "bad"
                             \/ critical /\ age >= CriticalGrace) ->
         [state |-> "shutdown", age |-> 0]
    [] p.state # "shutdown" /\ critical /\ age < CriticalGrace ->
         [state |-> "critical", age |-> age]
    [] OTHER -> [state |-> "normal", age |-> 0]

----------------------------------------------------------------------------
(* openref_peer_supervisor.c and the processor it supervises.              *)

PeerEnters(state, attempts) == [state |-> state, age |-> 0, attempts |-> attempts]

\* Mistake: one attempt too many.
Retries_OneMore(p) == p.attempts <= MaxAttempts

Retries(p) == p.attempts < MaxAttempts

\* openref_peer_supervisor_tick
PeerTick(p, elapsed) ==
  LET age == p.age + elapsed IN
  CASE p.state = "healthy" /\ age > HeartbeatTimeout -> PeerEnters("reset_asserted", 1)
    [] p.state = "reset_asserted" /\ age >= ResetHold -> PeerEnters("boot_wait", p.attempts)
    [] p.state = "boot_wait" /\ age >= BootWait ->
         IF Retries(p) THEN PeerEnters("reset_asserted", p.attempts + 1)
         ELSE PeerEnters("power_cycle_wait", p.attempts)
    [] p.state = "power_cycle_wait" /\ age >= PowerCycleWait -> PeerEnters("failed", p.attempts)
    [] p.state = "failed" -> p
    [] OTHER -> [p EXCEPT !.age = age]

\* Mistake: only the hold that follows a first reset releases the line.
LineAfter_FirstOnly(p, q) ==
  CASE q.state = "reset_asserted" -> TRUE
    [] p.state = "reset_asserted" /\ q.state = "boot_wait" /\ q.attempts = 1 -> FALSE
    [] OTHER -> line

\* ASSERT_RESET and RELEASE_RESET of the step from p to q.
LineAfter(p, q) ==
  CASE q.state = "reset_asserted" -> TRUE
    [] p.state = "reset_asserted" /\ q.state = "boot_wait" -> FALSE
    [] OTHER -> line

\* The startup supervisor's RELEASE_RESETS.
Released(s) == s.state \in {"processor_wait", "local_ready", "operational"}

\* A processor out of reset boots; POWER_CYCLE takes its supply for a moment.
DeviceAfter(p, q, s, asserted) ==
  CASE asserted \/ ~Released(s) -> "held"
    [] p.state = "boot_wait" /\ q.state = "power_cycle_wait" -> "booting"
    [] OTHER -> IF device = "held" THEN "booting" ELSE device

\* openref_peer_supervisor_heartbeat, whatever the supervisor was doing.
Heartbeat ==
  /\ beat
  /\ beat' = FALSE
  /\ peer' = PeerEnters("healthy", 0)
  /\ resets' = 0
  /\ UNCHANGED <<power, startup, line, device, output, driver, faulted, gates, stuck>>

Boots ==
  /\ device = "booting"
  /\ device' \in {"running", "hung"}
  /\ UNCHANGED <<power, startup, peer, line, beat, output, driver, faulted, gates, stuck,
                 resets>>

Beats ==
  /\ device = "running" /\ ~beat
  /\ beat' = TRUE
  /\ UNCHANGED <<power, startup, peer, line, device, output, driver, faulted, gates, stuck,
                 resets>>

Hangs ==
  /\ device = "running"
  /\ device' = "hung"
  /\ UNCHANGED <<power, startup, peer, line, beat, output, driver, faulted, gates, stuck,
                 resets>>

----------------------------------------------------------------------------
(* openref_startup_supervisor_tick.  "good" are the interlocks that hold:  *)
(* rails, a trusted boot and configuration, the accessory, a crew session. *)
(* Only the two waits read their age.                                      *)

Interlock == {"rails", "trusted", "accessory", "session"}

StartupTick(s, safe, good, healthy, elapsed) ==
  LET ready == {"trusted", "accessory"} \subseteq good /\ healthy
      enter(state) == [state |-> state, age |-> 0]
      wait(limit)  == IF s.age + elapsed > limit THEN enter("fault")
                      ELSE [s EXCEPT !.age = @ + elapsed] IN
  CASE ~safe -> enter("safe")
    [] safe /\ s.state = "safe" -> enter("power_wait")
    [] safe /\ s.state = "power_wait" ->
         IF "rails" \in good THEN enter("processor_wait") ELSE wait(RailTimeout)
    [] safe /\ s.state = "processor_wait" ->
         IF "rails" \notin good THEN enter("fault")
         ELSE IF ready THEN enter("local_ready") ELSE wait(ProcessorTimeout)
    [] safe /\ s.state \in {"local_ready", "operational"} ->
         IF "rails" \notin good \/ ~ready THEN enter("fault")
         ELSE enter(IF "session" \in good THEN "operational" ELSE "local_ready")
    [] safe /\ s.state = "fault" -> enter("fault")

----------------------------------------------------------------------------
(* openref_safety_arbitrate.  "allowed" is what the watchdog, an update or *)
(* a privileged service (nothing), the accessory monitor and the user (not *)
(* the one or the other audio path) leave.                                 *)

Allowed == {{}} \cup {{"radio"} \cup audio : audio \in SUBSET {"voice", "playback"}}

Arbitrate(p, s, q, fault, allowed) ==
  {g \in allowed :
     /\ PowerSafe(p) /\ ~fault
     /\ s.state = "operational"
     /\ g # "radio" => q.state = "healthy"}

----------------------------------------------------------------------------
(* openref_safety_gate_driver_apply: voice closes first and opens last.    *)

Rank == [g \in Outputs |-> IF g = "voice" THEN 1 ELSE IF g = "playback" THEN 2 ELSE 3]

\* Mistake: the order in which they are opened.
NextToClose_RadioFirst(set) == CHOOSE g \in set : \A h \in set : Rank[g] >= Rank[h]

NextToClose(set) == CHOOSE g \in set : \A h \in set : Rank[g] <= Rank[h]
NextToOpen(set)  == CHOOSE g \in set : \A h \in set : Rank[g] >= Rank[h]

\* force_safe, once a command has failed.
Forced == [driver EXCEPT !.phase = "force", !.close = Outputs, !.open = {}]

\* A gate that is told to close does, or fails to and may stay open.
Close ==
  LET g == NextToClose(driver.close) IN
  /\ driver.close # {}
  /\ \/ /\ gates' = gates \ {g} /\ stuck' = stuck \ {g}
        /\ driver' = [driver EXCEPT !.close = @ \ {g}]
     \/ /\ gates' \in {gates, gates \ {g}} /\ stuck' = stuck \cup (gates' \cap {g})
        /\ driver' = IF driver.phase = "apply" THEN Forced
                     ELSE [driver EXCEPT !.close = @ \ {g}]
  /\ UNCHANGED <<power, startup, peer, line, device, beat, output, faulted, resets>>

\* A gate that is told to open does, or fails to and may be open.
Open ==
  LET g == NextToOpen(driver.open) IN
  /\ driver.close = {} /\ driver.open # {}
  /\ \/ /\ gates' = gates \cup {g}
        /\ driver' = [driver EXCEPT !.open = @ \ {g}]
     \/ /\ gates' \in {gates, gates \cup {g}}
        /\ driver' = Forced
  /\ UNCHANGED <<power, startup, peer, line, device, beat, output, faulted, stuck, resets>>

\* What the runtime keeps of an application, and of a failed one.
Apply ==
  /\ driver.phase # "idle" /\ driver.close = {} /\ driver.open = {}
  /\ driver' = [driver EXCEPT !.phase = "idle",
                              !.applied = IF driver.phase = "apply" THEN output ELSE {}]
  /\ output' = driver'.applied
  /\ faulted' = (faulted \/ driver.phase = "force")
  /\ UNCHANGED <<power, startup, peer, line, device, beat, gates, stuck, resets>>

----------------------------------------------------------------------------
(* One control cycle: a power sample, the peer's tick, and                 *)
(* openref_system_runtime_tick up to its commands.                         *)

\* Mistake: the latched fault does not reach the arbiter.
SystemFault_Forgotten == FALSE

SystemFault == faulted

Cycle(elapsed, p, good, allowed) ==
  LET q       == PeerTick(peer, elapsed)
      s       == StartupTick(startup, PowerSafe(p), good, q.state = "healthy", elapsed)
      desired == Arbitrate(p, s, q, SystemFault, allowed) IN
  /\ driver.phase = "idle"
  /\ power' = p /\ peer' = q /\ startup' = s
  /\ line' = LineAfter(peer, q) /\ device' = DeviceAfter(peer, q, s, line')
  /\ resets' = IF q.state \in {"reset_asserted", "power_cycle_wait"} \ {peer.state}
                 THEN resets + 1 ELSE resets
  /\ output' = desired
  /\ driver' = [driver EXCEPT !.phase = "apply", !.close = driver.applied \ desired,
                              !.open = desired \ driver.applied]
  /\ UNCHANGED <<beat, faulted, gates, stuck>>

\* A reset of this processor, by its watchdog or by hand.
Reboot ==
  /\ power' = [state |-> "disconnected", age |-> 0]
  /\ startup' = [state |-> "safe", age |-> 0]
  /\ peer' = [state |-> "healthy", age |-> 0, attempts |-> 0]
  /\ line' = FALSE /\ device' = "held" /\ beat' = FALSE
  /\ output' = {} /\ driver' = Idle /\ faulted' = FALSE
  /\ gates' = {} /\ stuck' = {} /\ resets' = 0

\* At most one interlock is missing at a time (what more of them do, one does), and
\* rails that were not asked for are down.
ACycle ==
  \E elapsed \in 1..MaxDelay :
    \E p \in {PowerUpdate(power, sample, elapsed) : sample \in PackSample},
       good \in {Interlock} \cup {Interlock \ {i} : i \in Interlock},
       allowed \in Allowed :
      /\ startup.state \in {"safe", "fault"} => "rails" \notin good
      /\ "accessory" \notin good => "voice" \notin allowed
      /\ Cycle(elapsed, p, good, allowed)

RuntimeNext ==
  \/ ACycle \/ Close \/ Open \/ Apply
  \/ Heartbeat \/ Boots \/ Beats \/ Hangs \/ Reboot

RuntimeSpec == RuntimeInit /\ [][RuntimeNext]_runtimeVars

\* The control task runs, its commands return, a heartbeat that was sent arrives.
Fairness ==
  /\ WF_runtimeVars(ACycle) /\ WF_runtimeVars(Close) /\ WF_runtimeVars(Open)
  /\ WF_runtimeVars(Apply) /\ WF_runtimeVars(Heartbeat)

FairSpec == RuntimeSpec /\ Fairness

----------------------------------------------------------------------------
(* Properties.                                                             *)

\* Captured voice never has a way out without the radio's permission, between any two
\* commands and however they fail, unless voice itself failed to close ("Removes
\* permissions before adding any", docs/architecture/operational-safety-arbitration.md:56).
VoiceNeedsRadio == "voice" \in gates => "radio" \in gates \/ "voice" \in stuck

\* After a cycle nothing is open but what the arbiter permits now, and what was told to
\* close and failed to.
OnlyPermittedIsOpen ==
  driver.phase = "idle" => gates \subseteq output \cup stuck

\* While an actuation fault or a power shutdown is latched no command opens an output,
\* whatever user, session, peer and pack do meanwhile, until the processor restarts or
\* the pack is taken out.
LatchedStaysShut ==
  [][(driver.phase = "force" /\ driver'.phase = "force") \/ (faulted /\ faulted')
      \/ (power.state = "shutdown" /\ power'.state = "shutdown")
       => gates' \subseteq gates]_runtimeVars

\* "a failed peer cannot cause an endless reset or power-cycle loop"
\* (docs/architecture/processor-health-and-recovery.md:32-33).
ResetsAreBounded == resets <= MaxAttempts + 1

\* A reset that was asserted is released: a late heartbeat that makes the supervisor
\* healthy in the middle of it only delays that by a timeout.
ResetEnds == line ~> ~line

=============================================================================
