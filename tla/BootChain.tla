----------------------------- MODULE BootChain -----------------------------
(***************************************************************************)
(* The audio processor's image slots from factory to update: the bootstrap *)
(* (openref_boot_policy.c, openref_rt595_boot_coordinator.c,               *)
(* openref_rt595_bootstrap.c), the application that confirms itself after  *)
(* a soak (openref_rt595_app_confirmation.c) and receives updates          *)
(* (openref_rt595_update_delivery.c, openref_rt595_update_staging.c), and  *)
(* the boot record they share (openref_rt595_boot_state.c).                *)
(*                                                                         *)
(* An image is its version: 0 is a slot that does not authenticate (erased,*)
(* partly written or never committed).  Handlers that write the record     *)
(* more than once are split after each write, so that power can be lost    *)
(* between any two of them.                                                *)
(***************************************************************************)
EXTENDS Integers

CONSTANTS
  MaxVersion,   \* bound: the newest image ever signed
  MaxAttempts,  \* OPENREF_TRIAL_ATTEMPTS
  Soak,         \* OPENREF_RT595_CONFIRMATION_SOAK_SAMPLES
  Chunks,       \* bound: chunks of an image
  MaxSession,   \* bound: update sessions per power cycle
  MaxBadReads,  \* bound: starts that fail to read an intact slot
  TrialUpdates  \* TRUE if updates arrive while an unconfirmed image runs

ASSUME BootAssumption ==
  /\ MaxVersion \in Nat \ {0} /\ MaxAttempts \in Nat \ {0} /\ Soak \in Nat \ {0}
  /\ Chunks \in Nat \ {0} /\ MaxSession \in Nat \ {0}
  /\ MaxBadReads \in Nat /\ TrialUpdates \in BOOLEAN

Slot    == {0, 1}  \* OPENREF_BOOT_SLOT_A, OPENREF_BOOT_SLOT_B
NoSlot  == 255
Version == 1..MaxVersion
Blank   == 0
Other(s) == 1 - s
MaxTries == MaxAttempts * (1 + MaxBadReads) + 1

VARIABLES
  image,    \* the slots in flash
  record,   \* the boot record the next start will load
  ram,      \* openref_rt595_boot_state_store_t.state
  mode,     \* what the processor is doing
  seen,     \* the bootstrap's authenticated slots
  running,  \* the slot that was handed control
  samples,  \* healthy_samples of the confirmation
  delivery, \* openref_rt595_update_delivery_t
  highest,  \* highest_session_id
  tries,    \* history: trial handoffs of the image in each slot
  proven,   \* history: images that have passed their soak
  floor,    \* history: the newest image confirmed so far
  badReads  \* history: starts that failed to read an intact slot

flash == <<image, record>>
app   == <<running, samples, delivery, highest>>
hist  == <<tries, proven, floor, badReads>>
vars  == <<flash, ram, mode, seen, app, hist>>

State == [minimum : Version, confirmed : Slot, pending : Slot \cup {NoSlot},
          attempts : 0..MaxAttempts]
Idle  == [target |-> NoSlot, version |-> Blank, chunk |-> 0]

TypeOK ==
  /\ image \in [Slot -> Version \cup {Blank}] /\ seen \in [Slot -> Version \cup {Blank}]
  /\ record \in State /\ ram \in State
  /\ mode \in {"off", "boot", "restage", "reselect", "app", "stopped"}
  /\ running \in Slot
  /\ samples \in 0..Soak
  /\ delivery \in [target : Slot \cup {NoSlot}, version : Version \cup {Blank}, chunk : 0..Chunks]
  /\ highest \in 0..MaxSession
  /\ tries \in [Slot -> 0..MaxTries]
  /\ proven \subseteq Version
  /\ floor \in Version
  /\ badReads \in 0..MaxBadReads

\* The factory programs slot A, its manifest and the first boot record.
Factory == [minimum |-> 1, confirmed |-> 0, pending |-> NoSlot, attempts |-> 0]

Init ==
  /\ image = [s \in Slot |-> IF s = 0 THEN 1 ELSE Blank]
  /\ record = Factory /\ ram = Factory
  /\ mode = "off"
  /\ seen = [s \in Slot |-> Blank]
  /\ running = 0 /\ samples = 0 /\ delivery = Idle /\ highest = 0
  /\ tries = [s \in Slot |-> 0] /\ proven = {1} /\ floor = 1
  /\ badReads = 0

----------------------------------------------------------------------------
(* The boot record.  ConfigStore shows what a save may leave behind: the   *)
(* value if it reports success; otherwise the value, the one the client    *)
(* knows, or what a save that was never acknowledged had left there.       *)

Highest(a, b) == IF a < b THEN b ELSE a

\* The RAM state changes only when the save succeeds.
Saves(state) == record' = state /\ ram' = state

SaveFails(state) == record' \in {ram, record, state} /\ UNCHANGED ram

----------------------------------------------------------------------------
(* The bootstrap.                                                          *)

\* openref_rt595_slot_authenticate under the record's floor.
Authenticates(s, state) == image[s] # Blank /\ image[s] >= state.minimum

Authenticated(state) ==
  [s \in Slot |-> IF Authenticates(s, state) THEN image[s] ELSE Blank]

\* What is seen if some slots cannot be read.
PartlyRead(state) ==
  {v \in [Slot -> Version \cup {Blank}] :
     \A s \in Slot : v[s] \in {Authenticated(state)[s], Blank}}

\* openref_rt595_boot_state_load, then both slots are authenticated.
PowerOn ==
  /\ mode = "off"
  /\ mode' = "boot"
  /\ ram' = record /\ floor' = Highest(floor, record.minimum)
  /\ \/ seen' = Authenticated(record) /\ UNCHANGED badReads
     \/ /\ badReads < MaxBadReads /\ badReads' = badReads + 1
        /\ seen' \in PartlyRead(record)
  /\ UNCHANGED <<flash, app, tries, proven>>

\* Neither copy of the record loads, or the configuration is refused.
PowerOnFails ==
  /\ mode = "off"
  /\ mode' = "stopped"
  /\ UNCHANGED <<flash, ram, seen, app, hist>>

Stop == mode' = "stopped" /\ UNCHANGED <<image, seen, app, hist>>

\* eligible of the boot policy
Eligible(s) == seen[s] # Blank /\ seen[s] >= ram.minimum

\* Mistake: one attempt too many.
CanTry_OneMore ==
  /\ ram.pending # NoSlot /\ Eligible(ram.pending)
  /\ ram.attempts <= MaxAttempts

CanTry ==
  /\ ram.pending # NoSlot /\ Eligible(ram.pending)
  /\ ram.attempts < MaxAttempts

\* The exhausted pending record is kept: it is what stops the next reset from
\* staging the same candidate again.
Latched ==
  /\ mode = "boot"
  /\ ram.pending # NoSlot /\ ram.attempts >= MaxAttempts
  /\ ~Eligible(ram.confirmed)

\* Control is transferred to slot s; preparing the vector table or the
\* application's own start may fail, and then the processor stops.
Handoff(s) ==
  /\ mode' \in {"app", "stopped"}
  /\ running' = s /\ samples' = 0 /\ delivery' = Idle /\ highest' = 0
  /\ tries' = IF s = ram'.pending
                THEN [tries EXCEPT ![s] = IF @ < MaxTries THEN @ + 1 ELSE @]
                ELSE tries
  /\ UNCHANGED <<image, seen, proven, floor, badReads>>

\* Mistake: the attempt is not counted.
Counted_Forgotten == ram

Counted == [ram EXCEPT !.attempts = @ + 1]

\* openref_rt595_boot_coordinator_select chooses the pending image.
Trial ==
  /\ mode \in {"boot", "reselect"} /\ CanTry
  /\ Saves(Counted)
  /\ Handoff(ram.pending)

TrialNotCounted ==
  /\ mode \in {"boot", "reselect"} /\ CanTry
  /\ SaveFails(Counted)
  /\ Stop

Latch == Latched /\ Stop /\ UNCHANGED <<record, ram>>

Cleared == [ram EXCEPT !.pending = NoSlot, !.attempts = 0]

\* What openref_boot_policy_select chooses once nothing is pending.
Choose ==
  \/ /\ Eligible(ram.confirmed)
     /\ Handoff(ram.confirmed)
  \/ /\ ~Eligible(ram.confirmed) /\ Eligible(Other(ram.confirmed))
     /\ mode' = "restage"
     /\ UNCHANGED <<image, seen, app, hist>>
  \/ /\ ~Eligible(ram.confirmed) /\ ~Eligible(Other(ram.confirmed))
     /\ Stop

Confirmed ==
  /\ mode = "boot" /\ ram.pending = NoSlot
  /\ UNCHANGED <<record, ram>>
  /\ Choose

Fallback ==
  /\ mode = "boot" /\ ram.pending # NoSlot /\ ~CanTry /\ ~Latched
  /\ Saves(Cleared)
  /\ Choose

FallbackNotSaved ==
  /\ mode = "boot" /\ ram.pending # NoSlot /\ ~CanTry /\ ~Latched
  /\ SaveFails(Cleared)
  /\ Stop

\* Mistake: the floor rises when the candidate is staged.
Staged_RaisesFloor(s) ==
  [ram EXCEPT !.pending = s, !.attempts = 0,
              !.minimum = Highest(ram.minimum, IF delivery.target = s THEN delivery.version ELSE seen[s])]

\* openref_boot_policy_stage
Staged(s) == [ram EXCEPT !.pending = s, !.attempts = 0]

\* The confirmed image is unusable: the other one goes through the trial path.
Restage ==
  /\ mode = "restage"
  /\ Saves(Staged(Other(ram.confirmed)))
  /\ mode' = "reselect"
  /\ UNCHANGED <<image, seen, app, hist>>

RestageFails ==
  /\ mode = "restage"
  /\ SaveFails(Staged(Other(ram.confirmed)))
  /\ Stop

Reset ==
  /\ mode # "off"
  /\ mode' = "off"
  /\ UNCHANGED <<flash, ram, seen, app, hist>>

----------------------------------------------------------------------------
(* The application: confirmation.                                          *)

\* trial_still_matches
OnTrial == ram.pending = running /\ ram.attempts > 0 /\ ram.confirmed # running

\* A healthy 10 ms sample that does not complete the soak.
Observe ==
  /\ mode = "app" /\ OnTrial /\ samples < Soak - 1
  /\ samples' = samples + 1
  /\ UNCHANGED <<flash, ram, mode, seen, running, delivery, highest, hist>>

\* An unhealthy sample, a gap between samples or a soak that was too short.
Fault ==
  /\ mode = "app" /\ OnTrial /\ samples # 0
  /\ samples' = 0
  /\ UNCHANGED <<flash, ram, mode, seen, running, delivery, highest, hist>>

\* Mistake: the floor stays where it was.
Confirming_KeepsFloor ==
  [ram EXCEPT !.confirmed = running, !.pending = NoSlot, !.attempts = 0]

\* openref_boot_policy_confirm
Confirming ==
  [ram EXCEPT !.confirmed = running, !.pending = NoSlot, !.attempts = 0,
              !.minimum = Highest(ram.minimum, image[running])]

\* The soak completes and the confirmation is saved, or fails to be and starts over.
Confirm ==
  /\ mode = "app" /\ OnTrial /\ samples = Soak - 1
  /\ proven' = proven \cup {image[running]}
  /\ \/ /\ Saves(Confirming)
        /\ tries' = [tries EXCEPT ![running] = 0]
        /\ floor' = Highest(floor, image[running])
     \/ /\ SaveFails(Confirming)
        /\ UNCHANGED <<tries, floor>>
  /\ samples' = 0
  /\ UNCHANGED <<image, mode, seen, running, delivery, highest, badReads>>

----------------------------------------------------------------------------
(* The application: update delivery.                                       *)

\* antirollback_floor of update_delivery_init
UpdateFloor == Highest(ram.minimum, image[running])

\* Mistake: the running slot is a target like the other.
MayBegin_AnySlot(session, s, v) ==
  /\ mode = "app" /\ delivery.target = NoSlot
  /\ session > highest
  /\ v > UpdateFloor
  /\ TrialUpdates \/ ram.pending # running

\* The checks of openref_rt595_update_delivery_begin and the manifest's verifier.
\* A session number is never used again, so a delayed begin erases nothing.
MayBegin(session, s, v) ==
  /\ mode = "app" /\ delivery.target = NoSlot
  /\ session > highest
  /\ s # running
  /\ v > UpdateFloor
  /\ TrialUpdates \/ ram.pending # running

\* The target's manifest is erased first, then the image.
Begin(session, s, v) ==
  /\ MayBegin(session, s, v)
  /\ highest' = session
  /\ image' = [image EXCEPT ![s] = Blank] /\ tries' = [tries EXCEPT ![s] = 0]
  /\ delivery' = [target |-> s, version |-> v, chunk |-> 0]
  /\ UNCHANGED <<record, ram, mode, seen, running, samples, proven, floor, badReads>>

\* An erase fails; the manifest may have survived.
BeginFails(session, s, v) ==
  /\ MayBegin(session, s, v)
  /\ highest' = session
  /\ \/ UNCHANGED <<image, tries>>
     \/ image' = [image EXCEPT ![s] = Blank] /\ tries' = [tries EXCEPT ![s] = 0]
  /\ UNCHANGED <<record, ram, mode, seen, running, samples, delivery, proven, floor, badReads>>

Delivering == mode = "app" /\ delivery.target # NoSlot

\* A chunk in sequence, written and read back.
Chunk ==
  /\ Delivering /\ delivery.chunk < Chunks
  /\ delivery' = [delivery EXCEPT !.chunk = @ + 1]
  /\ UNCHANGED <<flash, ram, mode, seen, running, samples, highest, hist>>

\* A message out of sequence or of another session, a write that fails, a
\* timeout or openref_rt595_update_delivery_reset.
Abort ==
  /\ Delivering
  /\ delivery' = Idle
  /\ UNCHANGED <<flash, ram, mode, seen, running, samples, highest, hist>>

\* The image does not match its digest, or the manifest fails to commit.
FinishFails ==
  /\ Delivering /\ delivery.chunk = Chunks
  /\ image' \in {image, [image EXCEPT ![delivery.target] = delivery.version]}
  /\ delivery' = Idle
  /\ UNCHANGED <<record, ram, mode, seen, running, samples, highest, hist>>

\* The last page and the manifest are committed, then activate_candidate stages
\* the slot; if it cannot, a valid slot is left unselected.
Finish ==
  /\ Delivering /\ delivery.chunk = Chunks
  /\ image' = [image EXCEPT ![delivery.target] = delivery.version]
  /\ IF delivery.target # ram.confirmed
       THEN Saves(Staged(delivery.target)) \/ SaveFails(Staged(delivery.target))
       ELSE UNCHANGED <<record, ram>>
  /\ delivery' = Idle
  /\ UNCHANGED <<mode, seen, running, samples, highest, hist>>

----------------------------------------------------------------------------
Next ==
  \/ PowerOn \/ PowerOnFails \/ Reset
  \/ Trial \/ TrialNotCounted \/ Latch \/ Confirmed \/ Fallback \/ FallbackNotSaved
  \/ Restage \/ RestageFails
  \/ Observe \/ Fault \/ Confirm
  \/ \E session \in 1..MaxSession, s \in Slot, v \in Version :
       Begin(session, s, v) \/ BeginFails(session, s, v)
  \/ Chunk \/ Abort \/ FinishFails \/ Finish

Spec == Init /\ [][Next]_vars

\* An image on trial passes its soak or the processor restarts; a stopped one is
\* restarted; reads, saves and handoffs that are tried again and again succeed.
Fairness ==
  /\ SF_vars(PowerOn)
  /\ WF_vars(Reset /\ (mode = "app" => OnTrial))
  /\ SF_vars(Trial)
  /\ SF_vars(Restage)
  /\ SF_vars(Confirmed /\ mode' = "app")
  /\ SF_vars(Fallback /\ mode' = "app")

FairSpec == Spec /\ Fairness

----------------------------------------------------------------------------
(* Properties.                                                             *)

\* Whatever fails and whenever the power goes, the slot the record calls
\* confirmed holds an image at or above the floor ("cannot overwrite the confirmed
\* recovery image", docs/interfaces/ICD-008-firmware-update-recovery.md:82).
ConfirmedBootable == image[record.confirmed] >= record.minimum

\* An image runs outside a trial only if it once passed its soak: nothing gets
\* past the confirmation by way of resets, fallbacks and failed saves.
OnlyProvenImagesRun ==
  mode = "app" /\ ram.pending # running => image[running] \in proven

\* No image older than one that was ever confirmed gets control, and the image
\* that has it is not erased under it.
NoRollback == mode = "app" => image[running] >= floor

\* An image that was not confirmed gets control at most MaxAttempts times, and as
\* often again only for a start that failed to read the confirmed image ("An
\* unconfirmed image receives a bounded number of boot attempts",
\* docs/interfaces/ICD-008-firmware-update-recovery.md:23).
TrialsAreBounded == \A s \in Slot : tries[s] <= MaxAttempts * (1 + badReads)

\* A candidate that crashes again and again does not keep the processor: a proven
\* image gets control in the end ("Exhausted, missing, or invalid pending images fall
\* back to the confirmed slot", docs/interfaces/ICD-008-firmware-update-recovery.md:24).
FallsBack == []<>(mode = "app" /\ image[running] \in proven)
============================================================================
