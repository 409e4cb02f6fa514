---------------------------- MODULE ConfigStore ----------------------------
(***************************************************************************)
(* The two-slot record store of firmware/system/common/                    *)
(* openref_config_store.c and the clients built on it: the user settings   *)
(* (openref_settings_runtime.c) and the boot state and device records      *)
(* (openref_boot_state_store.c, openref_device_record_store.c).            *)
(*                                                                         *)
(* A record is its generation and its payload; generation 0 stands for     *)
(* every record decode refuses (magic, schema, length, CRC, generation 0). *)
(* Power may be lost between any two steps; a write may be torn, lost, or  *)
(* durable although it reported failure.                                   *)
(***************************************************************************)
EXTENDS Integers

CONSTANTS
  Value,        \* payloads the client's decoder accepts
  Rejected,     \* payloads only an earlier firmware could have written
  None,
  Half,         \* 2^31 in the code: half the range of a generation
  Unreliable    \* the values of strict under which a read during load may fail

ASSUME StoreAssumption ==
  /\ None \notin Value \cup Rejected
  /\ Value \cap Rejected = {}
  /\ Half \in Nat /\ Half > 1
  /\ Unreliable \subseteq BOOLEAN

VARIABLES
  strict,      \* TRUE: the boot or device store, FALSE: the settings
  slot,        \* the two records in flash
  started,     \* the client has run its load since the last reset
  loaded,      \* openref_config_store_t
  generation,
  active,
  writing,     \* the record of the save in progress, BlankRecord if there is none
  target,      \* and the slot it goes to
  saved        \* payload of the last save, if it returned true

cached    == <<started, loaded, generation, active>>
storeVars == <<strict, slot, cached, writing, target, saved>>

Slots         == {0, 1}
MaxGeneration == 2 * Half - 1
Generation    == 0..MaxGeneration
Payload       == Value \cup Rejected
Record        == [gen : Generation, val : Payload \cup {None}]
BlankRecord   == [gen |-> 0, val |-> None]

StoreTypeOK ==
  /\ strict \in BOOLEAN
  /\ slot \in [Slots -> Record]
  /\ started \in BOOLEAN /\ loaded \in BOOLEAN
  /\ generation \in Generation
  /\ active \in Slots
  /\ writing \in Record
  /\ target \in Slots
  /\ saved \in Value \cup {None}

\* Mistake: the older record wins.
Newer_Reversed(candidate, reference) == candidate < reference

\* (int32_t)(candidate - reference) > 0
Newer(candidate, reference) ==
  \/ candidate > reference /\ candidate - reference < Half
  \/ candidate < reference /\ reference - candidate > Half

\* The slot load selects among those that decode.
Select(valid) ==
  IF 1 \in valid /\ (0 \notin valid \/ Newer(slot[1].gen, slot[0].gen)) THEN 1 ELSE 0

Decodes == {s \in Slots : slot[s].gen # 0}

\* What a load without read errors returns.
Durable == IF Decodes = {} THEN None ELSE slot[Select(Decodes)].val

----------------------------------------------------------------------------
(* Flash as earlier saves may have left it: blank, one record, or two of   *)
(* adjacent generations; RAM as openref_config_store_init leaves it.       *)

Used(g, v)  == [gen |-> g, val |-> v]

EarlierFlash ==
  \/ slot = [s \in Slots |-> BlankRecord]
  \/ \E v \in Payload : slot = [s \in Slots |-> IF s = 0 THEN Used(1, v) ELSE BlankRecord]
  \/ \E v, w \in Payload, g \in 1..MaxGeneration - 1, s \in Slots :
       slot = [t \in Slots |-> IF t = s THEN Used(g + 1, v) ELSE Used(g, w)]

StoreInit ==
  /\ strict \in BOOLEAN
  /\ EarlierFlash
  /\ started = FALSE /\ loaded = FALSE /\ generation = 0 /\ active = 0
  /\ writing = BlankRecord /\ target = 0 /\ saved = None

NotSaving == writing = BlankRecord

\* openref_config_store_load; a strict client forgets a record whose payload it
\* cannot decode, the settings client keeps the store loaded and uses defaults.
LoadSucceeds(valid) ==
  /\ valid # {}
  /\ active' = Select(valid)
  /\ generation' = slot[active'].gen
  /\ loaded' = ~(strict /\ slot[active'].val \in Rejected)

LoadFails(valid) ==
  /\ valid = {}
  /\ loaded' = FALSE
  /\ UNCHANGED <<generation, active>>

Load(unread) ==
  /\ NotSaving
  /\ unread # {} => strict \in Unreliable
  /\ started' = TRUE
  /\ LoadSucceeds(Decodes \ unread) \/ LoadFails(Decodes \ unread)
  /\ UNCHANGED <<strict, slot, writing, target, saved>>

\* What openref_config_store_save is about to write, and where.
NextGeneration == IF loaded THEN generation + 1 ELSE 1

TargetSlot == IF loaded THEN 1 - active ELSE 0

\* store->generation == UINT32_MAX
Exhausted == generation = MaxGeneration

\* The backend's write: durable, torn or without effect, whatever it reports.
Write(record) ==
  /\ ~Exhausted
  /\ writing' = record /\ target' = TargetSlot
  /\ \E stored \in {record, BlankRecord, slot[TargetSlot]} :
       slot' = [slot EXCEPT ![TargetSlot] = stored]
  /\ saved' = None
  /\ UNCHANGED <<strict, cached>>

\* openref_settings_runtime_save (whose runtime exists only after its init has
\* tried to load), openref_boot_state_store_save, openref_device_record_store_save.
Save(v) ==
  /\ NotSaving /\ started
  /\ strict => loaded
  /\ Write(Used(NextGeneration, v))

\* The strict stores' factory_initialize, which nothing in the repository calls;
\* taken for a part whose first record is not yet followed by one in slot 1.
FactoryInitialize(v) ==
  /\ strict /\ NotSaving /\ ~loaded
  /\ slot[1] = BlankRecord
  /\ Write(Used(NextGeneration, v))

\* Mistake: the save is reported without comparing what was read back.
ReadsBack_Skipped == TRUE

ReadsBack == slot[target] = writing

\* The readback agrees: only now does the RAM state move to the new record.
Commit ==
  /\ ~NotSaving /\ ReadsBack
  /\ generation' = writing.gen /\ active' = target /\ loaded' = TRUE
  /\ saved' = writing.val
  /\ writing' = BlankRecord /\ target' = 0
  /\ UNCHANGED <<strict, slot, started>>

\* The write reported failure, or the readback failed or disagreed.
GiveUp ==
  /\ ~NotSaving
  /\ writing' = BlankRecord /\ target' = 0
  /\ UNCHANGED <<strict, slot, cached, saved>>

\* Reset or brownout; the next start runs openref_config_store_init.
PowerLoss ==
  /\ started' = FALSE /\ loaded' = FALSE /\ generation' = 0 /\ active' = 0
  /\ writing' = BlankRecord /\ target' = 0
  /\ UNCHANGED <<strict, slot, saved>>

StoreNext ==
  \/ \E unread \in SUBSET Slots : Load(unread)
  \/ \E v \in Value : Save(v) \/ FactoryInitialize(v)
  \/ Commit
  \/ GiveUp
  \/ PowerLoss

StoreSpec == StoreInit /\ [][StoreNext]_storeVars

----------------------------------------------------------------------------
(* Properties.                                                             *)

\* A save that returned true is what a later start loads: it is the newest
\* record of the flash until another save begins, through any number of power
\* cycles ("preserves ... settings across reset, brownout, and battery
\* replacement", docs/interfaces/ICD-009-persistent-configuration.md:9-10).
SavedIsDurable == saved # None => Durable = saved

\* Records in flash are never more than one generation apart, so the
\* serial-number comparison of load is never asked about two records it orders
\* the wrong way round.
GenerationsAdjacent ==
  Decodes = Slots =>
    \/ slot[0].gen = slot[1].gen + 1
    \/ slot[1].gen = slot[0].gen + 1

\* The store behaves as one durable value: a corrupt or interrupted newest record
\* falls back to the prior valid record (ICD-009:29-31), which is the one the
\* client has loaded or saved.
Register == INSTANCE DurableRegister WITH
  Content <- Payload, Nothing <- None,
  durable <- Durable, known <- IF loaded THEN slot[active].val ELSE None,
  request <- writing.val, saved <- saved

IsDurableRegister == Register!RSpec
============================================================================
