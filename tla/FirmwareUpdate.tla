---------------------------- MODULE FirmwareUpdate ----------------------------
(***************************************************************************)
(* Updates of the firmware and of the web interface                        *)
(* (main/http_server/http_server.c, main/system.c). The device serves the  *)
(* interface of its firmware, or one uploaded to the www partition when a  *)
(* setting says so; the setting must not outlive the firmware it was made  *)
(* for. Settings are saved by nvs_task, in order, some time after they are *)
(* set, and the device may lose its power at any time.                     *)
(***************************************************************************)
EXTENDS Naturals, Sequences

CONSTANTS
    Firmware,           \* builds; their fingerprints tell them apart
    MaxQueue, MaxUploads, MaxRestarts     \* bounds

None == "none"          \* no fingerprint, and no interface in the partition
Partial == "partial"    \* an interface of which a part was written
TurnOn == "custom"      \* useCustomWWW is set, and cleared
TurnOff == "no custom"
Prints == Firmware \union {None}
Settings == [custom: BOOLEAN, fingerprint: Prints]
Changes == {TurnOn, TurnOff} \union Prints

VARIABLES
    slots,              \* the firmware in the two application partitions
    boot, running,      \* the partitions to boot from and running
    www,                \* the www partition: the firmware it was uploaded under
    mounted,            \* filesystem_is_available
    cache,              \* the settings useCustomWWW and the last fingerprint
    flash, queue,       \* stored settings, and updates waiting for nvs_task
    apMode,             \* the configuration access point is on
    handler,            \* what the HTTP server is doing
    updating,           \* is_firmware_update
    hurried,            \* history: an upload of an interface ended before the
                        \* settings set earlier were saved
    uploads, restarts

stored == <<cache, flash, queue>>
counters == <<uploads, restarts>>
vars == <<slots, boot, running, www, mounted, stored, apMode, handler, updating, hurried,
          counters>>

Slots == {1, 2}
Other(s) == 3 - s
Handlers == {"boot", "idle", "www", "ota", "reset", "rebooting"}

TypeOK ==
    /\ slots \in [Slots -> Firmware \union {Partial}] /\ boot \in Slots /\ running \in Slots
    /\ www \in Firmware \union {None, Partial}
    /\ cache \in Settings /\ flash \in Settings
    /\ queue \in Seq(Changes) /\ Len(queue) <= MaxQueue
    /\ {mounted, apMode, updating, hurried} \subseteq BOOLEAN
    /\ handler \in Handlers

Init ==
    /\ \E f \in Firmware : slots = [s \in Slots |-> f]
    /\ boot = 1 /\ running = 1 /\ www = None /\ mounted = FALSE
    /\ flash = [custom |-> FALSE, fingerprint |-> None] /\ cache = flash /\ queue = <<>>
    /\ apMode = FALSE /\ handler = "boot" /\ updating = FALSE /\ hurried = FALSE
    /\ uploads = 0 /\ restarts = 0

(* nvs_config_set_bool() and nvs_config_set_string(), in this order         *)
Applied(settings, change) ==
    CASE change = TurnOn -> [settings EXCEPT !.custom = TRUE]
      [] change = TurnOff -> [settings EXCEPT !.custom = FALSE]
      [] OTHER -> [settings EXCEPT !.fingerprint = change]

AllApplied(settings, changes) ==
    CASE changes = <<>> -> settings
      [] Len(changes) = 1 -> Applied(settings, changes[1])
      [] OTHER -> Applied(Applied(settings, changes[1]), changes[2])

Set(changes) ==
    /\ Len(queue) + Len(changes) <= MaxQueue /\ queue' = queue \o changes
    /\ cache' = AllApplied(cache, changes)

Save ==
    /\ queue # <<>> /\ queue' = Tail(queue) /\ flash' = Applied(flash, Head(queue))
    /\ UNCHANGED <<slots, boot, running, www, mounted, cache, apMode, handler, updating, hurried,
                   counters>>

(* SYSTEM_check_firmware_migration(): a new build gives up the custom web   *)
(* interface, and only then takes over the fingerprint.                     *)
Migration_PrintFirst(f) ==
    IF cache.fingerprint = f THEN <<>>
    ELSE IF cache.custom THEN <<f, TurnOff>> ELSE <<f>>

Migration(f) ==
    IF cache.fingerprint = f THEN <<>>
    ELSE IF cache.custom THEN <<TurnOff, f>> ELSE <<f>>

(* app_main(): the file system is mounted when the setting asks for it; a   *)
(* part of one may mount or not, and nothing is formatted.                  *)
Boot ==
    /\ handler = "boot" /\ handler' = "idle"
    /\ Set(Migration(slots[running]))
    /\ mounted' \in IF cache'.custom /\ www # None
                    THEN {TRUE} \union (IF www = Partial THEN {FALSE} ELSE {}) ELSE {FALSE}
    /\ UNCHANGED <<slots, boot, running, www, flash, apMode, updating, hurried,
                   counters>>

(* POST_WWW_update() erases the partition; the upload ends or fails, which  *)
(* leaves is_firmware_update set.                                           *)
BeginWww ==
    /\ handler = "idle" /\ ~apMode /\ uploads < MaxUploads /\ uploads' = uploads + 1
    /\ handler' = "www" /\ updating' = TRUE /\ www' = None
    /\ UNCHANGED <<slots, boot, running, mounted, stored, apMode, hurried, restarts>>

WriteWww ==
    /\ handler = "www" /\ www' = Partial
    /\ UNCHANGED <<slots, boot, running, mounted, stored, apMode, handler, updating,
                   hurried, counters>>

EndWww ==
    /\ handler = "www" /\ handler' = "rebooting" /\ www' = slots[running] /\ updating' = FALSE
    /\ Set(<<TurnOn>>) /\ hurried' = (hurried \/ queue # <<>>)
    /\ UNCHANGED <<slots, boot, running, mounted, flash, apMode, counters>>

(* POST_OTA_update() writes the partition that is not running, which is     *)
(* verified before it becomes the one to boot from.                         *)
BeginOta ==
    /\ handler = "idle" /\ ~apMode /\ uploads < MaxUploads /\ uploads' = uploads + 1
    /\ handler' = "ota" /\ updating' = TRUE
    /\ slots' = [slots EXCEPT ![Other(running)] = Partial]
    /\ UNCHANGED <<boot, running, www, mounted, stored, apMode, hurried, restarts>>

Activates == handler' = "reset" /\ boot' = Other(running)

EndOta(f) ==
    /\ handler = "ota" /\ Activates /\ slots' = [slots EXCEPT ![Other(running)] = f]
    /\ UNCHANGED <<running, www, mounted, stored, apMode, updating, hurried,
                   counters>>

(* POST_system_boot(): the other partition, when a firmware is on it        *)
SwitchPartition ==
    /\ handler = "idle" /\ slots[Other(running)] # Partial /\ Activates
    /\ UNCHANGED <<slots, running, www, mounted, stored, apMode, updating, hurried,
                   counters>>

(* Both go on with SYSTEM_reset_custom_www().                               *)
ResetCustomWww ==
    /\ handler = "reset" /\ handler' = "rebooting" /\ Set(<<TurnOff, None>>)
    /\ UNCHANGED <<slots, boot, running, www, mounted, flash, apMode, updating, hurried,
                   counters>>

UploadFails ==
    /\ handler \in {"www", "ota"} /\ handler' = "idle"
    /\ UNCHANGED <<slots, boot, running, www, mounted, stored, apMode, updating,
                   hurried, counters>>

ApSwitches ==
    /\ apMode' = ~apMode
    /\ UNCHANGED <<slots, boot, running, www, mounted, stored, handler, updating,
                   hurried, counters>>

(* esp_restart() after a second, or a loss of power at any time             *)
Restart ==
    /\ restarts < MaxRestarts /\ restarts' = restarts + 1
    /\ running' = boot /\ handler' = "boot" /\ mounted' = FALSE /\ updating' = FALSE
    /\ cache' = flash /\ queue' = <<>>
    /\ UNCHANGED <<slots, boot, www, flash, apMode, hurried, uploads>>

Next ==
    \/ Save \/ Boot \/ BeginWww \/ WriteWww \/ EndWww \/ BeginOta
    \/ \E f \in Firmware : EndOta(f)
    \/ UploadFails \/ SwitchPartition \/ ResetCustomWww \/ ApSwitches \/ Restart

Spec == Init /\ [][Next]_vars

---------------------------------------------------------------------------
(* The custom interface that is served (but for parts of one) was uploaded  *)
(* under the firmware that runs, wherever an update or the saving of the    *)
(* settings was interrupted, unless an upload ended before the settings set *)
(* earlier were saved; and a partition to boot from is never one that is    *)
(* being written.                                                           *)
InterfaceMatchesFirmware ==
    /\ handler = "idle" /\ cache.custom /\ mounted /\ ~hurried => www \in {slots[running], None, Partial}
    /\ slots[boot] # Partial
=============================================================================
