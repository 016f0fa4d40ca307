------------------------------- MODULE SetupBle -------------------------------
(***************************************************************************)
(* Set-up over Bluetooth (main/setup_ble.c): while the device has no        *)
(* network, a client can write the WiFi and pool settings one by one, have  *)
(* them applied, and restart the device. The web interface, which the       *)
(* device's own access point serves meanwhile, edits the same settings.     *)
(***************************************************************************)
EXTENDS Naturals, Sequences

CONSTANTS
    Inputs,             \* what clients write: [field -> the values]
    Edit,               \* a pool as the web interface stores it
    None,
    MaxWrites, MaxCommands, MaxEdits, MaxErrors, MaxRestarts    \* bounds

VARIABLES
    ap, connected,      \* ap_enabled, is_connected
    phase,              \* of the service: "off", "starting", "on", "stopped", "left" (running
                        \*   on, as it could not be stopped)
    synced, advertising, client,
    fields, written,    \* setup_ble_state: the values, which a client has written
    status,
    applying,           \* where APPLY is: "no", "wifi", "pool", "store"
    document,           \* root, while APPLY works on it
    target,             \* pool_index
    settings,           \* of nvs_config: ssid, wifiPass, primary, pools
    asked, applied,     \* history: the fields written since they were last applied or
                        \*   forgotten; those that were applied last
    before, raced,      \* history: the settings when APPLY began; the web changed them since
    unseen,             \* history: advertising could not be started, or nobody saw that it ended
    writes, commands, edits, errors, restarts

bounds == <<writes, commands, edits, errors, restarts>>
service == <<ap, connected, phase, synced, advertising, client, unseen>>
form == <<fields, written, status, asked, applied>>
apply == <<applying, document, target, before>>
vars == <<service, form, apply, settings, raced, bounds>>

WifiFields == {"ssid", "wifiPass"}
PoolFields == {"url", "port", "user", "pass"}
Fields == WifiFields \union PoolFields
Keys == {"url", "port", "user", "pass", "tls", "protocol"}
Empty == [k \in Keys |-> None]      \* no document
Blank == [f \in Fields |-> None]
Bad == "bad"                        \* no port number

---------------------------------------------------------------------------
(* parse_pool_config_json(): what a document doesn't say has a default.     *)
Default(index) ==
    [url |-> IF index = 0 THEN <<"public-pool.io">> ELSE <<>>,
     port |-> "3333", user |-> IF index = 0 THEN "default" ELSE "", pass |-> "x",
     tls |-> "disabled", protocol |-> "SV1"]

Parsed(pool, index) ==
    [k \in Keys |-> IF pool[k] = None THEN Default(index)[k] ELSE pool[k]]

Init ==
    /\ ap = FALSE /\ connected = FALSE /\ phase = "off" /\ synced = FALSE
    /\ advertising = FALSE /\ client = FALSE
    /\ fields = Blank /\ written = {} /\ status = "none"
    /\ applying = "no" /\ document = Empty /\ target = 0
    /\ settings \in [ssid : {"home"}, wifiPass : {"secret"}, primary : {0},
                     pools : {[i \in {0, 1} |-> IF i = 0 THEN Empty ELSE Edit]}]
    /\ asked = Blank /\ applied = Blank /\ before = settings /\ raced = FALSE /\ unseen = FALSE
    /\ writes = 0 /\ commands = 0 /\ edits = 0 /\ errors = 0 /\ restarts = 0

Fails == errors < MaxErrors /\ errors' = errors + 1

(* connect.c: the access point comes up without a network, and goes down    *)
(* with one.                                                                *)
Environment ==
    /\ ~connected
    /\ \/ ~ap /\ ap' = TRUE /\ UNCHANGED connected
       \/ connected' = TRUE /\ ap' = FALSE
    /\ UNCHANGED <<phase, synced, advertising, client, unseen, form, apply, settings, raced,
                   bounds>>

(* setup_ble_load_current_config()                                          *)
Load ==
    /\ fields' = [Blank EXCEPT !.ssid = settings.ssid,
                               !.url = settings.pools[settings.primary].url,
                               !.port = settings.pools[settings.primary].port,
                               !.user = settings.pools[settings.primary].user]
    /\ written' = {} /\ status' = "READY" /\ asked' = Blank /\ UNCHANGED applied

(* app_main calls setup_ble_start() until there is a network; it fails when *)
(* the host or its services can't be set up.                                *)
Start ==
    /\ phase = "off" /\ ap /\ ~connected
    /\ Load
    /\ \/ phase' = "starting" /\ UNCHANGED errors
       \/ Fails /\ UNCHANGED phase
    /\ UNCHANGED <<ap, connected, synced, advertising, client, unseen, apply, settings,
                   raced, writes, commands, edits, restarts>>

Started ==
    /\ phase = "starting" /\ phase' = "on"
    /\ UNCHANGED <<ap, connected, synced, advertising, client, unseen, form, apply,
                   settings, raced, bounds>>

(* setup_ble_advertise(): a failure is logged.                              *)
Advertise ==
    \/ advertising' = TRUE /\ unseen' = FALSE /\ UNCHANGED errors
    \/ Fails /\ advertising' = FALSE /\ unseen' = TRUE

Runs == phase \in {"starting", "on", "left"}

(* setup_ble_on_sync()                                                      *)
Sync ==
    /\ phase \in {"starting", "on"} /\ ~synced
    /\ \/ synced' = TRUE /\ Advertise
       \/ Fails /\ synced' = FALSE /\ unseen' = TRUE /\ UNCHANGED advertising
    /\ UNCHANGED <<ap, connected, phase, client, form, apply, settings, raced, writes,
                   commands, edits, restarts>>

(* setup_ble_gap_event(): whenever advertising or a connection has ended it *)
(* advertises again, but not before setup_ble_start() is done.              *)
Again ==
    \/ phase = "on" /\ Advertise
    \/ phase # "on" /\ advertising' = FALSE /\ unseen' = TRUE /\ UNCHANGED errors

Connect ==
    /\ Runs /\ advertising /\ client' = TRUE /\ advertising' = FALSE
    /\ UNCHANGED <<ap, connected, phase, synced, unseen, form, apply, settings, raced,
                   bounds>>

LinkFails ==
    /\ Runs /\ advertising /\ Again
    /\ UNCHANGED <<ap, connected, phase, synced, client, form, apply, settings, raced,
                   writes, commands, edits, restarts>>

Disconnect ==
    /\ Runs /\ client /\ applying = "no" /\ client' = FALSE /\ Again
    /\ UNCHANGED <<ap, connected, phase, synced, form, apply, settings, raced, writes,
                   commands, edits, restarts>>

(* setup_ble_stop(), once there is a network; nimble_port_stop() ends the   *)
(* connection and waits for the host's task, or fails.                      *)
Stop ==
    /\ phase = "on" /\ connected /\ applying = "no"
    /\ advertising' = FALSE /\ synced' = FALSE
    /\ \/ phase' = "stopped" /\ client' = FALSE /\ UNCHANGED errors
       \/ Fails /\ phase' = "left" /\ UNCHANGED client
    /\ UNCHANGED <<ap, connected, unseen, form, apply, settings, raced, writes, commands,
                   edits, restarts>>

---------------------------------------------------------------------------
(* The result of APPLY (history) matters while the status shows it.         *)
Shown == status \in {"APPLIED_RESTART_REQUIRED", "ERROR_INVALID_POOL_PORT"}
Forget == applied' = Blank /\ before' = settings /\ raced' = FALSE

(* setup_ble_write_field(); a value that is too long is refused.            *)
Write(field, value) ==
    /\ Runs /\ client /\ applying = "no" /\ writes < MaxWrites /\ writes' = writes + 1
    /\ fields' = [fields EXCEPT ![field] = value]
    /\ written' = written \union {field}
    /\ asked' = [asked EXCEPT ![field] = value]
    /\ status' = "PENDING_APPLY" /\ Forget
    /\ UNCHANGED <<service, applying, document, target, settings, commands, edits, errors, restarts>>
Command ==
    /\ Runs /\ client /\ applying = "no"
    /\ commands < MaxCommands /\ commands' = commands + 1

(* setup_ble_apply_config(): a port that is no number ends it ...           *)
Apply ==
    /\ Command /\ before' = settings /\ raced' = FALSE
    /\ IF "port" \in written /\ fields.port = Bad
       THEN status' = "ERROR_INVALID_POOL_PORT" /\ UNCHANGED applying
       ELSE applying' = "wifi" /\ UNCHANGED status
    /\ UNCHANGED <<service, fields, written, asked, applied, document, target, settings,
                   writes, edits, errors, restarts>>

ApplyWifi ==
    /\ applying = "wifi"
    /\ settings' = [settings EXCEPT
                      !.ssid = IF "ssid" \in written THEN fields.ssid ELSE @,
                      !.wifiPass = IF "wifiPass" \in written THEN fields.wifiPass ELSE @]
    /\ applying' = "pool"
    /\ UNCHANGED <<service, form, document, target, before, raced, bounds>>

(* setup_ble_apply_pool_url(): the scheme decides about TLS, and a port in  *)
(* the URL counts unless one was written; what is no port stays in the name.*)
WithUrl(pool, url) ==
    [pool EXCEPT
       !.tls = IF url.scheme = "" THEN @ ELSE IF url.scheme = "tcp" THEN "disabled" ELSE "bundled",
       !.port = IF url.port \in {"", Bad} \/ "port" \in written THEN @ ELSE url.port,
       !.url = IF url.port = Bad THEN <<url.host, Bad>> ELSE <<url.host>>]

With(pool, f) ==
    IF f \notin written THEN pool
    ELSE IF f = "url" THEN WithUrl(pool, fields.url)
    ELSE [pool EXCEPT ![f] = fields[f]]

ApplyPool ==
    /\ applying = "pool" /\ target' = settings.primary
    /\ document' = With(With(With(With(settings.pools[target'], "url"), "port"), "user"), "pass")
    /\ applying' = "store"
    /\ UNCHANGED <<service, form, before, settings, raced, bounds>>

(* ... unless there is no memory for it; the WiFi settings stay changed.    *)
ApplyFails ==
    /\ applying \in {"pool", "store"} /\ written \intersect PoolFields # {} /\ Fails
    /\ applying' = "no" /\ document' = Empty /\ status' = "ERROR_POOL_ALLOC"
    /\ UNCHANGED <<service, fields, written, asked, applied, target, before, settings, raced,
                   writes, commands, edits, restarts>>

(* The whole document is stored.                                            *)
Store ==
    /\ applying = "store" /\ applying' = "no" /\ document' = Empty
    /\ settings' = IF written \intersect PoolFields = {} THEN settings
                   ELSE [settings EXCEPT !.pools[target] = document]
    /\ status' = "APPLIED_RESTART_REQUIRED" /\ written' = {}
    /\ applied' = asked /\ asked' = Blank
    /\ target' = 0
    /\ UNCHANGED <<service, fields, before, raced, bounds>>

(* The other commands change the status alone, also RESTART: its task, if it*)
(* can be created, restarts the device half a second later.                 *)
OtherCommand ==
    /\ Command
    /\ status' \in {"RESTARTING", "ERROR_UNKNOWN_COMMAND",
                    IF ap THEN "READY_AP_1" ELSE "READY_AP_0"}
    /\ Forget
    /\ UNCHANGED <<service, fields, written, asked, applying, document, target, settings, writes,
                   edits, errors, restarts>>

(* setup_ble_restart_task, or the power is lost: also amid an application.  *)
(* Before, a restart leads back to the beginning.                           *)
Restart ==
    /\ applying # "no" \/ Shown \/ status = "RESTARTING"
    /\ restarts < MaxRestarts /\ restarts' = restarts + 1
    /\ ap' = FALSE /\ connected' = FALSE /\ phase' = "off" /\ synced' = FALSE
    /\ advertising' = FALSE /\ client' = FALSE /\ unseen' = FALSE
    /\ fields' = Blank /\ written' = {} /\ status' = "none" /\ asked' = Blank
    /\ applying' = "no" /\ document' = Empty /\ target' = 0
    /\ applied' = Blank /\ before' = settings /\ raced' = FALSE
    /\ UNCHANGED <<settings, writes, commands, edits, errors>>

(* PATCH /api/system: the primary pool, or which one it is. Before the      *)
(* client's first write it makes no difference: settings differ at first.   *)
EditSettings ==
    /\ edits < MaxEdits /\ edits' = edits + 1
    /\ (ap \/ connected) /\ status \notin {"none", "READY"}
    /\ \/ settings' = [settings EXCEPT !.pools[settings.primary] = Edit]
       \/ settings' = [settings EXCEPT !.primary = 1 - @]
    /\ raced' = (applying # "no" \/ Shown)
    /\ before' = IF raced' THEN before ELSE settings'
    /\ UNCHANGED <<service, form, applying, document, target, writes, commands, errors, restarts>>

Next ==
    \/ Environment \/ Start \/ Started \/ Sync \/ Connect \/ LinkFails \/ Disconnect \/ Stop
    \/ \E field \in DOMAIN Inputs : \E value \in Inputs[field] : Write(field, value)
    \/ Apply \/ ApplyWifi \/ ApplyPool \/ ApplyFails \/ Store
    \/ OtherCommand \/ Restart \/ EditSettings

Spec == Init /\ [][Next]_vars

---------------------------------------------------------------------------
TypeOK ==
    /\ phase \in {"off", "starting", "on", "stopped", "left"}
    /\ applying \in {"no", "wifi", "pool", "store"}
    /\ {ap, connected, synced, advertising, client, raced, unseen} \subseteq BOOLEAN
    /\ written \subseteq Fields /\ target \in {0, 1} /\ settings.primary \in {0, 1}

(* The pool that was the primary one, as the miner reads it.                *)
Pool(s) == Parsed(s.pools[before.primary], before.primary)

(* What a URL says about a key beside the name.                             *)
PortAsked ==
    IF applied.port # None THEN applied.port
    ELSE IF applied.url = None \/ applied.url.port \in {"", Bad} THEN Pool(before).port
    ELSE applied.url.port

TlsAsked ==
    IF applied.url = None \/ applied.url.scheme = "" THEN Pool(before).tls
    ELSE IF applied.url.scheme = "tcp" THEN "disabled" ELSE "bundled"

(* APPLY changes what was written since the last one, and nothing else, if  *)
(* the web interface doesn't change the settings meanwhile; nothing at all  *)
(* if it is refused. And the service can be found while nobody uses it.     *)
SetupIsDone ==
    /\ status = "APPLIED_RESTART_REQUIRED" /\ applying = "no" /\ ~raced =>
         /\ settings.ssid = IF applied.ssid = None THEN before.ssid ELSE applied.ssid
         /\ settings.wifiPass =
              IF applied.wifiPass = None THEN before.wifiPass ELSE applied.wifiPass
         /\ settings.primary = before.primary
         /\ settings.pools[1 - before.primary] = before.pools[1 - before.primary]
         /\ \A k \in {"user", "pass"} :
              Pool(settings)[k] = IF applied[k] = None THEN Pool(before)[k] ELSE applied[k]
         /\ Pool(settings).port = PortAsked /\ Pool(settings).tls = TlsAsked
         /\ Pool(settings).protocol = Pool(before).protocol
         /\ applied.url = None => Pool(settings).url = Pool(before).url
         /\ applied.url # None => Head(Pool(settings).url) = applied.url.host
    /\ status = "ERROR_INVALID_POOL_PORT" /\ ~raced => settings = before
    /\ phase = "on" /\ synced /\ ~client /\ ~unseen => advertising
=============================================================================
