------------------------------ MODULE DeviceName ------------------------------
(***************************************************************************)
(* The name of the device in its network: the host name in the settings,    *)
(* the one mDNS advertises and the one DHCP is told                         *)
(* (components/connect/connect.c), set at the first address by a task of    *)
(* its own and by PATCH /api/system (main/http_server/http_server.c, whose  *)
(* other settings are in SettingsRequest). Both ask the network for a       *)
(* second whether another device has the name.                              *)
(***************************************************************************)
EXTENDS Naturals

CONSTANTS
    None,               \* no name
    Bases,              \* what users call their devices
    MaxPatches, MaxErrors, MaxRestarts   \* bounds

VARIABLES
    saved,              \* NVS_CONFIG_HOSTNAME
    mdns,               \* mdns_init() has succeeded
    initialized,        \* mdns_initialized
    task,               \* mdns_init_in_progress, and the name mdns_init_task asks for
    request,            \* the PATCH that waits, the names before it and as sent
    advertised, named,  \* what mDNS answers for; SYSTEM_MODULE.mdns_hostname
    dhcp,               \* the station's host name
    redirect,           \* the name in the answer to the last PATCH
    taken,              \* the names of other devices
    overlapped,         \* history: a PATCH and the task were between asking and naming
    failed,             \* history: the last naming failed
    patches, errors, restarts
vars == <<saved, mdns, initialized, task, request, advertised, named, dhcp, redirect, taken,
          overlapped, failed, patches, errors, restarts>>
kept == <<taken, patches, restarts>>

(* A name may end in ".local", and in the two bytes of the address that     *)
(* make it unique.                                                          *)
Name(base, unique, local) == [base |-> base, unique |-> unique, local |-> local]
Plain(base) == Name(base, 0, FALSE)
normalize_hostname(n) == [n EXCEPT !.local = FALSE]
generate_unique_hostname(n) == [n EXCEPT !.unique = @ + 1]

Idle == [pc |-> "idle", name |-> None, old |-> None, sent |-> None]

Init ==
    /\ saved \in {Plain(b) : b \in Bases} /\ dhcp = saved
    /\ mdns = FALSE /\ initialized = FALSE /\ task = Idle /\ request = Idle
    /\ advertised = None /\ named = None /\ redirect = None /\ taken = {}
    /\ overlapped = FALSE /\ failed = FALSE
    /\ patches = 0 /\ errors = 0 /\ restarts = 0

(* check_and_resolve_hostname_conflict(), a second after it asked.          *)
Resolved(name) == IF mdns /\ name \in taken THEN generate_unique_hostname(name) ELSE name

(* mdns_hostname_set(): it works, or it fails, as it always does before     *)
(* mdns_init(). The settings have the name whatever it does.                *)
SetName(name) ==
    \/ /\ mdns /\ advertised' = name /\ named' = name /\ failed' = FALSE
       /\ UNCHANGED errors
    \/ /\ mdns /\ errors < MaxErrors /\ errors' = errors + 1 /\ failed' = TRUE
       /\ UNCHANGED <<advertised, named>>
    \/ ~mdns /\ UNCHANGED <<advertised, named, failed, errors>>

Overlap == overlapped' = (overlapped \/ (task.pc = "asking" /\ request.pc = "asking"))

---------------------------------------------------------------------------
(* IP_EVENT_STA_GOT_IP or IP_EVENT_GOT_IP6: spawn_mdns_init_if_needed().     *)
GotAddress ==
    /\ ~initialized /\ task.pc = "idle"
    /\ task' = [Idle EXCEPT !.pc = "spawned"]
    /\ UNCHANGED <<saved, mdns, initialized, request, advertised, named, dhcp, redirect,
                   overlapped, failed, errors, kept>>

(* initialize_mdns_if_needed(): the name is read, and asked for.            *)
InitMdns ==
    /\ task.pc = "spawned" /\ mdns' = TRUE
    /\ task' = [task EXCEPT !.pc = "asking", !.name = saved]
    /\ overlapped' = (overlapped \/ request.pc = "asking")
    /\ UNCHANGED <<saved, initialized, request, advertised, named, dhcp, redirect, failed,
                   errors, kept>>

InitFails ==
    /\ task.pc = "spawned" /\ errors < MaxErrors /\ errors' = errors + 1
    /\ task' = Idle
    /\ UNCHANGED <<saved, mdns, initialized, request, advertised, named, dhcp, redirect,
                   overlapped, failed, kept>>

InitNames ==
    /\ task.pc = "asking"
    /\ LET name == Resolved(task.name) IN
       /\ saved' = IF name # task.name THEN name ELSE saved
       /\ SetName(name)
    /\ initialized' = TRUE /\ task' = Idle /\ Overlap
    /\ UNCHANGED <<mdns, request, dhcp, redirect, kept>>

---------------------------------------------------------------------------
(* PATCH with a host name: it is saved, and asked for.                      *)
Patch ==
    /\ request.pc = "idle" /\ patches < MaxPatches /\ patches' = patches + 1
    /\ \E base \in Bases, local \in BOOLEAN :
         LET sent == Name(base, 0, local) IN
         /\ request' = [pc |-> "asking", name |-> normalize_hostname(sent), old |-> saved, sent |-> sent]
         /\ saved' = normalize_hostname(sent)
    /\ redirect' = None
    /\ overlapped' = (overlapped \/ task.pc = "asking")
    /\ UNCHANGED <<mdns, initialized, task, advertised, named, dhcp, taken, failed, errors, restarts>>

(* wifi_apply_hostname(), with a station: the name as it was sent.           *)
ApplyHostname == dhcp' = IF request.sent # request.old THEN request.sent ELSE dhcp

(* update_mdns_hostname(), and the answer.                                  *)
PatchNames ==
    /\ request.pc = "asking"
    /\ LET name == Resolved(request.name)
           new == IF name # request.name THEN name ELSE saved IN
       /\ saved' = new
       /\ SetName(name)
       /\ redirect' = IF request.name # request.old THEN new ELSE None
    /\ ApplyHostname
    /\ request' = Idle /\ Overlap
    /\ UNCHANGED <<mdns, initialized, task, kept>>

---------------------------------------------------------------------------
(* Another device takes a name (external).                                  *)
Neighbour ==
    /\ \E b \in Bases : taken' = taken \union {Plain(b)}
    /\ taken' # taken /\ request.pc = "idle" /\ task.pc = "idle"
    /\ UNCHANGED <<saved, mdns, initialized, task, request, advertised, named, dhcp, redirect,
                   overlapped, failed, patches, errors, restarts>>

Restart ==
    /\ restarts < MaxRestarts /\ restarts' = restarts + 1
    /\ mdns' = FALSE /\ initialized' = FALSE /\ task' = Idle /\ request' = Idle
    /\ advertised' = None /\ named' = None /\ dhcp' = saved /\ redirect' = None
    /\ overlapped' = FALSE /\ failed' = FALSE
    /\ UNCHANGED <<saved, taken, patches, errors>>

Next ==
    \/ GotAddress \/ InitMdns \/ InitFails \/ InitNames
    \/ Patch \/ PatchNames \/ Neighbour \/ Restart

Spec == Init /\ [][Next]_vars

---------------------------------------------------------------------------
Names == {Name(b, u, FALSE) : b \in Bases, u \in 0..MaxPatches + restarts + 1}

TypeOK ==
    /\ saved \in Names /\ {advertised, named, redirect} \subseteq Names \union {None}
    /\ dhcp \in Names \union {Name(b, 0, TRUE) : b \in Bases} /\ taken \subseteq Names
    /\ task.pc \in {"idle", "spawned", "asking"} /\ request.pc \in {"idle", "asking"}

(* When nobody waits for the network's answer, the device has one name: the  *)
(* one that is saved is advertised and shown, DHCP knows its stem, and a     *)
(* browser that was sent to the new name finds the device, unless the first  *)
(* look at the network found that name taken. A PATCH in the second that     *)
(* look takes is excluded: the task then names the device as before.         *)
NameIsKnown ==
    task.pc # "asking" /\ request.pc = "idle" /\ ~overlapped =>
        /\ initialized /\ ~failed => advertised = saved /\ named = saved
        /\ dhcp.base = saved.base
        /\ redirect # None => redirect = saved \/ saved = generate_unique_hostname(redirect)
=============================================================================
