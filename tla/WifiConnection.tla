---------------------------- MODULE WifiConnection ----------------------------
(***************************************************************************)
(* The WiFi station (components/connect/connect.c): the handler of the     *)
(* events of the driver, which the event loop calls one by one, the timer  *)
(* that waits for an address, and wifi_scan() in the HTTP server's task.   *)
(* The driver, external, never reconnects by itself. Leases are not lost.  *)
(***************************************************************************)
EXTENDS Integers, Sequences

CONSTANTS MaxEvents, MaxClients, MaxScans, MaxDrops     \* bounds

VARIABLES
    link,               \* the driver's station
    events,             \* events the event loop has yet to deliver
    waiting,            \* the event loop is in the five seconds before a retry
    armed,              \* ip_acquire_timer runs
    isConnected,        \* SYSTEM_MODULE.is_connected
    ap, byHand,         \* the access point is on; it was switched by the button
    isScanning,         \* is_scanning
    scan,               \* how far wifi_scan() is
    clients,            \* clients_connected_to_ap
    gaveUp,             \* history: the handler ignored a step of the station
    joins, leaves,      \* of the stations at the access point
    scans, drops

counters == <<joins, leaves, scans, drops>>
vars == <<link, events, waiting, armed, isConnected, ap, byHand, isScanning, scan, clients,
          gaveUp, counters>>

Kinds == {"start", "connected", "disconnected", "roaming", "got ip", "scan done",
          "client joins", "client leaves"}

TypeOK ==
    /\ link \in {"idle", "trying", "associated", "online"}
    /\ events \in Seq(Kinds) /\ Len(events) <= MaxEvents
    /\ {waiting, armed, isConnected, ap, byHand, isScanning, gaveUp} \subseteq BOOLEAN
    /\ scan \in {"none", "settling", "running"} /\ clients \in -MaxClients .. MaxClients

(* wifi_init() with an SSID in the settings                                *)
Init ==
    /\ link = "idle" /\ events = <<"start">> /\ ap = TRUE /\ scan = "none" /\ clients = 0
    /\ waiting = FALSE /\ armed = FALSE /\ isConnected = FALSE /\ byHand = FALSE
    /\ isScanning = FALSE /\ gaveUp = FALSE
    /\ joins = 0 /\ leaves = 0 /\ scans = 0 /\ drops = 0

---------------------------------------------------------------------------
(* The driver (external)                                                   *)

Posts(new) == Len(events) + Len(new) <= MaxEvents /\ events' = events \o new

Unchanged == UNCHANGED <<waiting, armed, isConnected, ap, byHand, isScanning, clients, gaveUp>>

Associates ==
    /\ link = "trying" /\ link' = "associated" /\ Posts(<<"connected">>)
    /\ UNCHANGED <<scan, counters>> /\ Unchanged

GetsAddress ==
    /\ link = "associated" /\ link' = "online" /\ Posts(<<"got ip">>)
    /\ UNCHANGED <<scan, counters>> /\ Unchanged

Fails ==
    /\ link # "idle" /\ link' = "idle" /\ Posts(<<"disconnected">>)
    /\ drops < MaxDrops /\ drops' = drops + 1
    /\ UNCHANGED <<scan, joins, leaves, scans>> /\ Unchanged

Roams ==
    /\ link = "online" /\ Posts(<<"roaming", "connected", "got ip">>)
    /\ drops < MaxDrops /\ drops' = drops + 1
    /\ UNCHANGED <<link, scan, joins, leaves, scans>> /\ Unchanged

ClientMoves ==
    /\ \/ ap /\ joins < MaxClients /\ joins' = joins + 1 /\ UNCHANGED leaves
          /\ Posts(<<"client joins">>)
       \/ leaves < joins /\ leaves' = leaves + 1 /\ UNCHANGED joins
          /\ Posts(<<"client leaves">>)
    /\ UNCHANGED <<link, scan, scans, drops>> /\ Unchanged

(* esp_wifi_disconnect()                                                   *)
Disconnects ==
    IF link = "idle" THEN UNCHANGED <<link, events>>
    ELSE link' = "idle" /\ Posts(<<"disconnected">>)

ScanDone ==
    /\ scan = "running" /\ Posts(<<"scan done">>)
    /\ UNCHANGED <<link, scan, counters>> /\ Unchanged

---------------------------------------------------------------------------
(* event_handler()                                                         *)

Event == IF waiting \/ events = <<>> THEN "none" ELSE Head(events)
Takes == events' = Tail(events)

SeesScanDone ==
    /\ Event = "scan done" /\ Takes /\ isScanning' = FALSE
    /\ UNCHANGED <<link, waiting, armed, isConnected, ap, byHand, scan, clients, gaveUp, counters>>

(* While a scan is on, the events of the WiFi driver are ignored.          *)
Ignores ==
    /\ isScanning /\ Event \in Kinds \ {"scan done", "got ip"} /\ Takes
    /\ gaveUp' = (gaveUp \/ Event \in {"start", "connected", "disconnected"})
    /\ UNCHANGED <<link, waiting, armed, isConnected, ap, byHand, isScanning, scan, clients,
                   counters>>

Starts ==
    /\ ~isScanning /\ Event = "start" /\ Takes /\ link' = "trying"
    /\ UNCHANGED <<waiting, armed, isConnected, ap, byHand, isScanning, scan, clients, gaveUp,
                   counters>>

Armed_Never == armed
Armed == TRUE

IsConnected ==
    /\ ~isScanning /\ Event = "connected" /\ Takes /\ armed' = Armed
    /\ UNCHANGED <<link, waiting, isConnected, ap, byHand, isScanning, scan, clients, gaveUp,
                   counters>>

StaysAway == Event = "roaming" \/ clients > 0

IsDisconnected ==
    /\ ~isScanning /\ Event \in {"disconnected", "roaming"} /\ Takes
    /\ IF StaysAway
       THEN /\ gaveUp' = (gaveUp \/ Event = "disconnected")
            /\ UNCHANGED <<waiting, isConnected, ap, byHand>>
       ELSE /\ waiting' = TRUE /\ isConnected' = FALSE /\ ap' = TRUE /\ byHand' = FALSE
            /\ UNCHANGED gaveUp
    /\ UNCHANGED <<link, armed, isScanning, scan, clients, counters>>

Retries ==
    /\ waiting /\ waiting' = FALSE /\ link' = "trying" /\ armed' = FALSE /\ gaveUp' = FALSE
    /\ UNCHANGED <<events, isConnected, ap, byHand, isScanning, scan, clients, counters>>

GotIp ==
    /\ Event = "got ip" /\ Takes
    /\ armed' = FALSE /\ isConnected' = TRUE /\ ap' = FALSE /\ byHand' = FALSE /\ gaveUp' = FALSE
    /\ UNCHANGED <<link, waiting, isScanning, scan, clients, counters>>

CountsClients ==
    /\ ~isScanning
    /\ \/ Event = "client joins" /\ clients' = clients + 1
       \/ Event = "client leaves" /\ clients' = clients - 1
    /\ Takes
    /\ UNCHANGED <<link, waiting, armed, isConnected, ap, byHand, isScanning, scan, gaveUp,
                   counters>>

(* ip_timeout_callback()                                                   *)
IpTimeout ==
    /\ armed /\ armed' = FALSE
    /\ IF isConnected THEN UNCHANGED <<link, events>> ELSE Disconnects
    /\ UNCHANGED <<waiting, isConnected, ap, byHand, isScanning, scan, clients, gaveUp, counters>>

(* toggle_wifi_softap(), from the button                                   *)
Toggle ==
    /\ ap' = ~ap /\ byHand' = TRUE
    /\ UNCHANGED <<link, events, waiting, armed, isConnected, isScanning, scan, clients, gaveUp,
                   counters>>

---------------------------------------------------------------------------
(* wifi_scan(): a station that is not associated is told to disconnect, a  *)
(* second later the scan starts or cannot, and is awaited for ten seconds. *)

ScanBegins ==
    /\ scan = "none" /\ ~isScanning /\ scans < MaxScans /\ scans' = scans + 1
    /\ isScanning' = TRUE /\ scan' = "settling"
    /\ IF link \in {"associated", "online"} THEN UNCHANGED <<link, events>> ELSE Disconnects
    /\ UNCHANGED <<waiting, armed, isConnected, ap, byHand, clients, gaveUp, joins, leaves,
                   drops>>

ScanStarts ==
    /\ scan = "settling"
    /\ \/ scan' = "running" /\ UNCHANGED isScanning
       \/ scan' = "none" /\ isScanning' = FALSE
    /\ UNCHANGED <<link, events, waiting, armed, isConnected, ap, byHand, clients, gaveUp, counters>>

ScanEnds ==
    /\ scan = "running" /\ scan' = "none" /\ isScanning' = FALSE
    /\ UNCHANGED <<link, events, waiting, armed, isConnected, ap, byHand, clients, gaveUp, counters>>

Next ==
    \/ Associates \/ GetsAddress \/ Fails \/ Roams \/ ClientMoves \/ ScanDone
    \/ SeesScanDone \/ Ignores \/ Starts \/ IsConnected \/ IsDisconnected \/ Retries \/ GotIp
    \/ CountsClients \/ IpTimeout \/ Toggle \/ ScanBegins \/ ScanStarts \/ ScanEnds

Spec == Init /\ [][Next]_vars

---------------------------------------------------------------------------
(* Once all events are handled, unless one was ignored: the station is     *)
(* connected or on its way, is_connected says which, an address is awaited *)
(* with the timer running, and a device that is not connected can be       *)
(* reached at its access point, whatever scans and time-outs came between. *)
Quiet == events = <<>> /\ ~waiting /\ ~isScanning
NetworkIsKept ==
    Quiet /\ ~gaveUp =>
        /\ link # "idle" /\ isConnected = (link = "online")
        /\ link = "associated" => armed
        /\ byHand \/ ap = ~isConnected
=============================================================================
