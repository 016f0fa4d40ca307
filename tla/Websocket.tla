------------------------------ MODULE Websocket -------------------------------
(***************************************************************************)
(* The websockets of the web interface (main/http_server/websocket.c and    *)
(* websocket_api.c): the server's task enters a client in a table and sends *)
(* an API client the whole state; websocket_api_task sends every API client *)
(* what has changed since it last did, and websocket_log_task the log. Both *)
(* copy the clients' sockets under clients_mutex and send without it, while *)
(* a socket may be closed and its number given to another connection. Who   *)
(* waits for the mutex gives up after 100 ms.                               *)
(***************************************************************************)
EXTENDS Naturals, FiniteSets

CONSTANTS
    Fds, Slots,             \* sockets; places in the table (MAX_WEBSOCKET_CLIENTS)
    None,
    MaxChanges, MaxConnections, MaxErrors   \* bounds

VARIABLES
    device,             \* what system_api_get_full_doc() reads: a value that is always
                        \*   reported, and a fault that is reported while there is one
    conns,              \* the connection of each socket: "free", "http", "api", "logs"
    table,              \* clients[]
    server,             \* the server's task: what it does, for which socket, the document
    api,                \* websocket_api_task: what it does, current_full, fds left to send to
    baseline,           \* last_full_doc
    logFds,             \* websocket_log_task: fds left to send to
    closing,            \* httpd_sess_trigger_close()
    view,               \* what a browser shows
    joining, unsure,    \* history: since its document was made websocket_api_task has not
                        \*   looked; the fields that changed meanwhile, or were not sent
    leaked,             \* history: sockets whose removal was given up
    changes, connections, errors

history == <<view, joining, unsure>>
bounds == <<changes, connections, errors>>
vars == <<device, conns, table, server, api, baseline, logFds, closing, history, leaked, bounds>>

Fields == {"value", "fault"}
Blank == [f \in Fields |-> None]
NoEntry == [fd |-> None, type |-> "none"]
Idle == [at |-> "idle", fd |-> None, type |-> "none", doc |-> Blank]
Waits == [at |-> "wait", current |-> Blank, fds |-> {}]

(* type_counts, which changes with the table.                               *)
EntriesOf(type) == {s \in Slots : table[s].type = type}
FdsOf(type) == {table[s].fd : s \in EntriesOf(type)}
FreeSlots == {s \in Slots : table[s] = NoEntry}

Least(S) == CHOOSE x \in S : \A y \in S : x <= y

Fails == errors < MaxErrors /\ errors' = errors + 1

Init ==
    /\ device = [value |-> 0, fault |-> None]
    /\ conns = [fd \in Fds |-> "free"] /\ table = [s \in Slots |-> NoEntry]
    /\ server = Idle /\ api = [Waits EXCEPT !.at = "offline"] /\ baseline = Blank
    /\ logFds = {} /\ closing = {}
    /\ view = [fd \in Fds |-> Blank] /\ joining = {} /\ unsure = [fd \in Fds |-> {}]
    /\ leaked = {} /\ changes = 0 /\ connections = 0 /\ errors = 0

Change(f) ==
    /\ changes < MaxChanges /\ changes' = changes + 1
    /\ device' = [device EXCEPT ![f] = IF f = "value" THEN 1 - @
                                       ELSE IF @ = None THEN 1 ELSE None]
    /\ unsure' = [fd \in Fds |-> IF fd \in joining THEN unsure[fd] \union {f} ELSE unsure[fd]]
    /\ UNCHANGED <<conns, table, server, api, baseline, logFds, closing, view, joining, leaked,
                   connections, errors>>

---------------------------------------------------------------------------
(* websocket_remove_client()                                                *)
Without(fd) ==
    LET entries == {s \in Slots : table[s].fd = fd}
    IN  IF entries = {} THEN table ELSE [table EXCEPT ![Least(entries)] = NoEntry]

Removed(fd) == table' = Without(fd) /\ UNCHANGED leaked
GivenUp(fd) ==
    /\ leaked' = IF \E s \in Slots : table[s].fd = fd THEN leaked \union {fd} ELSE leaked
    /\ UNCHANGED table

(* websocket_close_fn(): the socket's number is free again.                 *)
Closed(fd) ==
    /\ conns' = [conns EXCEPT ![fd] = "free"] /\ closing' = closing \ {fd}
    /\ view' = [view EXCEPT ![fd] = Blank] /\ unsure' = [unsure EXCEPT ![fd] = {}]
    /\ joining' = joining \ {fd}
    /\ \/ Removed(fd) /\ UNCHANGED errors
       \/ GivenUp(fd) /\ Fails

(* The server closes a connection that its peer or a failed send has ended. *)
Close(fd) ==
    /\ server.at = "idle" /\ conns[fd] # "free" /\ Closed(fd)
    /\ UNCHANGED <<device, server, api, baseline, logFds, changes, connections>>

Accept(fd) ==
    /\ server.at = "idle" /\ conns[fd] = "free" /\ conns' = [conns EXCEPT ![fd] = "http"]
    /\ connections < MaxConnections /\ connections' = connections + 1
    /\ UNCHANGED <<device, table, server, api, baseline, logFds, closing, history, leaked,
                   changes, errors>>

(* websocket_pre_handshake(): the table may be full.                        *)
MayJoin == Cardinality(EntriesOf("api") \union EntriesOf("logs")) < Cardinality(Slots)

Handshake(fd, type) ==
    /\ server.at = "idle" /\ conns[fd] = "http"
    /\ IF MayJoin
       THEN /\ server' = [Idle EXCEPT !.at = "add", !.fd = fd, !.type = type]
            /\ conns' = [conns EXCEPT ![fd] = type]
            /\ UNCHANGED <<table, closing, history, leaked, errors>>
       ELSE Closed(fd) /\ UNCHANGED server
    /\ UNCHANGED <<device, api, baseline, logFds, changes, connections>>

(* websocket_post_handshake_common(), websocket_add_client()                *)
AddClient ==
    /\ server.at = "add"
    /\ \/ /\ FreeSlots # {}
          /\ table' = [table EXCEPT ![Least(FreeSlots)] = [fd |-> server.fd, type |-> server.type]]
          /\ server' = IF server.type = "api" THEN [server EXCEPT !.at = "snapshot"] ELSE Idle
          /\ UNCHANGED errors
       \/ (FreeSlots = {} \/ Fails) /\ server' = [server EXCEPT !.at = "close"]
          /\ (IF FreeSlots = {} THEN UNCHANGED errors ELSE TRUE) /\ UNCHANGED table
    /\ UNCHANGED <<device, conns, api, baseline, logFds, closing, history, leaked, changes,
                   connections>>

RefuseClient ==
    /\ server.at = "close" /\ Closed(server.fd) /\ server' = Idle
    /\ UNCHANGED <<device, api, baseline, logFds, changes, connections>>

(* websocket_api_on_connect(): the state is read, ...                       *)
Snapshot ==
    /\ server.at = "snapshot"
    /\ \/ /\ server' = [server EXCEPT !.at = "send", !.doc = device]
          /\ UNCHANGED <<unsure, errors>>
       \/ /\ Fails /\ server' = Idle
          /\ unsure' = [unsure EXCEPT ![server.fd] = Fields]
    /\ joining' = joining \union {server.fd}
    /\ UNCHANGED <<device, conns, table, api, baseline, logFds, closing, view, leaked, changes,
                   connections>>

(* ... and sent.                                                            *)
SendFull ==
    /\ server.at = "send" /\ server' = Idle
    /\ \/ /\ view' = [view EXCEPT ![server.fd] = server.doc]
          /\ UNCHANGED <<table, closing, leaked, errors>>
       \/ /\ Fails /\ Removed(server.fd) /\ closing' = closing \union {server.fd}
          /\ UNCHANGED view
    /\ UNCHANGED <<device, conns, api, baseline, logFds, joining, unsure, changes, connections>>

---------------------------------------------------------------------------
(* yyjson_diff_objects(): a field that is gone is no difference.            *)
Changed(old, new) ==
    {f \in Fields : new[f] # None /\ (old = None \/ (old # None /\ old[f] # new[f]))}

(* httpd_ws_send_frame_async() finds whichever connection has the socket.   *)
Joins(fd) == server.at # "idle" /\ server.fd = fd
Shown(fd, doc, fields) ==
    IF conns[fd] # "api" THEN UNCHANGED <<view, unsure>>
    ELSE /\ view' = [view EXCEPT ![fd] = [f \in Fields |-> IF f \in fields THEN doc[f] ELSE @[f]]]
         /\ unsure' = IF Joins(fd) THEN unsure ELSE [unsure EXCEPT ![fd] = @ \ fields]

(* websocket_send_to_client() removes the client when that fails.           *)
Send(fd, delivered) ==
    \/ conns[fd] # "free" /\ delivered /\ UNCHANGED <<table, closing, leaked, errors>>
    \/ conns[fd] = "free" /\ Removed(fd) /\ UNCHANGED <<closing, view, unsure, errors>>
    \/ /\ conns[fd] # "free" /\ Fails /\ Removed(fd) /\ closing' = closing \union {fd}
       /\ UNCHANGED <<view, unsure>>

(* websocket_api_task: its baseline before there is a network ...           *)
Online ==
    /\ api.at = "offline" /\ api' = Waits /\ baseline' = device
    /\ UNCHANGED <<device, conns, table, server, logFds, closing, history, leaked, bounds>>

(* ... and when there are clients again; without, it has none.              *)
ApiLook ==
    /\ api.at = "wait"
    /\ IF EntriesOf("api") = {} THEN baseline' = None /\ UNCHANGED api
       ELSE /\ api' = [api EXCEPT !.at = "build"]
            /\ baseline' = IF baseline = None THEN device ELSE baseline
    /\ UNCHANGED <<device, conns, table, server, logFds, closing, history, leaked, bounds>>

Unsent(fields) ==
    unsure' = [fd \in Fds |-> IF conns[fd] = "api" THEN unsure[fd] \union fields ELSE unsure[fd]]

(* What is gone stays in the baseline if nothing else has changed.          *)
Gone == {f \in Fields : baseline # None /\ baseline[f] # None /\ device[f] = None}

(* process_and_send_update(); when it can't write the message the clients   *)
(* don't get it.                                                            *)
ApiBuild ==
    /\ api.at = "build" /\ joining' = {fd \in joining : Joins(fd)}
    /\ \/ /\ Changed(baseline, device) = {} /\ api' = Waits /\ Unsent(Gone)
          /\ UNCHANGED <<baseline, errors>>
       \/ /\ Changed(baseline, device) # {}
          /\ api' = [api EXCEPT !.at = "copy", !.current = device]
          /\ UNCHANGED <<baseline, unsure, errors>>
       \/ /\ Fails /\ Changed(baseline, device) # {}
          /\ api' = Waits /\ baseline' = device /\ Unsent(Changed(baseline, device))
    /\ UNCHANGED <<device, conns, table, server, logFds, closing, view, leaked, changes,
                   connections>>

(* websocket_broadcast()                                                    *)
ApiCopy ==
    /\ api.at = "copy"
    /\ \/ /\ api' = [api EXCEPT !.at = "send", !.fds = FdsOf("api")]
          /\ UNCHANGED <<baseline, unsure, errors>>
       \/ /\ Fails /\ api' = Waits /\ baseline' = api.current
          /\ Unsent(Changed(baseline, api.current))
    /\ UNCHANGED <<device, conns, table, server, logFds, closing, view, joining, leaked, changes,
                   connections>>

ApiSend(fd) ==
    /\ api.at = "send" /\ fd \in api.fds /\ api' = [api EXCEPT !.fds = @ \ {fd}]
    /\ Send(fd, Shown(fd, api.current, Changed(baseline, api.current)))
    /\ UNCHANGED <<device, conns, server, baseline, logFds, joining, changes, connections>>

(* The state sent is the next baseline, also for what is gone.              *)
ApiDone ==
    /\ api.at = "send" /\ api.fds = {} /\ api' = Waits /\ baseline' = api.current
    /\ UNCHANGED <<device, conns, table, server, logFds, closing, history, leaked, bounds>>

(* websocket_log_task                                                       *)
LogCopy ==
    /\ logFds = {} /\ FdsOf("logs") # {} /\ logFds' = FdsOf("logs")
    /\ UNCHANGED <<device, conns, table, server, api, baseline, closing, history, leaked, bounds>>

LogSend(fd) ==
    /\ fd \in logFds /\ logFds' = logFds \ {fd}
    /\ Send(fd, UNCHANGED <<view, unsure>>)
    /\ UNCHANGED <<device, conns, server, api, baseline, joining, changes, connections>>

Next ==
    \/ \E f \in Fields : Change(f)
    \/ \E fd \in Fds : Close(fd) \/ Accept(fd) \/ ApiSend(fd) \/ LogSend(fd)
    \/ \E fd \in Fds, type \in {"api", "logs"} : Handshake(fd, type)
    \/ AddClient \/ RefuseClient \/ Snapshot \/ SendFull
    \/ Online \/ ApiLook \/ ApiBuild \/ ApiCopy \/ ApiDone \/ LogCopy

Spec == Init /\ [][Next]_vars

---------------------------------------------------------------------------
TypeOK ==
    /\ \A fd \in Fds : conns[fd] \in {"free", "http", "api", "logs"}
    /\ \A s \in Slots : table[s].fd \in Fds \union {None}
    /\ server.at \in {"idle", "add", "close", "snapshot", "send"}
    /\ api.at \in {"offline", "wait", "build", "copy", "send"}
    /\ joining \subseteq Fds /\ closing \subseteq Fds /\ leaked \subseteq Fds

(* Fields a browser may show wrongly: what is no longer reported, and what   *)
(* changed between its document and the first comparison after it.          *)
Known(fd, f) ==
    \/ f \in unsure[fd]
    \/ baseline # None /\ (baseline[f] = None \/ view[fd][f] = baseline[f])
    \/ fd \in joining /\ view[fd][f] = device[f]

(* An entry of the table is an open connection of its type, and a client    *)
(* that is let in finds a place, unless a removal was given up; and between *)
(* two updates a browser shows what the next one is compared with.          *)
ClientsAreServed ==
    /\ \A s \in Slots : table[s] # NoEntry /\ table[s].fd \notin leaked =>
         conns[table[s].fd] = table[s].type
    /\ server.at = "add" => FreeSlots # {}
    /\ api.at = "wait" =>
         \A fd \in FdsOf("api") \ (closing \union leaked) :
           Joins(fd) \/ \A f \in Fields : Known(fd, f)
=============================================================================
