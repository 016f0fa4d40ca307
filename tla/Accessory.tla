------------------------------ MODULE Accessory -------------------------------
(***************************************************************************)
(* The accessory protocol on a serial line (main/bap): an accessory        *)
(* subscribes to a parameter and is sent its value when it has changed,    *)
(* through a queue and a task of its own; acknowledgements and answers go  *)
(* straight to the line. Subscriptions run out when they are not renewed.  *)
(* The model follows one parameter, found_block, which can also be asked   *)
(* for and set; messages about others are Other.                           *)
(***************************************************************************)
EXTENDS Naturals, Sequences

CONSTANTS
    QueueLen,           \* UART_SEND_QUEUE_SIZE
    Interval, Timeout,  \* of a subscription, in rounds of the task (1 s)
    MaxChanges, MaxCommands, MaxRestarts    \* bounds

None == 2               \* no value; values are 0 and 1
Other == 3
TimedOut == 4           \* "subscription_timeout"
Sums == {"right", "wrong", "missing"}
Commands == {"SUB", "UNSUB", "REQ", "SET", "SET WiFi"}

VARIABLES
    connected,          \* is_connected
    started,            \* subscription_task_started
    value,              \* the parameter
    active, age, since, \* subscriptions[i]: active; rounds since last_subscribe and
                        \* last_response, up to Timeout + 1 and Interval
    lastValue, valid,   \* last_values, last_values_valid
    mutex,              \* subscription_update_task holds bap_subscription_mutex
    outgoing,           \* the messages it is going to queue
    queue,              \* bap_uart_send_queue
    previous,           \* last_processed_message, if it is younger than a second
    rebooting,          \* WiFi settings were changed
    believes, view,     \* accessory: it is subscribed, and the value it shows
    settled,            \* history: rounds since the value or the subscription changed
    lost,               \* history: a message since the last subscription was dropped
    overtaken,          \* history: an answer overtook or hid a change
    changes, commands, restarts

subscription == <<active, age, since, lastValue, valid>>
task == <<mutex, outgoing, queue>>
accessory == <<believes, view>>
history == <<settled, lost, overtaken>>
bounds == <<changes, commands, restarts>>
vars == <<connected, started, value, subscription, task, previous, rebooting, accessory,
          history, bounds>>

Messages == {0, 1, Other, TimedOut}

TypeOK ==
    /\ {connected, started, active, valid, mutex, rebooting, believes, lost, overtaken}
         \subseteq BOOLEAN
    /\ value \in 0..1 /\ lastValue \in 0..2 /\ view \in 0..2
    /\ age \in 0..(Timeout + 1) /\ since \in 0..Interval /\ settled \in 0..(Interval + 1)
    /\ {outgoing, queue} \subseteq Seq(Messages) /\ Len(queue) <= QueueLen

Init ==
    /\ connected = FALSE /\ started = FALSE /\ value = 0
    /\ active = FALSE /\ age = 0 /\ since = 0 /\ lastValue = None /\ valid = FALSE
    /\ mutex = FALSE /\ outgoing = <<>> /\ queue = <<>>
    /\ previous = <<>> /\ rebooting = FALSE /\ believes = FALSE /\ view = None
    /\ settled = 0 /\ lost = FALSE /\ overtaken = FALSE
    /\ changes = 0 /\ commands = 0 /\ restarts = 0

---------------------------------------------------------------------------
(* BAP_parse_message() ignores a message that equals the one before within  *)
(* a second, and takes a subscription with a wrong, or a command about      *)
(* subscriptions without a checksum.                                        *)
Accepted(command, sum) ==
    /\ previous # <<command, sum>>
    /\ \/ sum = "right"
       \/ sum = "wrong" /\ command = "SUB"
       \/ sum = "missing" /\ command \in {"SUB", "UNSUB"}

(* uart_receive_task has a whole message that is accepted.                  *)
Receives(command) ==
    /\ ~rebooting /\ commands < MaxCommands /\ commands' = commands + 1
    /\ \E sum \in Sums : Accepted(command, sum) /\ previous' = <<command, sum>>
    /\ UNCHANGED <<connected, started, changes, restarts>>

(* BAP_subscription_handle_subscribe(): the value is to be sent again, at   *)
(* once if the device has run for an interval. BAP_send_message() drops the *)
(* acknowledgement when the line is busy for 100 ms.                        *)
Forgotten_Not == valid
Forgotten == FALSE

Subscribe ==
    /\ Receives("SUB") /\ connected /\ ~mutex
    /\ active' = TRUE /\ age' = 0 /\ since' \in 0..Interval /\ valid' = Forgotten
    /\ believes' \in {TRUE, believes}
    /\ settled' = 0 /\ lost' = FALSE /\ overtaken' = FALSE
    /\ UNCHANGED <<value, lastValue, task, rebooting, view>>

Unsubscribe ==
    /\ Receives("UNSUB") /\ ~mutex
    /\ active' = FALSE /\ believes' = FALSE
    /\ UNCHANGED <<value, age, since, lastValue, valid, task, rebooting, view, history>>

(* The mutex is not free within 100 ms, or the device is an access point.   *)
IsRefused ==
    /\ \/ Receives("SUB") /\ (mutex \/ ~connected) /\ UNCHANGED believes
       \/ Receives("UNSUB") /\ mutex /\ believes' = FALSE
       \/ (Receives("REQ") \/ Receives("SET")) /\ ~connected /\ UNCHANGED believes
    /\ UNCHANGED <<value, subscription, task, rebooting, view, history>>

(* BAP_handle_request() answers with the value, now.                        *)
Request ==
    /\ Receives("REQ") /\ connected
    /\ view' \in {value, view}
    /\ overtaken' = (overtaken \/ view' # view)
    /\ UNCHANGED <<value, subscription, task, rebooting, believes, settled, lost>>

(* BAP_handle_settings(): the parameter itself, or the WiFi's name or       *)
(* password, also as an access point; with new ones the device restarts.    *)
Set ==
    /\ Receives("SET") /\ connected
    /\ value' \in 0..1 /\ settled' = 0
    /\ UNCHANGED <<subscription, task, rebooting, accessory, lost, overtaken>>

SetWifi ==
    /\ Receives("SET WiFi") /\ rebooting' \in BOOLEAN
    /\ UNCHANGED <<value, subscription, task, accessory, history>>

---------------------------------------------------------------------------
(* subscription_update_task, once a second: BAP_send_subscription_update()  *)
Due == active /\ since >= Interval

(* BAP_send_if_changed()                                                    *)
Changed == ~valid \/ lastValue # value

UpdateRound ==
    /\ started /\ ~mutex
    /\ mutex' = TRUE /\ previous' = <<>>
    /\ \E before, after \in {<<>>, <<Other>>} :
         outgoing' = before \o (IF active /\ age > Timeout THEN <<TimedOut>>
                                ELSE IF Due /\ Changed THEN <<value>> ELSE <<>>) \o after
    /\ IF active /\ age > Timeout THEN active' = FALSE /\ UNCHANGED <<since, lastValue, valid>>
       ELSE /\ active' = active
            /\ since' = IF Due THEN 0 ELSE since
            /\ IF Due THEN lastValue' = value /\ valid' = TRUE ELSE UNCHANGED <<lastValue, valid>>
    /\ UNCHANGED <<connected, started, value, age, queue, rebooting, accessory, history, bounds>>

(* BAP_send_message_with_queue() waits a second for room in the queue.      *)
Enqueue ==
    /\ mutex /\ outgoing # <<>> /\ outgoing' = Tail(outgoing)
    /\ \/ Len(queue) < QueueLen /\ queue' = Append(queue, Head(outgoing)) /\ UNCHANGED lost
       \/ Len(queue) = QueueLen /\ queue' = queue /\ lost' = (lost \/ Head(outgoing) # Other)
    /\ UNCHANGED <<connected, started, value, subscription, mutex, previous, rebooting,
                   accessory, settled, overtaken, bounds>>

(* The round is over, and the next one comes a second later.                *)
Grown(n, max) == IF n < max THEN n + 1 ELSE n

EndRound ==
    /\ mutex /\ outgoing = <<>> /\ mutex' = FALSE
    /\ age' = Grown(age, Timeout + 1) /\ since' = Grown(since, Interval)
    /\ settled' = Grown(settled, Interval + 1)
    /\ UNCHANGED <<connected, started, value, active, lastValue, valid, outgoing, queue, previous,
                   rebooting, accessory, lost, overtaken, bounds>>

(* uart_send_task: a message is written, or dropped when the line is busy.  *)
Sends ==
    /\ queue # <<>> /\ queue' = Tail(queue)
    /\ \/ /\ view' = IF Head(queue) \in 0..1 THEN Head(queue) ELSE view
          /\ believes' = (believes /\ Head(queue) # TimedOut)
          /\ UNCHANGED lost
       \/ lost' = (lost \/ Head(queue) # Other) /\ UNCHANGED accessory
    /\ UNCHANGED <<connected, started, value, subscription, mutex, outgoing, previous, rebooting,
                   settled, overtaken, bounds>>

---------------------------------------------------------------------------
(* mode_management_task starts the updates with the first connection; they  *)
(* go on when it is lost.                                                   *)
StartUpdates ==
    /\ connected /\ ~started /\ started' = TRUE
    /\ UNCHANGED <<connected, value, subscription, task, previous, rebooting, accessory,
                   history, bounds>>

WorldChanges ==
    /\ changes < MaxChanges /\ changes' = changes + 1
    /\ \/ connected' = ~connected /\ UNCHANGED <<value, settled>>
       \/ value' = 1 - value /\ settled' = 0 /\ UNCHANGED connected
    /\ UNCHANGED <<started, subscription, task, previous, rebooting, accessory, lost, overtaken,
                   commands, restarts>>

(* The accessory restarts and knows nothing.                                *)
AccessoryRestarts ==
    /\ restarts < MaxRestarts /\ restarts' = restarts + 1
    /\ believes' = FALSE /\ view' = None
    /\ UNCHANGED <<connected, started, value, subscription, task, previous, rebooting, history,
                   changes, commands>>

(* The device restarts, and BAP_init() says so.                             *)
DeviceRestarts ==
    /\ restarts < MaxRestarts \/ rebooting
    /\ restarts' = Grown(restarts, MaxRestarts) /\ rebooting' = FALSE
    /\ connected' = FALSE /\ started' = FALSE
    /\ active' = FALSE /\ age' = 0 /\ since' = 0 /\ lastValue' = None /\ valid' = FALSE
    /\ mutex' = FALSE /\ outgoing' = <<>> /\ queue' = <<>> /\ previous' = <<>>
    /\ believes' = FALSE
    /\ UNCHANGED <<value, view, history, changes, commands>>

Next ==
    \/ Subscribe \/ Unsubscribe \/ IsRefused \/ Request \/ Set \/ SetWifi
    \/ UpdateRound \/ Enqueue \/ EndRound \/ Sends
    \/ StartUpdates \/ WorldChanges \/ AccessoryRestarts \/ DeviceRestarts

Spec == Init /\ [][Next]_vars

---------------------------------------------------------------------------
(* When nothing is on its way and nothing was dropped since it subscribed,  *)
(* an accessory that believes in its subscription has one, and shows the    *)
(* value unless that changed within the interval: through renewals,         *)
(* time-outs that cross with them, restarts of either side and changes that *)
(* are not sent because the last value is remembered. (A request's answer   *)
(* is not remembered, so it is left out.)                                   *)
AccessoryIsServed ==
    believes /\ queue = <<>> /\ ~mutex /\ ~lost =>
        /\ active
        /\ started /\ settled > Interval /\ ~overtaken => view = value
=============================================================================
