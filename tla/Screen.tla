-------------------------------- MODULE Screen --------------------------------
(***************************************************************************)
(* The display (main/screen.c, display.c): what it shows is decided twice a*)
(* second from what the rest of the firmware reports, and between two      *)
(* updates by the button; the two logos are deleted after they were shown, *)
(* and the display is switched off when nobody looks. Times are in updates.*)
(***************************************************************************)
EXTENDS Naturals, FiniteSets

CONSTANTS
    LogoTime, CarouselTime,     \* delays_ms of the logos and of the last four screens
    WakeTime, Timeout,          \* BUTTON_WAKE_MS; a display timeout
    IdentifyTime,               \* 30 seconds
    MaxChanges                  \* bound

(* The order of screen_t. The first six are not in the carousel.            *)
SelfTest == 0
Overheat == 1
AsicStatus == 2
Welcome == 3
Firmware == 4
Connection == 5
BitaxeLogo == 6
OsmuLogo == 7
Urls == 8
Stats == 9
Wifi == 11
Nowhere == 12
Logos == {BitaxeLogo, OsmuLogo}
CarouselStart == Urls

Delay(screen) ==
    IF screen < Connection THEN 0 ELSE IF screen = Connection THEN 1
    ELSE IF screen \in Logos THEN LogoTime ELSE CarouselTime

Reports == {"self test", "firmware update", "asic status", "overheat", "no ssid", "status changed",
            "not connected", "new block"}

VARIABLES
    large,              \* the display has room for everything on one screen
    setting,            \* display timeout: "always", "never", "minutes"
    reports,            \* what is to be shown
    panel,              \* the active screen, the time it is shown and is to be, the logos
                        \* that are deleted, and the time since the last activity
    display,            \* it is on
    identify,           \* identify_mode_time_ms
    quiet,              \* history: updates since the last change, up to 2
    changes

vars == <<large, setting, reports, panel, display, identify, quiet, changes>>

MaxInactive == IF WakeTime < Timeout THEN Timeout ELSE WakeTime

TypeOK ==
    /\ {large, display} \subseteq BOOLEAN /\ setting \in {"always", "never", "minutes"}
    /\ reports \subseteq Reports /\ panel.current \in 0..Nowhere /\ panel.deleted \subseteq Logos
    /\ panel.inactive \in 0..MaxInactive /\ identify \in 0..IdentifyTime

Init ==
    /\ large \in BOOLEAN /\ setting \in {"always", "never", "minutes"}
    /\ \E first \in {{}, {"self test"}, {"no ssid"}, {"overheat"}} :
         reports = first \union {"status changed", "not connected"}
    /\ panel = [current |-> Nowhere, time |-> 0, delay |-> 0, deleted |-> {}, inactive |-> 0]
    /\ display = TRUE /\ identify = 0 /\ quiet = 0 /\ changes = 0

---------------------------------------------------------------------------
(* screen_show(): the screens before the carousel count as activity. A logo *)
(* is deleted when another screen slides in, and is no longer valid then.   *)
Show(p, screen) ==
    LET seen == IF screen < CarouselStart THEN [p EXCEPT !.inactive = 0] ELSE p
    IN  IF screen = p.current THEN seen
        ELSE [seen EXCEPT !.current = screen, !.time = 0, !.delay = Delay(screen),
                          !.deleted = IF large /\ screen = Stats THEN @
                                      ELSE @ \union ({p.current} \intersect Logos)]

(* screen_next(): the next screen that is still there.                      *)
NextScreen_Deleted(p) ==
    IF large THEN Stats
    ELSE IF p.current = Nowhere THEN SelfTest
    ELSE IF p.current = Wifi THEN Urls ELSE p.current + 1

NextScreen(p) ==
    IF large THEN Stats
    ELSE IF p.current = Nowhere THEN SelfTest
    ELSE IF p.current = Wifi THEN Urls
    ELSE CHOOSE s \in (p.current + 1)..Wifi :
           s \notin p.deleted /\ \A t \in (p.current + 1)..(s - 1) : t \in p.deleted

(* screen_update_cb(): whether the display is on, and what it shows.        *)
Enabled(isIdentifying) ==
    \/ setting = "always"
    \/ panel.current < CarouselStart
    \/ setting = "never" /\ panel.inactive < WakeTime
    \/ setting = "minutes" /\ (panel.inactive < Timeout \/ isIdentifying)

Important ==
    IF "self test" \in reports THEN SelfTest
    ELSE IF "firmware update" \in reports THEN Firmware
    ELSE IF "asic status" \in reports THEN AsicStatus
    ELSE IF "overheat" \in reports THEN Overheat
    ELSE IF "no ssid" \in reports THEN Welcome
    ELSE IF {"status changed", "not connected"} \intersect reports # {} THEN Connection
    ELSE Nowhere

Updated(p) ==
    LET older == [p EXCEPT !.time = IF @ > p.delay THEN @ ELSE @ + 1]
    IN  IF Important # Nowhere THEN Show(p, Important)
        ELSE IF large THEN Show(older, Stats)
        ELSE IF "new block" \in reports THEN [Show(older, Stats) EXCEPT !.inactive = 0]
        ELSE IF older.time <= older.delay THEN older
        ELSE Show(older, NextScreen(older))

Update ==
    /\ identify' = IF identify > 0 THEN identify - 1 ELSE 0
    /\ display' = Enabled(identify' > 0)
    /\ panel' = [Updated(panel) EXCEPT !.inactive = IF @ < MaxInactive THEN @ + 1 ELSE @]
    /\ reports' = IF Important = Connection THEN reports \ {"status changed"} ELSE reports
    /\ quiet' = IF quiet < 2 THEN quiet + 1 ELSE 2
    /\ UNCHANGED <<large, setting, changes>>

(* screen_button_press(); the button itself counts as activity.             *)
Press ==
    /\ changes < MaxChanges /\ changes' = changes + 1 /\ quiet' = 0
    /\ IF identify > 0 THEN identify' = 0 /\ panel' = [panel EXCEPT !.inactive = 0]
       ELSE /\ panel' = [Show(panel, NextScreen(panel)) EXCEPT !.inactive = 0]
            /\ UNCHANGED identify
    /\ UNCHANGED <<large, setting, reports, display>>

(* POST /api/system/identify, and the reports and the setting change.       *)
Identify ==
    /\ changes < MaxChanges /\ changes' = changes + 1 /\ quiet' = 0
    /\ identify' = IF identify > 0 THEN 0 ELSE IdentifyTime
    /\ UNCHANGED <<large, setting, reports, panel, display>>

Change ==
    /\ changes < MaxChanges /\ changes' = changes + 1 /\ quiet' = 0
    /\ \/ \E r \in Reports : reports' = (reports \ {r}) \union ({r} \ reports)
                             /\ UNCHANGED setting
       \/ setting' \in {"always", "never", "minutes"} \ {setting} /\ UNCHANGED reports
    /\ UNCHANGED <<large, panel, display, identify>>

Next == Update \/ Press \/ Identify \/ Change

Spec == Init /\ [][Next]_vars

---------------------------------------------------------------------------
(* Two updates after the last change the most important report is on the    *)
(* display, which is on for it whatever its setting, and stays on for       *)
(* nothing else than the setting says; a logo that was deleted is not shown,*)
(* and no screen of the carousel stays longer than its time.                *)
ScreenIsRight ==
    /\ panel.current \notin panel.deleted
    /\ quiet = 2 =>
         /\ Important # Nowhere => panel.current = Important /\ display
         /\ Important = Nowhere /\ (large \/ "new block" \in reports) => panel.current = Stats
         /\ display \/ setting # "always"
         /\ display /\ panel.current >= CarouselStart /\ panel.time > 0 =>
              \/ setting = "always" \/ ("new block" \in reports /\ ~large)
              \/ setting = "minutes" /\ (panel.inactive <= Timeout \/ identify > 0)
              \/ setting = "never" /\ panel.inactive <= WakeTime
    /\ "new block" \notin reports /\ ~large /\ quiet = 2 => panel.time <= panel.delay
=============================================================================
