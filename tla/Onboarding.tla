------------------------------ MODULE Onboarding ------------------------------
(***************************************************************************)
(* From an empty device to the running app, through its two web sites: the  *)
(* boot (_bootstrap.py, the start of main() in bilalcast/main.py), the       *)
(* captive portal (captive_portal.py) and the status and settings pages     *)
(* (status.py), each served by HttpServer.                                  *)
(*                                                                         *)
(* Of the configuration only the credentials and the Chromecast's name are  *)
(* kept; the write of config.json is atomic.  The app is installed file by   *)
(* file (OtaUpdate has the files), and a reset may come between any two      *)
(* steps.                                                                   *)
(***************************************************************************)
EXTENDS HttpServer, SequencesExt

CONSTANTS
  Forms,      \* what is typed into the portal: functions from Keys
  NewNames,   \* cast_device_name typed into the settings page
  Wifi,       \* ssid and password of the Wi-Fi
  Speakers,   \* friendly names of the Chromecasts that a scan may find
  PAGE,       \* chunks of a page
  SCANS       \* bound: scans at a time

Keys == {"ssid", "password", "cast_device_name"}
NoConfig == [k \in Keys |-> "no file"]

ASSUME ConstantsAssumption ==
  /\ \A f \in Forms : DOMAIN f = Keys /\ f["ssid"] # "" /\ f["cast_device_name"] # ""
  /\ "" \notin NonAscii
  /\ IsFiniteSet(Speakers)
  /\ PAGE \in Nat \ {0} /\ SCANS \in Nat \ {0}

VARIABLES
  power,      \* "off", "portal", "installing", "starting" or "app"
  config,     \* config.json, NoConfig without one
  installed,  \* "none": bilalcast/main.py is not there; "broken": it is, but it
              \* or what it imports is cut or missing; "whole": it imports
  timer,      \* a timer that resets the board is armed
  devices,    \* state["cast_devices"]
  scans,      \* _scan tasks that run
  scanning,   \* state["scan_in_progress"]
  (* History. *)
  typed,      \* what the users typed last of each field of config.json
  pieces,     \* the body of a form came in pieces, and only the first was read
  found       \* what the scans of this boot found

flash == <<config, installed>>
memory == <<timer, devices, scans, scanning>>
history == <<typed, pieces, found>>
vars == <<conn, power, flash, memory, history>>
-----------------------------------------------------------------------------
(* _cfg and load_config *)
Complete(c) == c # NoConfig /\ \A k \in Keys : c[k] # ""

Joins(c) == Complete(c) /\ [k \in DOMAIN Wifi |-> c[k]] = Wifi

Serving == power \in {"portal", "app"}

Init ==
  /\ ServerInit
  /\ power = "off"
  /\ config = NoConfig /\ installed = "none"
  /\ timer = FALSE
  /\ devices = <<>> /\ scans = 0 /\ scanning = FALSE
  /\ typed = NoConfig /\ pieces = FALSE /\ found = {}

(* machine.reset(), or power fails. *)
Down ==
  /\ power' = "off"
  /\ ServerDown
  /\ timer' = FALSE
  /\ devices' = <<>> /\ scans' = 0 /\ scanning' = FALSE
  /\ found' = {}
-----------------------------------------------------------------------------
(* _bootstrap.py: the portal, the app, or its installation. *)
Boot ==
  /\ power = "off"
  /\ power' = IF ~Complete(config) THEN "portal"
              ELSE IF installed = "none" THEN "installing" ELSE "starting"
  /\ UNCHANGED <<conn, flash, memory, history>>

(* check_factory_reset at the start of main(): BOOTSEL is held.  An app that
   does not import never gets there. *)
BootselHeld ==
  /\ power = "starting" /\ installed = "whole"
  /\ config' = NoConfig /\ typed' = NoConfig
  /\ power' = "portal"
  /\ UNCHANGED <<conn, installed, memory, pieces, found>>

(* download_all installs every file, and the device resets. *)
Install ==
  /\ power = "installing" /\ Joins(config)
  /\ installed' = "whole"
  /\ Down
  /\ UNCHANGED <<config, typed, pieces>>

(* Power fails on the way, or a file cannot be downloaded and the others are:
   what is there by then may be an app, or one that does not start, and only
   without bilalcast/main.py will it be installed again. *)
InstallCut ==
  /\ power = "installing" /\ Joins(config)
  /\ installed' \in {"none", "broken", "whole"}
  /\ Down
  /\ UNCHANGED <<config, typed, pieces>>

(* connect_to_wifi_with_retries succeeds and the server starts. *)
StartApp ==
  /\ power = "starting" /\ installed = "whole" /\ Joins(config)
  /\ power' = "app"
  /\ UNCHANGED <<conn, flash, memory, history>>

(* Wi-Fi cannot be joined, nothing can be downloaded, or the import of the app
   raises: each resets the device. *)
StartFails ==
  /\ power \in {"installing", "starting"}
  /\ Down
  /\ UNCHANGED <<flash, typed, pieces>>

TimerFires ==
  /\ timer
  /\ Down
  /\ UNCHANGED <<flash, typed, pieces>>

PowerLoss ==
  /\ power # "off"
  /\ Down
  /\ UNCHANGED <<flash, typed, pieces>>
-----------------------------------------------------------------------------

(* ap_configure *)
Configure(c, form) ==
  /\ config' = form
  /\ timer' = TRUE
  /\ Respond(c, 1)

(* Mutant: an empty name is saved. *)
WithAnyName(form) == [config EXCEPT !["cast_device_name"] = form["cast_device_name"]]

(* save_settings keeps the credentials, and the name if it gets no new one. *)
WithName(form) ==
  IF form["cast_device_name"] = "" THEN config
  ELSE [config EXCEPT !["cast_device_name"] = form["cast_device_name"]]

(* settings_save: without config.json json.load raises; otherwise the handler
   returns None.  Neither is answered. *)
SaveSettings(c, form) ==
  /\ IF config = NoConfig THEN UNCHANGED <<config, timer>>
     ELSE config' = WithName(form) /\ timer' = TRUE
  /\ NoResponse(c)

FactoryReset(c) ==
  /\ config' = NoConfig
  /\ timer' = TRUE
  /\ Respond(c, 1)

(* Without /favicon.ico, which is the icon again, and /test, whose cast is in
   CastControl. *)
StatusRoutes ==
  {<<"GET", "/">>, <<"GET", "/icon.png">>, <<"GET", "/settings">>, <<"POST", "/settings">>,
   <<"GET", "/cast-devices">>, <<"POST", "/scan-cast-devices">>, <<"POST", "/factory-reset">>}

(* What the user typed is in config.json now, or will be when asked. *)
Record(r, whole) ==
  /\ pieces' = (~whole \/ (pieces /\ r.path = "/settings"))
  /\ typed' = [k \in Keys |->
                 IF k \in {r.form[i].key : i \in DOMAIN r.form} THEN r.form[Position(r.form, k)].value
                 ELSE typed[k]]

StartScan(c) ==
  /\ scans < SCANS
  /\ scans' = scans + 1
  /\ scanning' = TRUE
  /\ Respond(c, 1)

(* A request has been read, as far as it is read, and is handled. *)
PortalHandles(c, r, form, whole) ==
  /\ power = "portal"
  /\ \/ /\ Matches({<<"POST", "/configure">>}, r)
        /\ Configure(c, form)
        /\ Record(r, whole)
     \/ /\ r.method = "GET"   \* ap_index, ap_icon and ap_catch_all
        /\ Respond(c, 1)
        /\ UNCHANGED <<config, timer, typed, pieces>>
  /\ UNCHANGED <<power, installed, devices, scans, scanning, found>>

StatusHandles(c, r, form, whole) ==
  /\ power = "app"
  /\ \/ /\ ~Matches(StatusRoutes, r)
        /\ NoResponse(c)
        /\ UNCHANGED <<config, timer, scans, scanning, typed, pieces>>
     \/ /\ Matches(StatusRoutes, r) /\ r.method = "GET"
        /\ Respond(c, PAGE)   \* render_template yields the pages in chunks
        /\ UNCHANGED <<config, timer, scans, scanning, typed, pieces>>
     \/ /\ r.method = "POST" /\ r.path = "/settings"
        /\ SaveSettings(c, form)
        /\ IF config = NoConfig \/ r.form[1].value = "" THEN UNCHANGED <<typed, pieces>>
           ELSE Record(r, whole)
        /\ UNCHANGED <<scans, scanning>>
     \/ /\ r.method = "POST" /\ r.path = "/factory-reset"
        /\ FactoryReset(c)
        /\ typed' = NoConfig /\ pieces' = FALSE
        /\ UNCHANGED <<scans, scanning>>
     \/ /\ r.method = "POST" /\ r.path = "/scan-cast-devices"
        /\ StartScan(c)
        /\ UNCHANGED <<config, timer, typed, pieces>>
  /\ UNCHANGED <<power, installed, devices, found>>

Serve(c) ==
  /\ conn[c].pc = "reading"
  /\ LET r == conn[c].request
     IN  \E n \in 0 .. Len(r.form), cut \in BOOLEAN :
           /\ cut => n > 0 /\ r.form[n].value # ""
           /\ LET form == ReadForm(r.form, n, cut)
                  whole == n = Len(r.form) /\ ~cut
              IN  PortalHandles(c, r, form, whole) \/ StatusHandles(c, r, form, whole)

(* Mutant: the list is replaced. *)
MergedOver(names) == SetToSeq(names)

(* The names that are not listed yet are appended. *)
Merged(names) == devices \o SetToSeq(names \ ToSet(devices))

(* Mutant: the flag stays up. *)
EndScanQuietly(names) ==
  /\ scans > 0
  /\ devices' = Merged(names)
  /\ found' = found \cup names
  /\ scans' = scans - 1
  /\ UNCHANGED <<conn, power, flash, timer, scanning, typed, pieces>>

(* The end of _scan: nothing is awaited between reading the list and writing
   it, and the flag goes down although another scan may go on. *)
EndScan(names) ==
  /\ scans > 0
  /\ devices' = Merged(names)
  /\ found' = found \cup names
  /\ scans' = scans - 1
  /\ scanning' = FALSE
  /\ UNCHANGED <<conn, power, flash, timer, typed, pieces>>
-----------------------------------------------------------------------------
Get(path) == [method |-> "GET", path |-> path, form |-> <<>>]
Post(path, form) == [method |-> "POST", path |-> path, form |-> form]
Field(k, v) == [key |-> k, value |-> v]

Requests ==
  IF power = "portal"
  THEN {Get("/")}
         \cup {Post("/configure", <<Field("ssid", f["ssid"]), Field("password", f["password"]),
                                    Field("cast_device_name", f["cast_device_name"])>>) : f \in Forms}
  ELSE {Get("/"), Get("/nothing"), Post("/scan-cast-devices", <<>>), Post("/factory-reset", <<>>)}
         \cup {Post("/settings", <<Field("cast_device_name", n)>>) : n \in NewNames}

ServerStep(c) == BreakOff(c) \/ Drain(c) \/ \E r \in Requests : Connect(c, r)

Next ==
  \/ Boot \/ BootselHeld \/ Install \/ InstallCut \/ StartApp \/ StartFails \/ TimerFires \/ PowerLoss
  \/ \E c \in Clients : Serve(c)
  \/ /\ Serving
     /\ \E c \in Clients : ServerStep(c)
     /\ UNCHANGED <<power, flash, memory, history>>
  \/ \E names \in SUBSET Speakers : EndScan(names)

Spec == Init /\ [][Next]_vars

(* The device goes on while it has power; with the right credentials neither
   Wi-Fi nor the download fails every time. *)
Fairness ==
  /\ WF_vars(Boot) /\ WF_vars(TimerFires)
  /\ SF_vars(Install) /\ SF_vars(StartApp)

FairSpec == Spec /\ Fairness
-----------------------------------------------------------------------------
(* Every variable has its type; connections and scans end with the server, and
   nobody waits for a scan when none runs. *)
TypeOK ==
  /\ \A c \in Clients :
       /\ conn[c].pc \in {"free", "reading", "draining", "silent"}
       /\ conn[c].pc # "free" => Serving
       /\ conn[c].pc = "draining" <=> conn[c].left > 0
  /\ power \in {"off", "portal", "installing", "starting", "app"}
  /\ DOMAIN config = Keys /\ DOMAIN typed = Keys
  /\ installed \in {"none", "broken", "whole"}
  /\ {timer, scanning, pieces} \subseteq BOOLEAN
  /\ scans \in 0 .. SCANS /\ (scans > 0 => power = "app") /\ (scanning => scans > 0)
  /\ ToSet(devices) \subseteq Speakers /\ found \subseteq Speakers

(* What config.json holds is what the users typed last, through portal and
   settings, several clients, resets and factory resets: unless the body of
   the form came in pieces, or the text is not ASCII (captive_portal.py:138-143,
   status.py:129-179, server.py:253-259). *)
SavedAsTyped ==
  ~pieces => \A k \in Keys : typed[k] \notin NonAscii => config[k] = typed[k]

(* What a scan found stays listed, and once, when scans overlap
   (status.py:229-239). *)
ListedOnce == ToSet(devices) = found /\ Len(devices) = Cardinality(found)

(* The settings page asks for the list until it says that no scan runs, and
   then tells "Found ..." or "No devices found." (settings.html:266-273): no
   scan is out then.  It does not hold: a scan that ends lowers the flag for
   all (status.py:239). *)
ScanIsOver == ~scanning => scans = 0

=============================================================================
