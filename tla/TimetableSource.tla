--------------------------- MODULE TimetableSource ---------------------------
(***************************************************************************)
(* For which place the prayer times are fetched: the location settings of   *)
(* bilalcast/status.py and www/settings.html, their resolution at boot and  *)
(* after midnight in bilalcast/main.py, and the fallbacks of                *)
(* bilalcast/prayer.py between coordinates, address and IP geolocation.     *)
(*                                                                         *)
(* A place stands for its coordinates and for its address.  The requests    *)
(* block the event loop, so that what main() does between two awaits never  *)
(* interleaves with a handler; it is split into one action per request,     *)
(* between which power may fail or the armed timer reset the board.         *)
(***************************************************************************)
CONSTANTS
  Places,        \* where the device may stand
  GeocoderKnows, \* addresses Nominatim resolves when it can be reached
  ServiceKnows   \* addresses Aladhan resolves when it can be reached

Nowhere == "nowhere"

ASSUME PlacesAssumption ==
  /\ Nowhere \notin Places
  /\ GeocoderKnows \subseteq Places /\ ServiceKnows \subseteq Places

Maybe == Places \cup {Nowhere}
Locations == [coords : Maybe, addr : Maybe]
Blank == [coords |-> Nowhere, addr |-> Nowhere]

NoTimes == [place |-> Nowhere, tuned |-> FALSE]
NoPage == [form |-> Blank, late |-> FALSE, tuned |-> FALSE, of |-> Blank]

VARIABLES
  cfg,      \* config.json: lat and lon, address
  pc,       \* where main() or run_schedule() is
  mem,      \* _cfg_lat and _cfg_lon, _cfg_address
  geo,      \* geo_lat and geo_lon, what get_location() last returned
  shown,    \* state["lat"] and state["lon"], state["address"]
  times,    \* state["prayer_times"]: their place, and whether the request
            \* carried the configured lat_adj, midnight and school
  timer,    \* the one-shot timer that resets the board is armed
  page,     \* the settings page open in a browser: what its form holds,
            \* whether boot was over, and the timetable then tuned, and the
            \* configuration that boot read
  here,     \* where IP geolocation finds the device
  (* History. *)
  booted,   \* the location configured at this boot
  geocoded, \* the geocoder answered in this boot
  chosen    \* the user has given a location since the setup

browser == <<page, here>>
history == <<booted, geocoded, chosen>>
vars == <<cfg, pc, mem, geo, shown, times, timer, browser, history>>
-----------------------------------------------------------------------------
GoDown ==
  /\ pc' = "off"
  /\ mem' = Blank /\ geo' = Nowhere /\ shown' = Blank /\ times' = NoTimes
  /\ timer' = FALSE
  /\ booted' = Blank /\ geocoded' = FALSE

Init ==
  /\ cfg = Blank
  /\ pc = "off"
  /\ mem = Blank /\ geo = Nowhere /\ shown = Blank /\ times = NoTimes
  /\ timer = FALSE
  /\ page = NoPage
  /\ here \in Places
  /\ booted = Blank /\ geocoded = FALSE /\ chosen = FALSE

(* main() reads the configuration and starts the server. *)
Boot ==
  /\ pc = "off"
  /\ mem' = cfg /\ booted' = cfg
  /\ pc' = "locating"
  /\ UNCHANGED <<cfg, geo, shown, times, timer, browser, geocoded, chosen>>

(* get_location() returns; main() awaits resolve_cast_device, and for the
   first time the server's handlers run. *)
Locate ==
  /\ pc = "locating"
  /\ geo' = here
  /\ pc' = "discovering"
  /\ UNCHANGED <<cfg, mem, shown, times, timer, browser, history>>

(* The coordinates configured, those of the address, or the IP's. *)
UseConfigured ==
  /\ mem.coords # Nowhere
  /\ shown' = mem
  /\ pc' = "fetching"
  /\ UNCHANGED <<mem, geocoded>>

(* geocode_address answers, and its answer counts as configured. *)
UseGeocoded ==
  /\ mem.coords = Nowhere /\ mem.addr \in GeocoderKnows
  /\ mem' = [mem EXCEPT !.coords = mem.addr]
  /\ shown' = mem'
  /\ geocoded' = TRUE
  /\ pc' = "fetching"

(* The one attempt at geocoding failed. *)
UseAddress ==
  /\ mem.coords = Nowhere /\ mem.addr # Nowhere
  /\ shown' = mem
  /\ pc' = "trying"
  /\ UNCHANGED <<mem, geocoded>>

UseGeolocation ==
  /\ mem = Blank
  /\ shown' = [mem EXCEPT !.coords = geo]
  /\ pc' = "fetching"
  /\ UNCHANGED <<mem, geocoded>>

ResolveLocation ==
  /\ pc = "discovering"
  /\ UseConfigured \/ UseGeocoded \/ UseAddress \/ UseGeolocation
  /\ UNCHANGED <<cfg, geo, times, timer, browser, booted, chosen>>

(* try_prayers_by_address: a single attempt. *)
TryAddress ==
  /\ pc = "trying"
  /\ \/ /\ mem.addr \in ServiceKnows
        /\ times' = [place |-> mem.addr, tuned |-> TRUE]
        /\ pc' = "running"
        /\ UNCHANGED shown
     \/ /\ shown' = [shown EXCEPT !.coords = geo]
        /\ pc' = "falling back"
        /\ UNCHANGED times
  /\ UNCHANGED <<cfg, mem, geo, timer, browser, history>>

(* Mutant: the coordinates are those of the configuration, which has none. *)
FallBackNowhere ==
  /\ pc = "falling back"
  /\ times' = [place |-> mem.coords, tuned |-> FALSE]
  /\ pc' = "running"
  /\ UNCHANGED <<cfg, mem, geo, shown, timer, browser, history>>

(* get_all_prayers(lat, lon, CALC_METHOD, _tz_string), retried until it
   succeeds; the other settings keep their defaults. *)
FallBack ==
  /\ pc = "falling back"
  /\ times' = [place |-> geo, tuned |-> FALSE]
  /\ pc' = "running"
  /\ UNCHANGED <<cfg, mem, geo, shown, timer, browser, history>>

(* _get_prayer_times: by coordinates or by address, retried until the service
   answers. *)
Fetch ==
  /\ pc = "fetching"
  /\ \/ /\ shown.coords # Nowhere
        /\ times' = [place |-> shown.coords, tuned |-> TRUE]
     \/ /\ shown.coords = Nowhere /\ mem.addr \in ServiceKnows
        /\ times' = [place |-> mem.addr, tuned |-> TRUE]
  /\ pc' = "running"
  /\ UNCHANGED <<cfg, mem, geo, shown, timer, browser, history>>

(* Mutant: midnight takes the IP's coordinates. *)
MidnightByIp ==
  /\ pc = "running"
  /\ geo' = here
  /\ shown' = [shown EXCEPT !.coords = here]
  /\ pc' = "fetching"
  /\ UNCHANGED <<cfg, mem, times, timer, browser, history>>

(* Mutant: ... unless coordinates are configured, an address or not. *)
MidnightDropsAddress ==
  /\ pc = "running"
  /\ geo' = here
  /\ shown' = [shown EXCEPT !.coords = IF mem.coords # Nowhere THEN mem.coords ELSE here]
  /\ pc' = "fetching"
  /\ UNCHANGED <<cfg, mem, times, timer, browser, history>>

(* run_schedule() after midnight: get_location(), then the same choice of
   coordinates without the geocoder. *)
Midnight ==
  /\ pc = "running"
  /\ geo' = here
  /\ shown' = [shown EXCEPT !.coords =
                 IF mem.coords # Nowhere THEN mem.coords
                 ELSE IF mem.addr # Nowhere THEN Nowhere ELSE here]
  /\ pc' = "fetching"
  /\ UNCHANGED <<cfg, mem, times, timer, browser, history>>
-----------------------------------------------------------------------------
Serving == pc \in {"discovering", "running"}

(* Mutant: the form holds the geolocated coordinates. *)
OpenSettingsByIp ==
  /\ Serving
  /\ page' = [form |-> [shown EXCEPT !.coords = geo], late |-> pc = "running", tuned |-> times.tuned, of |-> booted]
  /\ UNCHANGED <<cfg, pc, mem, geo, shown, times, timer, here, history>>

(* GET /settings: the form is filled from the shared state. *)
OpenSettings ==
  /\ Serving
  /\ page' = [form |-> shown, late |-> pc = "running", tuned |-> times.tuned, of |-> booted]
  /\ UNCHANGED <<cfg, pc, mem, geo, shown, times, timer, here, history>>

(* POST /settings; of save_settings' branches each stores the location fields
   as they were sent. *)
SaveSettings(form) ==
  /\ Serving
  /\ cfg' = form
  /\ timer' = TRUE
  /\ UNCHANGED <<pc, mem, geo, shown, times, browser, booted, geocoded>>

(* Save & Reboot with the location fields as they are. *)
SaveUntouched ==
  /\ page # NoPage
  /\ SaveSettings(page.form)
  /\ UNCHANGED chosen

(* Typing an address clears the coordinates, picking a suggestion sets them,
   and the cross clears all. *)
SaveTouched ==
  /\ page # NoPage
  /\ \E a \in Places :
       \/ SaveSettings([coords |-> Nowhere, addr |-> a])
       \/ SaveSettings([coords |-> a, addr |-> a])
  /\ chosen' = TRUE

SaveCleared ==
  /\ page # NoPage
  /\ SaveSettings(Blank)
  /\ chosen' = FALSE

(* POST /factory-reset, and the onboarding that follows, which configures no
   location. *)
FactoryReset ==
  /\ Serving
  /\ cfg' = Blank
  /\ timer' = TRUE
  /\ chosen' = FALSE
  /\ UNCHANGED <<pc, mem, geo, shown, times, browser, booted, geocoded>>

TimerFires ==
  /\ timer
  /\ GoDown
  /\ UNCHANGED <<cfg, browser, chosen>>

PowerLoss ==
  /\ pc # "off"
  /\ GoDown
  /\ UNCHANGED <<cfg, browser, chosen>>

(* The device is taken elsewhere, or its provider's address is. *)
Move ==
  /\ here' \in Places \ {here}
  /\ UNCHANGED <<cfg, pc, mem, geo, shown, times, timer, page, history>>

MainStep ==
  \/ Boot
  \/ Locate
  \/ ResolveLocation
  \/ TryAddress
  \/ FallBack
  \/ Fetch
  \/ TimerFires

Next ==
  \/ MainStep
  \/ Midnight
  \/ OpenSettings
  \/ SaveUntouched
  \/ SaveTouched
  \/ SaveCleared
  \/ FactoryReset
  \/ PowerLoss
  \/ Move

Spec == Init /\ [][Next]_vars

(* Midnight comes, and the services answer in the end of what they know. *)
FairSpec == Spec /\ WF_vars(MainStep) /\ WF_vars(Midnight)
-----------------------------------------------------------------------------
(* Every variable has its type, and the scheduler runs with a timetable. *)
TypeOK ==
  /\ pc = "running" => times.place \in Places
  /\ {cfg, mem, shown, booted} \subseteq Locations
  /\ pc \in {"off", "locating", "discovering", "trying", "falling back", "fetching", "running"}
  /\ geo \in Maybe /\ here \in Places
  /\ times \in [place : Maybe, tuned : BOOLEAN]
  /\ page \in [form : Locations, late : BOOLEAN, tuned : BOOLEAN, of : Locations]
  /\ {timer, geocoded, chosen} \subseteq BOOLEAN

(* The timetable in use is the configured place's, by its coordinates before
   its address; another place's only if there was none to use, and then the
   one IP geolocation named last (main.py:239-250, 348-352, 453-496). *)
RightPlace ==
  times # NoTimes =>
    \/ times.place = booted.coords
    \/ booted.coords = Nowhere /\ times.place = booted.addr
    \/ booted.coords = Nowhere /\ ~geocoded /\ pc = "running" /\ times.place = geo
    \/ booted.coords = Nowhere /\ ~geocoded /\ pc = "fetching"

(* An address that was once resolved in this boot is not given up for the IP's
   place, whatever the following midnights bring (main.py:348-349, 464-465). *)
NeverBackToIp ==
  [][ times.place = booted.addr /\ booted.addr # Nowhere /\ booted.coords = Nowhere
      => times'.place \in {booted.addr, Nowhere} ]_vars

(* The place that a configuration stands for: the coordinates come first. *)
Place(c) == IF c.coords # Nowhere THEN c.coords ELSE c.addr

SavedAsOpened(opened) == SaveUntouched /\ opened /\ page.of = cfg /\ cfg # Blank

(* Saving a page that was opened after boot, under the configuration still in
   force, keeps the place and the address configured; unless the page showed
   the IP's place, for want of an answer about the address at boot
   (status.py:105-113, 143-160). *)
LatePageKeeps ==
  [][ SavedAsOpened(page.late /\ page.tuned) => Place(cfg') = Place(cfg) /\ cfg'.addr = cfg.addr ]_vars

(* "... or leave as-is for address-based lookup" (settings.html:52), of every
   page opened after boot.  It does not hold: after the fallback the form has
   the IP's coordinates, and from the next boot on they come before the
   address (main.py:490-491, status.py:146-150). *)
LeaveAsIs ==
  [][ SavedAsOpened(page.late) => Place(cfg') = Place(cfg) ]_vars

(* The same of a page opened while boot looks for the Chromecast.  It does not
   hold: the location is not in the shared state yet, and the empty form
   erases it (main.py:434-477, status.py:154-160). *)
LeaveAsIsEarly ==
  [][ SavedAsOpened(~page.late) => Place(cfg') = Place(cfg) ]_vars

(* "wait for local midnight, re-sync, re-fetch" (main.py:338): every refresh of
   the timetable comes to an end.  It does not hold where the prayer service
   does not know the address: boot falls back to the IP's place, the midnight
   after it retries for ever (main.py:348-352, prayer.py:156-178). *)
DayGoesOn == pc \in {"trying", "falling back", "fetching"} ~> pc \in {"running", "off"}
=============================================================================
