----------------------------- MODULE CastControl -----------------------------
(***************************************************************************)
(* Which Chromecast the device casts to.  The boot sequence, the discovery  *)
(* loop, the casts and the HTTP handlers of bilalcast/main.py, discovery.py,*)
(* status.py and captive_portal.py share state["cast_host"] in memory and   *)
(* two files in flash.  (The third, cast_state.json, holds what the status  *)
(* page shows of the last cast; nothing else depends on it.)                *)
(*                                                                         *)
(* The tasks are coroutines of one event loop.  What a task runs between    *)
(* two awaits, and every handler, is one action; only _mdns_find awaits.    *)
(* A reset or a power loss may come between any two actions, between the    *)
(* file writes of save_settings and between the removals of a factory       *)
(* reset.  A file write is atomic: littlefs commits a file when it is       *)
(* closed.  A write that flash refuses leaves the file as it was, or empty. *)
(***************************************************************************)
EXTENDS Naturals, FiniteSets

CONSTANTS
  Names,      \* friendly names of the Chromecasts on the network
  Addrs,      \* their addresses (host and port)
  Casts,      \* the tasks that run do_cast, named by their label
  ATTEMPTS,   \* queries _mdns_find sends before it gives up
  Roaming,    \* whether DHCP may move a device to another address
  Blackouts,  \* whether power may fail
  WriteFails  \* whether flash may refuse a write or a removal

NoName == "no name"
NoAddr == "no address"

ASSUME ConstantsAssumption ==
  /\ NoName \notin Names /\ NoAddr \notin Addrs
  /\ Casts \cap {"main", "loop", "none"} = {}
  /\ ATTEMPTS \in Nat \ {0}
  /\ Roaming \in BOOLEAN /\ Blackouts \in BOOLEAN /\ WriteFails \in BOOLEAN

Tasks == {"main", "loop"} \cup Casts

VARIABLES
  power,     \* "off", "portal", "starting", "resolving" (main awaits), "running"
  cfg,       \* config.json: cast_device_name, NoName without a usable file
  cache,     \* cast_device.json
  name,      \* CAST_DEVICE_NAME
  host,      \* state["cast_host"]
  loop,      \* _discovery_loop: "none", "asleep", "searching" or "retired"
  search,    \* the mDNS query a task awaits, 0 if none
  timer,     \* the one-shot timer that resets the board is armed
  (* The network and the history the properties are about. *)
  addrOf,    \* where each device is
  on,        \* the devices that answer
  played,    \* the device that last played something in this boot
  torn,      \* settings were saved or erased under a search, or in part only
  moved      \* a device has moved to another address

flash == <<cfg, cache>>
memory == <<name, host, loop, search>>
network == <<addrOf, on>>
history == <<played, torn, moved>>
vars == <<power, flash, memory, timer, network, history>>
-----------------------------------------------------------------------------
Serving == power \in {"resolving", "running"}

Answers(a) == \E n \in on : addrOf[n] = a

(* A query takes 3 s and the reset comes 1 s after the timer is armed, so that
   a query sent in between never concludes. *)
LATE == ATTEMPTS + 1

InFlight == \E t \in Tasks : search[t] \in 1 .. ATTEMPTS

(* Memory is lost; what is in flash stays. *)
GoDown ==
  /\ power' = "off"
  /\ name' = NoName
  /\ host' = NoAddr
  /\ loop' = "none"
  /\ search' = [t \in Tasks |-> 0]
  /\ timer' = FALSE
  /\ played' = NoName

Init ==
  /\ power = "off"
  /\ cfg = NoName /\ cache = NoAddr
  /\ name = NoName /\ host = NoAddr
  /\ loop = "none"
  /\ search = [t \in Tasks |-> 0]
  /\ timer = FALSE
  /\ addrOf \in {f \in [Names -> Addrs] : \A m, n \in Names : f[m] = f[n] => m = n}
  /\ on = Names
  /\ played = NoName
  /\ torn = FALSE
  /\ moved = FALSE
-----------------------------------------------------------------------------
(* What a file holds after open(..., "w") and a write, or after os.remove; the
   code goes on either way except where it writes the configuration. *)
Written(old, empty, new) == IF WriteFails THEN {old, empty, new} ELSE {new}
Removed(old, empty) == IF WriteFails THEN {old, empty} ELSE {empty}

(* cast_url: it can only succeed if a device answers at the address, and it
   may fail even then. *)
Play(a) ==
  \E ok \in BOOLEAN :
    /\ ok => Answers(a)
    /\ played' = IF ok THEN CHOOSE n \in on : addrOf[n] = a ELSE played

(* Mutant: the discovery loop is not started. *)
MainGoesOnAlone(a) ==
  /\ host' = a
  /\ loop' = "none"
  /\ power' = "running"
  /\ UNCHANGED played

(* What each task does with the answer a of resolve_cast_device. *)
MainGoesOn(a) ==
  /\ host' = a
  /\ loop' = IF a = NoAddr THEN "asleep" ELSE "none"
  /\ power' = "running"
  /\ UNCHANGED played

LoopGoesOn(a) ==
  /\ IF a = NoAddr
     THEN loop' = "asleep" /\ UNCHANGED host
     ELSE loop' = "retired" /\ host' = a
  /\ UNCHANGED <<power, played>>

CastGoesOn(a) ==
  /\ IF a = NoAddr
     THEN UNCHANGED <<host, played>>
     ELSE host' = a /\ Play(a)
  /\ UNCHANGED <<power, loop>>

GoesOn(t, a) ==
  \/ t = "main" /\ MainGoesOn(a)
  \/ t = "loop" /\ LoopGoesOn(a)
  \/ t \in Casts /\ CastGoesOn(a)

(* The cached address is taken without an await when something answers there. *)
CacheHit(t) ==
  /\ cache # NoAddr
  /\ Answers(cache)
  /\ GoesOn(t, cache)
  /\ UNCHANGED <<cfg, cache, name, search, timer, network, torn, moved>>

(* Otherwise the task sends its first query and awaits. *)
StartSearch(t) ==
  /\ search' = [search EXCEPT ![t] = IF timer THEN LATE ELSE 1]
  /\ IF t = "main" THEN power' = "resolving" ELSE UNCHANGED power
  /\ IF t = "loop" THEN loop' = "searching" ELSE UNCHANGED loop
  /\ UNCHANGED <<flash, name, host, timer, network, history>>

Resolve(t) == CacheHit(t) \/ StartSearch(t)

(* Mutant: the friendly name of the device that answers is not compared. *)
SearchFindsAny(t) ==
  /\ search[t] \in 1 .. ATTEMPTS
  /\ \E n \in on :
       /\ search' = [search EXCEPT ![t] = 0]
       /\ cache' \in Written(cache, NoAddr, addrOf[n])
       /\ GoesOn(t, addrOf[n])
  /\ UNCHANGED <<cfg, name, timer, network, torn, moved>>

(* _mdns_find: the device with the configured name answers the query.  That the
   cache cannot be written is only logged. *)
SearchFinds(t) ==
  /\ search[t] \in 1 .. ATTEMPTS
  /\ name \in on
  /\ search' = [search EXCEPT ![t] = 0]
  /\ cache' \in Written(cache, NoAddr, addrOf[name])
  /\ GoesOn(t, addrOf[name])
  /\ UNCHANGED <<cfg, name, timer, network, torn, moved>>

(* Mutant: queries without end. *)
SearchMissesOn(t) ==
  /\ search[t] > 0
  /\ search' = [search EXCEPT ![t] = @ + 1]
  /\ UNCHANGED <<power, flash, name, host, loop, timer, network, history>>

(* Off, out of reach or a lost packet: the next query. *)
SearchMisses(t) ==
  /\ search[t] > 0 /\ search[t] < ATTEMPTS
  /\ search' = [search EXCEPT ![t] = IF timer THEN LATE ELSE @ + 1]
  /\ UNCHANGED <<power, flash, name, host, loop, timer, network, history>>

SearchGivesUp(t) ==
  /\ search[t] = ATTEMPTS
  /\ search' = [search EXCEPT ![t] = 0]
  /\ GoesOn(t, NoAddr)
  /\ UNCHANGED <<cfg, cache, name, timer, network, torn, moved>>
-----------------------------------------------------------------------------
(* main(): the configuration is read and the server started; or the captive
   portal opens. *)
Boot ==
  /\ power = "off"
  /\ IF cfg = NoName
     THEN power' = "portal" /\ UNCHANGED name
     ELSE power' = "starting" /\ name' = cfg
  /\ UNCHANGED <<flash, host, loop, search, timer, network, history>>

(* check_factory_reset: BOOTSEL is held while the device boots.  The files are
   removed one by one, the configuration first. *)
BootselReset ==
  /\ power = "off"
  /\ power' = "portal"
  /\ cfg' \in Removed(cfg, NoName) /\ cache' \in Removed(cache, NoAddr)
  /\ torn' = (cache' # NoAddr)
  /\ UNCHANGED <<memory, timer, network, played, moved>>

(* Power fails before the cached address is removed. *)
BootselResetCut ==
  /\ Blackouts
  /\ power = "off"
  /\ cfg' = NoName
  /\ torn' = (torn \/ cache # NoAddr)
  /\ UNCHANGED <<power, cache, memory, timer, network, played, moved>>

(* main() reaches resolve_cast_device; nothing awaited before it. *)
MainResolves ==
  /\ power = "starting"
  /\ Resolve("main")

(* _discovery_loop wakes up after its 30 seconds. *)
LoopWakes ==
  /\ loop = "asleep"
  /\ \/ /\ host # NoAddr
        /\ loop' = "retired"
        /\ UNCHANGED <<power, flash, name, host, search, timer, network, history>>
     \/ host = NoAddr /\ Resolve("loop")

(* do_cast, from the scheduler (which runs once main has resolved) or from
   the /test handler. *)
StartCast(c) ==
  /\ Serving
  /\ power = "resolving" => c = "test"
  /\ search[c] = 0
  /\ \/ /\ host # NoAddr
        /\ Play(host)
        /\ UNCHANGED <<power, cfg, cache, name, host, loop, search, timer, network, torn, moved>>
     \/ host = NoAddr /\ Resolve(c)
-----------------------------------------------------------------------------
(* The captive portal's form; it writes nothing but the configuration.  When
   flash refuses, the handler raises before it arms the timer. *)
PortalSaves(n) ==
  /\ power = "portal"
  /\ \/ cfg' = n /\ timer' = TRUE
     \/ WriteFails /\ cfg' \in {cfg, NoName} /\ UNCHANGED timer
  /\ torn' = (torn \/ cache # NoAddr)
  /\ UNCHANGED <<power, cache, memory, network, played, moved>>

(* Mutant: a new name leaves the cached address in place. *)
CacheSavedStale(n, picked) == IF picked THEN addrOf[n] ELSE cache

(* The cache after save_settings: a new name empties it, a device picked from
   the list of scanned ones fills it. *)
CacheSaved(n, picked) ==
  IF picked THEN addrOf[n] ELSE IF n # cfg THEN NoAddr ELSE cache

(* Mutant: without a file the settings are saved all the same. *)
SaveSettingsAnew(n) ==
  /\ Serving
  /\ \E picked \in BOOLEAN : cache' = CacheSaved(n, picked)
  /\ cfg' = n
  /\ timer' = TRUE
  /\ torn' = (torn \/ InFlight \/ timer)
  /\ UNCHANGED <<power, memory, network, played, moved>>

(* POST /settings; without a configuration to read the handler raises. *)
SaveSettings(n) ==
  /\ Serving
  /\ cfg # NoName
  /\ \E picked \in BOOLEAN : cache' = CacheSaved(n, picked)
  /\ cfg' = n
  /\ timer' = TRUE
  /\ torn' = (torn \/ InFlight \/ timer)
  /\ UNCHANGED <<power, memory, network, played, moved>>

(* Flash refuses: of the cache's removal and write this is only logged, of the
   configuration's write it ends the handler before the timer is armed. *)
SaveSettingsRefused(n) ==
  /\ WriteFails
  /\ Serving
  /\ cfg # NoName
  /\ \E picked \in BOOLEAN : cache' \in {cache, NoAddr, CacheSaved(n, picked)}
  /\ \/ cfg' = n /\ timer' = TRUE
     \/ cfg' \in {cfg, NoName} /\ UNCHANGED timer
  /\ torn' = TRUE
  /\ UNCHANGED <<power, memory, network, played, moved>>

(* Power fails before the configuration is written: the cached address of the
   old name may be gone, and that of the picked device be there. *)
SaveSettingsCut(n) ==
  /\ Blackouts
  /\ Serving
  /\ cfg # NoName
  /\ \E picked \in BOOLEAN :
       /\ cache' \in {CacheSaved(n, picked), CacheSaved(n, FALSE)}
       /\ torn' = (torn \/ (picked /\ n # cfg))
  /\ GoDown
  /\ UNCHANGED <<cfg, network, moved>>

(* Mutant: cast_device.json is not removed. *)
FactoryResetKeepsCache ==
  /\ Serving
  /\ cfg' \in Removed(cfg, NoName)
  /\ timer' = TRUE
  /\ torn' = (torn \/ InFlight \/ timer)
  /\ UNCHANGED <<power, cache, memory, network, played, moved>>

(* POST /factory-reset: the files are removed one by one, the configuration
   first; one that stays is passed over. *)
FactoryReset ==
  /\ Serving
  /\ cfg' \in Removed(cfg, NoName) /\ cache' \in Removed(cache, NoAddr)
  /\ timer' = TRUE
  /\ torn' = (torn \/ InFlight \/ timer \/ cache' # NoAddr)
  /\ UNCHANGED <<power, memory, network, played, moved>>

(* Power fails before the cached address is removed. *)
FactoryResetCut ==
  /\ Blackouts
  /\ Serving
  /\ cfg' = NoName
  /\ torn' = (torn \/ cache # NoAddr)
  /\ GoDown
  /\ UNCHANGED <<cache, network, moved>>

(* The timer's callback calls machine.reset(). *)
TimerFires ==
  /\ timer
  /\ GoDown
  /\ UNCHANGED <<flash, network, torn, moved>>

PowerLoss ==
  /\ Blackouts
  /\ power # "off"
  /\ GoDown
  /\ UNCHANGED <<flash, network, torn, moved>>
-----------------------------------------------------------------------------
(* The Chromecasts are switched on and off. *)
Switch(n) ==
  /\ on' = IF n \in on THEN on \ {n} ELSE on \cup {n}
  /\ UNCHANGED <<power, flash, memory, timer, addrOf, history>>

(* DHCP gives device n another address, or two devices each other's. *)
Move(n) ==
  /\ Roaming
  /\ \E a \in Addrs \ {addrOf[n]} :
       addrOf' = [m \in Names |-> IF m = n THEN a
                                  ELSE IF addrOf[m] = a THEN addrOf[n] ELSE addrOf[m]]
  /\ moved' = TRUE
  /\ UNCHANGED <<power, flash, memory, timer, on, played, torn>>

SearchStep(t) == SearchFinds(t) \/ SearchMisses(t) \/ SearchGivesUp(t)

Next ==
  \/ Boot
  \/ BootselReset
  \/ BootselResetCut
  \/ MainResolves
  \/ LoopWakes
  \/ \E t \in Tasks : SearchStep(t)
  \/ \E c \in Casts : StartCast(c)
  \/ \E n \in Names : PortalSaves(n) \/ SaveSettings(n) \/ SaveSettingsRefused(n) \/ SaveSettingsCut(n)
  \/ FactoryReset
  \/ FactoryResetCut
  \/ TimerFires
  \/ PowerLoss
  \/ \E n \in Names : Switch(n) \/ Move(n)

Spec == Init /\ [][Next]_vars

(* The event loop runs every task whose timer has expired, and a device that
   is on is not missed by every query for ever. *)
Fairness ==
  /\ WF_vars(MainResolves)
  /\ WF_vars(LoopWakes)
  /\ \A t \in Tasks : WF_vars(SearchStep(t)) /\ SF_vars(SearchFinds(t))
  /\ WF_vars(TimerFires)

FairSpec == Spec /\ Fairness
-----------------------------------------------------------------------------
(* Every variable has its type. *)
TypeOK ==
  /\ power \in {"off", "portal", "starting", "resolving", "running"}
  /\ cfg \in Names \cup {NoName} /\ name \in Names \cup {NoName}
  /\ cache \in Addrs \cup {NoAddr} /\ host \in Addrs \cup {NoAddr}
  /\ loop \in {"none", "asleep", "searching", "retired"}
  /\ search \in [Tasks -> 0 .. LATE]
  /\ timer \in BOOLEAN
  /\ addrOf \in [Names -> Addrs]
  /\ on \subseteq Names
  /\ played \in Names \cup {NoName}
  /\ torn \in BOOLEAN /\ moved \in BOOLEAN

(* Unless settings were saved or erased under a search, twice within the second
   before the reset or in part only, or a device moved, whatever plays in this
   boot is the device of the configuration in use, or in that second the saved
   one. *)
RightDevice == ~torn /\ ~moved => played \in {NoName, name, cfg}

(* ... and what outlasts the boot in cast_device.json is the address of the
   device that config.json names. *)
CacheFollowsConfig ==
  ~torn /\ ~moved /\ cache # NoAddr => cfg # NoName /\ cache = addrOf[cfg]

(* README.md:24, "play a short activation message on your Chromecast", the one
   whose name was entered (README.md:23). *)
YoursPlays == ~moved => played \in {NoName, name, cfg}

(* A factory reset is final: no handler, task or timer brings a configuration
   back before the captive portal does (status.py:129-131, 244-256). *)
ErasedStaysErased ==
  [][cfg = NoName /\ cfg' # NoName => power = "portal"]_vars

(* A device that stays on is found in the end. *)
FoundInTheEnd ==
  (power = "running" /\ host = NoAddr)
    ~> (host # NoAddr \/ power # "running" \/ name \notin on)

=============================================================================
