-------------------------- MODULE CastControlProofs --------------------------
(* Flash agrees with itself and the configured device plays, for any number  *)
(* of devices, addresses, casts and queries.                                 *)
EXTENDS CastControl, TLAPS

Up == power \in {"starting", "resolving", "running"}

(* Nothing runs before the first await, nor in the portal. *)
QuietBefore ==
  /\ power \in {"off", "portal", "starting"} =>
       /\ loop = "none" /\ host = NoAddr /\ played = NoName
       /\ \A t \in Tasks : search[t] = 0
  /\ power \in {"off", "starting"} => ~timer

(* Until somebody saves or erases it, the configuration in flash is in use. *)
ConfigInUse == ~torn /\ Up /\ ~timer => cfg # NoName /\ name = cfg

(* A query that may still succeed is for the configured device. *)
SearchForConfig == ~torn /\ InFlight => ~timer

OwnAddresses == ~moved => \A m, n \in Names : addrOf[m] = addrOf[n] => m = n

OfConfigured(a) == \E n \in Names : n \in {name, cfg} /\ a = addrOf[n]

RightHost == ~torn /\ ~moved /\ host # NoAddr => OfConfigured(host)

CastInv ==
  /\ TypeOK
  /\ QuietBefore
  /\ ConfigInUse
  /\ SearchForConfig
  /\ OwnAddresses
  /\ CacheFollowsConfig
  /\ RightHost
  /\ RightDevice
-----------------------------------------------------------------------------
LEMMA InitCastInv == Init => CastInv
<1>. SUFFICES ASSUME Init PROVE CastInv
  OBVIOUS
<1>1. TypeOK
  <2>1. search \in [Tasks -> 0 .. LATE]
    BY ConstantsAssumption DEF Init, LATE
  <2>2. addrOf \in [Names -> Addrs]
    BY DEF Init
  <2>. QED
    BY <2>1, <2>2 DEF Init, TypeOK
<1>2. QuietBefore /\ ConfigInUse /\ SearchForConfig /\ OwnAddresses
  BY DEF Init, QuietBefore, ConfigInUse, SearchForConfig, OwnAddresses, Up
<1>3. CacheFollowsConfig /\ RightHost /\ RightDevice
  BY DEF Init, CacheFollowsConfig, RightHost, RightDevice
<1>. QED
  BY <1>1, <1>2, <1>3 DEF CastInv

(* A cast plays the device that answers at the address, and it is the only
   one there. *)
LEMMA PlayRight ==
  ASSUME CastInv, NEW a \in Addrs, Play(a),
         ~torn /\ ~moved => OfConfigured(a)
  PROVE  /\ played' \in Names \cup {NoName}
         /\ ~torn /\ ~moved => played' \in {NoName, name, cfg}
<1>1. PICK ok \in BOOLEAN :
        /\ ok => Answers(a)
        /\ played' = IF ok THEN CHOOSE n \in on : addrOf[n] = a ELSE played
  BY DEF Play
<1>2. CASE ok
  <2>1. played' \in on /\ addrOf[played'] = a
    BY <1>1, <1>2 DEF Answers
  <2>. QED
    BY <2>1 DEF CastInv, TypeOK, OwnAddresses, OfConfigured
<1>3. CASE ~ok
  BY <1>1, <1>3 DEF CastInv, TypeOK, RightDevice
<1>. QED
  BY <1>2, <1>3

(* What main(), the discovery loop and a cast do with an address keeps the
   invariant, if the address is of the configured device and so is the cache. *)
LEMMA GoesOnKeeps ==
  ASSUME CastInv, NEW t \in Tasks, NEW a \in Addrs \cup {NoAddr}, GoesOn(t, a),
         (t = "main" /\ Up) \/ power \in {"resolving", "running"},
         a # NoAddr /\ ~torn /\ ~moved => OfConfigured(a),
         UNCHANGED <<cfg, name, timer, network, torn, moved>>,
         cache' \in Addrs \cup {NoAddr}, CacheFollowsConfig',
         search' \in [Tasks -> 0 .. LATE],
         \A u \in Tasks : search'[u] \in {0, search[u]}
  PROVE  CastInv'
<1>. USE ConstantsAssumption
<1>1. /\ power' = "running" \/ (power' = power /\ power \in {"resolving", "running"})
      /\ loop' \in {"none", "asleep", "retired", loop}
  <2>1. CASE t = "main" /\ MainGoesOn(a)
    BY <2>1 DEF MainGoesOn
  <2>2. CASE t = "loop" /\ LoopGoesOn(a)
    BY <2>2 DEF LoopGoesOn
  <2>3. CASE t \in Casts /\ CastGoesOn(a)
    <3>1. t # "main"
      BY <2>3
    <3>. QED
      BY <2>3, <3>1 DEF CastGoesOn
  <2>. QED
    BY <2>1, <2>2, <2>3 DEF GoesOn
<1>2. host' \in {host, a}
  BY DEF GoesOn, MainGoesOn, LoopGoesOn, CastGoesOn
<1>3. /\ played' \in Names \cup {NoName}
      /\ ~torn /\ ~moved => played' \in {NoName, name, cfg}
  <2>1. CASE UNCHANGED played
    BY <2>1 DEF CastInv, TypeOK, RightDevice
  <2>2. CASE t \in Casts /\ CastGoesOn(a)
    <3>1. CASE a = NoAddr
      BY <2>1, <2>2, <3>1 DEF CastGoesOn
    <3>2. CASE a # NoAddr
      BY <2>2, <3>2, PlayRight DEF CastGoesOn
    <3>. QED
      BY <3>1, <3>2
  <2>. QED
    BY <2>1, <2>2 DEF GoesOn, MainGoesOn, LoopGoesOn
<1>4. UNCHANGED <<cfg, name, timer, addrOf, on, torn, moved>>
  BY DEF network
<1>5. TypeOK'
  BY <1>1, <1>2, <1>3, <1>4 DEF CastInv, TypeOK
<1>6. QuietBefore' /\ ConfigInUse'
  BY <1>1, <1>4 DEF CastInv, QuietBefore, ConfigInUse, Up
<1>7. SearchForConfig'
  BY <1>4 DEF CastInv, SearchForConfig, InFlight
<1>9. OwnAddresses' /\ RightHost' /\ RightDevice'
  BY <1>2, <1>3, <1>4 DEF CastInv, OwnAddresses, RightHost, RightDevice, OfConfigured
<1>. QED
  BY <1>5, <1>6, <1>7, <1>9 DEF CastInv

LEMMA CacheHitKeeps ==
  ASSUME CastInv, NEW t \in Tasks, CacheHit(t),
         (t = "main" /\ Up) \/ power \in {"resolving", "running"}
  PROVE  CastInv'
<1>1. cache \in Addrs /\ GoesOn(t, cache)
  BY DEF CacheHit, CastInv, TypeOK
<1>2. ~torn /\ ~moved => OfConfigured(cache)
  BY DEF CacheHit, CastInv, TypeOK, CacheFollowsConfig, OfConfigured
<1>3. UNCHANGED <<cfg, cache, name, search, timer, network, torn, moved>>
  BY DEF CacheHit
<1>4. CacheFollowsConfig' /\ search' \in [Tasks -> 0 .. LATE]
  BY <1>3 DEF CastInv, CacheFollowsConfig, TypeOK, network
<1>. QED
  BY <1>1, <1>2, <1>3, <1>4, GoesOnKeeps

LEMMA StartSearchKeeps ==
  ASSUME CastInv, NEW t \in Tasks, StartSearch(t),
         (t = "main" /\ Up) \/ power \in {"resolving", "running"}
  PROVE  CastInv'
<1>. USE ConstantsAssumption
<1>1. /\ power' \in {"resolving", "running"}
      /\ loop' \in {"searching", loop}
      /\ UNCHANGED <<cfg, cache, name, host, timer, addrOf, on, played, torn, moved>>
  BY DEF StartSearch, flash, network, history
<1>2. search' = [search EXCEPT ![t] = IF timer THEN LATE ELSE 1]
  BY DEF StartSearch
<1>3. search' \in [Tasks -> 0 .. LATE]
  BY <1>2 DEF CastInv, TypeOK, LATE
<1>4. TypeOK'
  BY <1>1, <1>3 DEF CastInv, TypeOK
<1>5. QuietBefore' /\ ConfigInUse'
  BY <1>1 DEF CastInv, QuietBefore, ConfigInUse, Up
<1>6. SearchForConfig'
  BY <1>1, <1>2 DEF CastInv, TypeOK, SearchForConfig, InFlight, LATE
<1>7. OwnAddresses' /\ CacheFollowsConfig' /\ RightHost' /\ RightDevice'
  BY <1>1 DEF CastInv, OwnAddresses, CacheFollowsConfig, RightHost, RightDevice, OfConfigured
<1>. QED
  BY <1>4, <1>5, <1>6, <1>7 DEF CastInv

(* A query of a task in flight: the device runs. *)
LEMMA SearchingIsUp ==
  ASSUME CastInv, NEW t \in Tasks, search[t] > 0
  PROVE  power \in {"resolving", "running"}
BY DEF CastInv, TypeOK, QuietBefore

LEMMA SearchFindsKeeps ==
  ASSUME CastInv, NEW t \in Tasks, SearchFinds(t)
  PROVE  CastInv'
<1>. USE ConstantsAssumption
<1>1. search[t] \in 1 .. ATTEMPTS /\ name \in on /\ name \in Names /\ addrOf[name] \in Addrs
  BY DEF SearchFinds, CastInv, TypeOK
<1>2. power \in {"resolving", "running"}
  BY <1>1, SearchingIsUp
<1>3. /\ GoesOn(t, addrOf[name]) /\ cache' \in {cache, NoAddr, addrOf[name]}
      /\ UNCHANGED <<cfg, name, timer, network, torn, moved>>
      /\ search' = [search EXCEPT ![t] = 0]
  BY DEF SearchFinds, Written
<1>4. ~torn => cfg = name
  BY <1>1, <1>2 DEF CastInv, SearchForConfig, InFlight, ConfigInUse, Up
<1>5. CacheFollowsConfig' /\ cache' \in Addrs \cup {NoAddr}
  BY <1>1, <1>3, <1>4 DEF CastInv, TypeOK, CacheFollowsConfig, network
<1>6. search' \in [Tasks -> 0 .. LATE] /\ \A u \in Tasks : search'[u] \in {0, search[u]}
  BY <1>3 DEF CastInv, TypeOK, LATE
<1>7. OfConfigured(addrOf[name])
  BY <1>1 DEF OfConfigured
<1>. QED
  BY <1>1, <1>2, <1>3, <1>5, <1>6, <1>7, GoesOnKeeps

LEMMA SearchMissesKeeps ==
  ASSUME CastInv, NEW t \in Tasks, SearchMisses(t)
  PROVE  CastInv'
<1>. USE ConstantsAssumption
<1>1. /\ UNCHANGED <<power, cfg, cache, name, host, loop, timer, addrOf, on, played, torn, moved>>
      /\ search[t] > 0 /\ search[t] < ATTEMPTS
      /\ search' = [search EXCEPT ![t] = IF timer THEN LATE ELSE search[t] + 1]
  BY DEF SearchMisses, flash, network, history
<1>2. search' \in [Tasks -> 0 .. LATE]
  BY <1>1 DEF CastInv, TypeOK, LATE
<1>3. TypeOK'
  BY <1>1, <1>2 DEF CastInv, TypeOK
<1>4. QuietBefore' /\ ConfigInUse'
  BY <1>1, SearchingIsUp DEF CastInv, QuietBefore, ConfigInUse, Up
<1>5. SearchForConfig'
  BY <1>1 DEF CastInv, TypeOK, SearchForConfig, InFlight, LATE
<1>6. OwnAddresses' /\ CacheFollowsConfig' /\ RightHost' /\ RightDevice'
  BY <1>1 DEF CastInv, OwnAddresses, CacheFollowsConfig, RightHost, RightDevice, OfConfigured
<1>. QED
  BY <1>3, <1>4, <1>5, <1>6 DEF CastInv

LEMMA SearchGivesUpKeeps ==
  ASSUME CastInv, NEW t \in Tasks, SearchGivesUp(t)
  PROVE  CastInv'
<1>. USE ConstantsAssumption
<1>1. /\ search[t] > 0 /\ GoesOn(t, NoAddr)
      /\ UNCHANGED <<cfg, cache, name, timer, network, torn, moved>>
      /\ search' = [search EXCEPT ![t] = 0]
  BY DEF SearchGivesUp
<1>2. power \in {"resolving", "running"}
  BY <1>1, SearchingIsUp
<1>3. CacheFollowsConfig' /\ cache' \in Addrs \cup {NoAddr}
  BY <1>1 DEF CastInv, TypeOK, CacheFollowsConfig, network
<1>4. search' \in [Tasks -> 0 .. LATE] /\ \A u \in Tasks : search'[u] \in {0, search[u]}
  BY <1>1 DEF CastInv, TypeOK, LATE
<1>. QED
  BY <1>1, <1>2, <1>3, <1>4, GoesOnKeeps

-----------------------------------------------------------------------------
(* What is in flash agrees with itself; memory is lost. *)
LEMMA GoDownKeeps ==
  ASSUME CastInv, GoDown, UNCHANGED <<network, moved>>, cfg' \in Names \cup {NoName},
         cache' \in Addrs \cup {NoAddr}, torn' \in BOOLEAN, CacheFollowsConfig'
  PROVE  CastInv'
<1>. USE ConstantsAssumption
<1>1. \A t \in Tasks : search'[t] = 0
  BY DEF GoDown
<1>2. TypeOK'
  <2>1. search' \in [Tasks -> 0 .. LATE]
    BY DEF GoDown, LATE
  <2>. QED
    BY <2>1 DEF CastInv, GoDown, TypeOK, network
<1>3. QuietBefore' /\ ConfigInUse' /\ SearchForConfig' /\ OwnAddresses'
  BY <1>1 DEF CastInv, GoDown, QuietBefore, ConfigInUse, SearchForConfig, OwnAddresses, Up,
              InFlight, network
<1>4. RightHost' /\ RightDevice'
  BY DEF GoDown, RightHost, RightDevice
<1>. QED
  BY <1>2, <1>3, <1>4 DEF CastInv

LEMMA BootKeeps == CastInv /\ Boot => CastInv'
<1>. SUFFICES ASSUME CastInv, Boot PROVE CastInv'
  OBVIOUS
<1>1. /\ power = "off" /\ UNCHANGED <<cfg, cache, host, loop, search, timer, addrOf, on, played, torn, moved>>
      /\ \/ cfg = NoName /\ power' = "portal" /\ UNCHANGED name
         \/ cfg # NoName /\ power' = "starting" /\ name' = cfg
  BY DEF Boot, flash, network, history
<1>2. host = NoAddr /\ played = NoName /\ ~timer
  BY <1>1 DEF CastInv, QuietBefore
<1>3. TypeOK'
  BY <1>1 DEF CastInv, TypeOK
<1>4. QuietBefore' /\ ConfigInUse' /\ OwnAddresses' /\ SearchForConfig'
  BY <1>1 DEF CastInv, QuietBefore, ConfigInUse, OwnAddresses, SearchForConfig, InFlight, Up
<1>5. CacheFollowsConfig' /\ RightHost' /\ RightDevice'
  BY <1>1, <1>2 DEF CastInv, CacheFollowsConfig, RightHost, RightDevice
<1>. QED
  BY <1>3, <1>4, <1>5 DEF CastInv

LEMMA BootselResetKeeps == CastInv /\ (BootselReset \/ BootselResetCut) => CastInv'
<1>. SUFFICES ASSUME CastInv, BootselReset \/ BootselResetCut PROVE CastInv'
  OBVIOUS
<1>1. /\ power = "off" /\ power' \in {"off", "portal"}
      /\ cfg' \in {cfg, NoName} /\ cache' \in {cache, NoAddr}
      /\ torn' \in BOOLEAN /\ (cache' # NoAddr => torn')
      /\ UNCHANGED <<name, host, loop, search, timer, addrOf, on, played, moved>>
  BY DEF BootselReset, BootselResetCut, Removed, memory, network, CastInv, TypeOK
<1>2. host = NoAddr /\ played = NoName /\ \A t \in Tasks : search[t] = 0
  BY <1>1 DEF CastInv, QuietBefore
<1>3. TypeOK'
  BY <1>1 DEF CastInv, TypeOK
<1>4. QuietBefore' /\ ConfigInUse' /\ OwnAddresses' /\ SearchForConfig'
  BY <1>1, <1>2 DEF CastInv, QuietBefore, ConfigInUse, OwnAddresses, SearchForConfig, InFlight, Up
<1>5. CacheFollowsConfig' /\ RightHost' /\ RightDevice'
  BY <1>1, <1>2 DEF CacheFollowsConfig, RightHost, RightDevice
<1>. QED
  BY <1>3, <1>4, <1>5 DEF CastInv

LEMMA ResolveKeeps ==
  ASSUME CastInv, NEW t \in Tasks, Resolve(t),
         (t = "main" /\ Up) \/ power \in {"resolving", "running"}
  PROVE  CastInv'
BY CacheHitKeeps, StartSearchKeeps DEF Resolve

LEMMA LoopWakesKeeps == CastInv /\ LoopWakes => CastInv'
<1>. SUFFICES ASSUME CastInv, LoopWakes PROVE CastInv'
  OBVIOUS
<1>1. power \in {"resolving", "running"}
  BY DEF CastInv, TypeOK, QuietBefore, LoopWakes
<1>2. CASE Resolve("loop")
  BY <1>1, <1>2, ResolveKeeps DEF Tasks
<1>3. CASE /\ loop' = "retired"
           /\ UNCHANGED <<power, flash, name, host, search, timer, network, history>>
  <2>1. TypeOK'
    BY <1>3 DEF CastInv, TypeOK, flash, network, history
  <2>2. QuietBefore' /\ ConfigInUse' /\ OwnAddresses' /\ SearchForConfig'
    BY <1>1, <1>3 DEF CastInv, QuietBefore, ConfigInUse, OwnAddresses, SearchForConfig,
                      InFlight, Up, flash, network, history
  <2>3. CacheFollowsConfig' /\ RightHost' /\ RightDevice'
    BY <1>3 DEF CastInv, CacheFollowsConfig, RightHost, RightDevice, OfConfigured, flash, network, history
  <2>. QED
    BY <2>1, <2>2, <2>3 DEF CastInv
<1>. QED
  BY <1>2, <1>3 DEF LoopWakes

LEMMA StartCastKeeps ==
  ASSUME CastInv, NEW c \in Casts, StartCast(c)
  PROVE  CastInv'
<1>1. power \in {"resolving", "running"}
  BY DEF StartCast, Serving
<1>2. CASE Resolve(c)
  BY <1>1, <1>2, ResolveKeeps DEF Tasks
<1>3. CASE /\ host # NoAddr /\ Play(host)
           /\ UNCHANGED <<power, cfg, cache, name, host, loop, search, timer, network, torn, moved>>
  <2>1. /\ played' \in Names \cup {NoName}
        /\ ~torn /\ ~moved => played' \in {NoName, name, cfg}
    <3>1. host \in Addrs /\ (~torn /\ ~moved => OfConfigured(host))
      BY <1>3 DEF CastInv, TypeOK, RightHost
    <3>. QED
      BY <1>3, <3>1, PlayRight
  <2>2. TypeOK'
    BY <1>3, <2>1 DEF CastInv, TypeOK, network
  <2>3. QuietBefore' /\ ConfigInUse' /\ OwnAddresses' /\ SearchForConfig'
    BY <1>1, <1>3, <2>1 DEF CastInv, QuietBefore, ConfigInUse, OwnAddresses,
                            SearchForConfig, InFlight, Up, network
  <2>4. CacheFollowsConfig' /\ RightHost' /\ RightDevice'
    BY <1>3, <2>1 DEF CastInv, CacheFollowsConfig, RightHost, RightDevice, OfConfigured, network
  <2>. QED
    BY <2>2, <2>3, <2>4 DEF CastInv
<1>. QED
  BY <1>2, <1>3 DEF StartCast

(* The handlers that save or erase: either they mark the history as torn, or
   no query is under way and the configuration of this boot is in use. *)
LEMMA WritingKeeps ==
  ASSUME CastInv, Serving, cfg' \in Names \cup {NoName},
         timer' \in BOOLEAN, torn' \in BOOLEAN,
         torn \/ InFlight \/ timer => torn', torn' \/ timer',
         UNCHANGED <<power, memory, network, played, moved>>,
         cache' \in Addrs \cup {NoAddr},
         CacheFollowsConfig'
  PROVE  CastInv'
<1>1. UNCHANGED <<name, host, loop, search, addrOf, on>>
  BY DEF memory, network
<1>2. TypeOK'
  BY <1>1 DEF CastInv, TypeOK
<1>3. QuietBefore' /\ ConfigInUse' /\ OwnAddresses'
  BY <1>1 DEF CastInv, Serving, QuietBefore, ConfigInUse, OwnAddresses, Up
<1>4. SearchForConfig'
  BY <1>1 DEF CastInv, SearchForConfig, InFlight
<1>5. ~torn' => name = cfg
  BY DEF CastInv, ConfigInUse, Serving, Up
<1>6. RightHost' /\ RightDevice'
  BY <1>1, <1>5 DEF CastInv, RightHost, RightDevice, OfConfigured
<1>. QED
  BY <1>2, <1>3, <1>4, <1>6 DEF CastInv

LEMMA CacheSavedRight ==
  ASSUME CastInv, NEW n \in Names, NEW picked \in BOOLEAN
  PROVE  /\ CacheSaved(n, picked) \in Addrs \cup {NoAddr}
         /\ ~torn /\ ~moved /\ CacheSaved(n, picked) # NoAddr =>
              /\ CacheSaved(n, picked) = addrOf[n]
              /\ ~picked => n = cfg
BY DEF CastInv, TypeOK, CacheSaved, CacheFollowsConfig

LEMMA SaveSettingsKeeps ==
  ASSUME CastInv, NEW n \in Names, SaveSettings(n)
  PROVE  CastInv'
<1>1. PICK picked \in BOOLEAN : cache' = CacheSaved(n, picked)
  BY DEF SaveSettings
<1>2. /\ Serving /\ cfg' = n /\ timer' = TRUE
      /\ torn' = (torn \/ InFlight \/ timer)
      /\ UNCHANGED <<power, memory, network, played, moved>>
  BY DEF SaveSettings
<1>3. CacheFollowsConfig' /\ cache' \in Addrs \cup {NoAddr}
  BY <1>1, <1>2, CacheSavedRight, ConstantsAssumption DEF CacheFollowsConfig, network
<1>4. torn' \in BOOLEAN
  BY <1>2 DEF CastInv, TypeOK
<1>. QED
  BY <1>2, <1>3, <1>4, WritingKeeps

LEMMA SaveSettingsRefusedKeeps ==
  ASSUME CastInv, NEW n \in Names, SaveSettingsRefused(n)
  PROVE  CastInv'
<1>1. cache' \in Addrs \cup {NoAddr}
  <2>1. PICK picked \in BOOLEAN : cache' \in {cache, NoAddr, CacheSaved(n, picked)}
    BY DEF SaveSettingsRefused
  <2>. QED
    BY <2>1, CacheSavedRight DEF CastInv, TypeOK
<1>2. /\ Serving /\ cfg' \in Names \cup {NoName} /\ timer' \in BOOLEAN /\ torn' = TRUE
      /\ UNCHANGED <<power, memory, network, played, moved>>
  BY DEF SaveSettingsRefused, CastInv, TypeOK
<1>3. CacheFollowsConfig'
  BY <1>2 DEF CacheFollowsConfig
<1>. QED
  BY <1>1, <1>2, <1>3, WritingKeeps

LEMMA SaveSettingsCutKeeps ==
  ASSUME CastInv, NEW n \in Names, SaveSettingsCut(n)
  PROVE  CastInv'
<1>1. PICK picked \in BOOLEAN : /\ cache' \in {CacheSaved(n, picked), CacheSaved(n, FALSE)}
                               /\ torn' = (torn \/ (picked /\ n # cfg))
  BY DEF SaveSettingsCut
<1>2. cfg # NoName /\ GoDown /\ UNCHANGED <<cfg, network, moved>>
  BY DEF SaveSettingsCut
<1>3. CacheFollowsConfig' /\ cache' \in Addrs \cup {NoAddr}
  BY <1>1, <1>2, CacheSavedRight DEF CacheFollowsConfig, network
<1>4. torn' \in BOOLEAN /\ cfg' \in Names \cup {NoName}
  BY <1>1, <1>2 DEF CastInv, TypeOK
<1>. QED
  BY <1>2, <1>3, <1>4, GoDownKeeps

LEMMA FactoryResetKeeps == CastInv /\ FactoryReset => CastInv'
<1>. SUFFICES ASSUME CastInv, FactoryReset PROVE CastInv'
  OBVIOUS
<1>1. /\ Serving /\ timer' = TRUE
      /\ UNCHANGED <<power, memory, network, played, moved>>
      /\ torn' = (torn \/ InFlight \/ timer \/ cache' # NoAddr)
      /\ cfg' \in {cfg, NoName} /\ cache' \in {cache, NoAddr}
  BY DEF FactoryReset, Removed
<1>2. CacheFollowsConfig' /\ cache' \in Addrs \cup {NoAddr} /\ cfg' \in Names \cup {NoName}
  BY <1>1 DEF CastInv, TypeOK, CacheFollowsConfig
<1>3. torn' \in BOOLEAN
  BY <1>1 DEF CastInv, TypeOK
<1>. QED
  BY <1>1, <1>2, <1>3, WritingKeeps

LEMMA FactoryResetCutKeeps == CastInv /\ FactoryResetCut => CastInv'
<1>. SUFFICES ASSUME CastInv, FactoryResetCut PROVE CastInv'
  OBVIOUS
<1>1. /\ GoDown /\ cfg' = NoName /\ torn' = (torn \/ cache # NoAddr)
      /\ UNCHANGED <<cache, network, moved>>
  BY DEF FactoryResetCut
<1>2. CacheFollowsConfig' /\ cache' \in Addrs \cup {NoAddr} /\ torn' \in BOOLEAN
  BY <1>1 DEF CastInv, TypeOK, CacheFollowsConfig
<1>. QED
  BY <1>1, <1>2, GoDownKeeps

LEMMA PortalSavesKeeps ==
  ASSUME CastInv, NEW n \in Names, PortalSaves(n)
  PROVE  CastInv'
<1>. USE ConstantsAssumption
<1>1. /\ power = "portal" /\ cfg' \in {n, cfg, NoName} /\ timer' \in {timer, TRUE}
      /\ torn' = (torn \/ cache # NoAddr)
      /\ UNCHANGED <<power, cache, name, host, loop, search, addrOf, on, played, moved>>
  BY DEF PortalSaves, memory, network
<1>2. host = NoAddr /\ played = NoName /\ \A t \in Tasks : search[t] = 0
  BY <1>1 DEF CastInv, QuietBefore
<1>3. TypeOK'
  BY <1>1 DEF CastInv, TypeOK
<1>4. QuietBefore' /\ ConfigInUse' /\ OwnAddresses' /\ SearchForConfig'
  BY <1>1, <1>2 DEF CastInv, QuietBefore, ConfigInUse, OwnAddresses, SearchForConfig, InFlight, Up
<1>5. CacheFollowsConfig' /\ RightHost' /\ RightDevice'
  BY <1>1, <1>2 DEF CacheFollowsConfig, RightHost, RightDevice
<1>. QED
  BY <1>3, <1>4, <1>5 DEF CastInv

LEMMA ResetKeeps == CastInv /\ (TimerFires \/ PowerLoss) => CastInv'
<1>. SUFFICES ASSUME CastInv, TimerFires \/ PowerLoss PROVE CastInv'
  OBVIOUS
<1>1. GoDown /\ UNCHANGED <<cfg, cache, network, torn, moved>>
  BY DEF TimerFires, PowerLoss, flash
<1>2. CacheFollowsConfig'
  BY <1>1 DEF CastInv, CacheFollowsConfig, network
<1>. QED
  BY <1>1, <1>2, GoDownKeeps DEF CastInv, TypeOK

LEMMA NetworkKeeps ==
  ASSUME CastInv, NEW n \in Names, Switch(n) \/ Move(n)
  PROVE  CastInv'
<1>. USE ConstantsAssumption
<1>1. UNCHANGED <<power, cfg, cache, name, host, loop, search, timer, played, torn>>
  BY DEF Switch, Move, flash, memory, history
<1>2. \/ addrOf' = addrOf /\ moved' = moved
      \/ moved' = TRUE
  BY DEF Switch, Move, history
<1>3. addrOf' \in [Names -> Addrs] /\ on' \subseteq Names /\ moved' \in BOOLEAN
  BY DEF CastInv, TypeOK, Switch, Move, history
<1>4. TypeOK'
  BY <1>1, <1>3 DEF CastInv, TypeOK
<1>5. QuietBefore' /\ ConfigInUse' /\ SearchForConfig'
  BY <1>1 DEF CastInv, QuietBefore, ConfigInUse, SearchForConfig, InFlight, Up
<1>6. OwnAddresses' /\ CacheFollowsConfig' /\ RightHost' /\ RightDevice'
  BY <1>1, <1>2 DEF CastInv, OwnAddresses, CacheFollowsConfig, RightHost, RightDevice, OfConfigured
<1>. QED
  BY <1>4, <1>5, <1>6 DEF CastInv

LEMMA StutterKeeps == CastInv /\ UNCHANGED vars => CastInv'
<1>. SUFFICES ASSUME CastInv, UNCHANGED vars PROVE CastInv'
  OBVIOUS
<1>1. UNCHANGED <<power, cfg, cache, name, host, loop, search, timer, addrOf, on, played, torn, moved>>
  BY DEF vars, flash, memory, network, history
<1>2. TypeOK' /\ QuietBefore' /\ ConfigInUse' /\ SearchForConfig'
  BY <1>1 DEF CastInv, TypeOK, QuietBefore, ConfigInUse, SearchForConfig, InFlight, Up
<1>3. OwnAddresses' /\ CacheFollowsConfig' /\ RightHost' /\ RightDevice'
  BY <1>1 DEF CastInv, OwnAddresses, CacheFollowsConfig, RightHost, RightDevice, OfConfigured
<1>. QED
  BY <1>2, <1>3 DEF CastInv

LEMMA NextKeeps == CastInv /\ [Next]_vars => CastInv'
<1>. SUFFICES ASSUME CastInv, [Next]_vars PROVE CastInv'
  OBVIOUS
<1>1. CASE MainResolves
  BY <1>1, ResolveKeeps DEF MainResolves, Tasks, Up
<1>2. CASE \E t \in Tasks : SearchStep(t)
  BY <1>2, SearchFindsKeeps, SearchMissesKeeps, SearchGivesUpKeeps DEF SearchStep
<1>3. CASE \E c \in Casts : StartCast(c)
  BY <1>3, StartCastKeeps
<1>4. CASE \E n \in Names : PortalSaves(n) \/ SaveSettings(n) \/ SaveSettingsRefused(n) \/ SaveSettingsCut(n)
  BY <1>4, PortalSavesKeeps, SaveSettingsKeeps, SaveSettingsRefusedKeeps, SaveSettingsCutKeeps
<1>5. CASE \E n \in Names : Switch(n) \/ Move(n)
  BY <1>5, NetworkKeeps
<1>. QED
  BY <1>1, <1>2, <1>3, <1>4, <1>5, BootKeeps, BootselResetKeeps, LoopWakesKeeps, FactoryResetKeeps,
     FactoryResetCutKeeps, ResetKeeps, StutterKeeps DEF Next

(* The invariant behind the theorems that follow. *)
THEOREM CastInvariant == Spec => []CastInv
BY InitCastInv, NextKeeps, PTL DEF Spec

(* Every variable keeps its type (TypeOK). *)
THEOREM CastTypes == Spec => []TypeOK
BY CastInvariant, PTL DEF CastInv

(* What plays is the configured device; settings saved or erased under a search
   or in part, and devices that change addresses, aside (main.py:276-306,
   discovery.py:167-196). *)
THEOREM RightDevicePlays == Spec => []RightDevice
BY CastInvariant, PTL DEF CastInv

(* With the same exceptions the cached address is the configured device's,
   whatever power losses, resets and refused writes come between
   (discovery.py:142-196, status.py:162-179). *)
THEOREM CacheIsConfigs == Spec => []CacheFollowsConfig
BY CastInvariant, PTL DEF CastInv

(* Only the captive portal ends a factory reset (status.py:129-131, 244-256). *)
THEOREM ErasureIsFinal == Spec => ErasedStaysErased
<1>1. [Next]_vars => [cfg = NoName /\ cfg' # NoName => power = "portal"]_vars
  <2>. SUFFICES ASSUME Next, cfg = NoName, cfg' # NoName PROVE power = "portal"
    OBVIOUS
  <2>. USE DEF flash
  <2>1. CASE \E n \in Names : PortalSaves(n) \/ SaveSettings(n) \/ SaveSettingsRefused(n) \/ SaveSettingsCut(n)
    BY <2>1 DEF PortalSaves, SaveSettings, SaveSettingsRefused, SaveSettingsCut
  <2>2. CASE MainResolves \/ LoopWakes \/ \E c \in Casts : StartCast(c)
    BY <2>2 DEF MainResolves, LoopWakes, StartCast, Resolve, CacheHit, StartSearch
  <2>3. CASE \E t \in Tasks : SearchStep(t)
    BY <2>3 DEF SearchStep, SearchFinds, SearchMisses, SearchGivesUp
  <2>. QED
    BY <2>1, <2>2, <2>3
       DEF Next, Boot, BootselReset, BootselResetCut, FactoryReset, FactoryResetCut, Removed, TimerFires, PowerLoss, Switch, Move
<1>. QED
  BY <1>1, PTL DEF Spec, ErasedStaysErased
=============================================================================
