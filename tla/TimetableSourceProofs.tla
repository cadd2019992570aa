------------------------ MODULE TimetableSourceProofs ------------------------
(* The timetable is the configured place's, for any places and whatever the  *)
(* geocoder and the prayer service know.                                     *)
EXTENDS TimetableSource, TLAPS

(* What boot reads stays in memory, but for coordinates the geocoder gave. *)
MemKept ==
  /\ mem.addr = booted.addr
  /\ ~geocoded => mem = booted
  /\ geocoded => booted.coords = Nowhere /\ mem.addr # Nowhere /\ mem.coords = mem.addr
  /\ pc \in {"off", "locating", "discovering"} => ~geocoded

(* Why the place shown is the one to fetch for, at each point of the code. *)
PlaceChosen ==
  /\ pc \in {"off", "locating", "discovering", "trying", "falling back"} => times = NoTimes
  /\ pc \notin {"off", "locating"} => geo # Nowhere
  /\ pc \in {"trying", "falling back"} => mem.coords = Nowhere
  /\ pc = "trying" => mem.addr # Nowhere
  /\ pc = "fetching" => \/ mem.coords # Nowhere
                        \/ mem.addr # Nowhere /\ shown.coords = Nowhere
                        \/ mem = Blank /\ shown.coords = geo

(* From its resolution on, what the settings page shows keeps what is in use. *)
ShownKeeps ==
  pc \in {"trying", "falling back", "fetching", "running"} =>
    shown.addr = mem.addr /\ (mem.coords # Nowhere => shown.coords = mem.coords)

(* Without configured coordinates it has none but those of the fallback. *)
TunedKeeps ==
  pc = "trying" \/ (pc = "running" /\ times.tuned) =>
    (mem.coords = Nowhere /\ mem.addr # Nowhere => shown.coords = Nowhere)

(* So does a page opened then, of the configuration that boot read. *)
PageKeeps ==
  page.late /\ page.tuned =>
    page.form.addr = page.of.addr /\ (Place(page.form) = Place(page.of) \/ page.of = Blank)

SourceInv ==
  /\ TypeOK
  /\ MemKept
  /\ PlaceChosen
  /\ ShownKeeps
  /\ TunedKeeps
  /\ PageKeeps
  /\ RightPlace
-----------------------------------------------------------------------------
LEMMA MaybePlaces == Nowhere \in Maybe /\ Blank \in Locations /\ Places \subseteq Maybe
BY DEF Maybe, Locations, Blank

LEMMA InitSourceInv == Init => SourceInv
<1>. SUFFICES ASSUME Init PROVE SourceInv
  OBVIOUS
<1>1. TypeOK
  <2>1. page \in [form : Locations, late : BOOLEAN, tuned : BOOLEAN, of : Locations]
    BY MaybePlaces DEF Init, NoPage
  <2>2. times \in [place : Maybe, tuned : BOOLEAN]
    BY MaybePlaces DEF Init, NoTimes
  <2>. QED
    BY <2>1, <2>2, MaybePlaces DEF Init, TypeOK
<1>2. MemKept /\ PlaceChosen /\ ShownKeeps /\ TunedKeeps /\ PageKeeps /\ RightPlace
  BY DEF Init, MemKept, PlaceChosen, ShownKeeps, TunedKeeps, PageKeeps, RightPlace, NoPage
<1>. QED
  BY <1>1, <1>2 DEF SourceInv

(* A reset forgets all but the page in the browser and what is in flash. *)
LEMMA GoDownKeeps ==
  ASSUME SourceInv, GoDown, UNCHANGED <<browser>>, cfg' \in Locations, chosen' \in BOOLEAN
  PROVE  SourceInv'
BY MaybePlaces
   DEF SourceInv, GoDown, browser, TypeOK, MemKept, PlaceChosen, ShownKeeps, TunedKeeps, PageKeeps, RightPlace,
       NoTimes, Blank

LEMMA BootKeeps == SourceInv /\ Boot => SourceInv'
BY MaybePlaces
   DEF SourceInv, Boot, browser, TypeOK, MemKept, PlaceChosen, ShownKeeps, TunedKeeps, PageKeeps, RightPlace

LEMMA LocateKeeps == SourceInv /\ Locate => SourceInv'
BY MaybePlaces, PlacesAssumption
   DEF SourceInv, Locate, browser, history, TypeOK, MemKept, PlaceChosen, ShownKeeps, TunedKeeps, PageKeeps, RightPlace

LEMMA ResolveLocationKeeps == SourceInv /\ ResolveLocation => SourceInv'
<1>. SUFFICES ASSUME SourceInv, ResolveLocation PROVE SourceInv'
  OBVIOUS
<1>. USE MaybePlaces, PlacesAssumption
<1>1. /\ pc = "discovering" /\ times = NoTimes /\ times' = NoTimes /\ geo # Nowhere
      /\ geo' = geo /\ geo \in Maybe /\ mem = booted /\ booted' = booted /\ ~geocoded
      /\ mem \in Locations
  BY DEF SourceInv, ResolveLocation, PlaceChosen, MemKept, TypeOK
<1>2. /\ mem' \in Locations /\ shown' \in Locations /\ geocoded' \in BOOLEAN
      /\ pc' \in {"fetching", "trying"}
  <2>1. geocoded \in BOOLEAN
    BY DEF SourceInv, TypeOK
  <2>2. CASE UseConfigured
    BY <1>1, <2>1, <2>2 DEF UseConfigured
  <2>3. CASE UseGeocoded
    BY <1>1, <2>1, <2>3 DEF UseGeocoded, Locations
  <2>4. CASE UseAddress
    BY <1>1, <2>1, <2>4 DEF UseAddress
  <2>5. CASE UseGeolocation
    BY <1>1, <2>1, <2>5 DEF UseGeolocation, Locations
  <2>. QED
    BY <2>2, <2>3, <2>4, <2>5 DEF ResolveLocation
<1>3. TypeOK'
  BY <1>1, <1>2 DEF SourceInv, ResolveLocation, TypeOK, browser
<1>4. MemKept'
  BY <1>1, <1>2 DEF ResolveLocation, UseConfigured, UseGeocoded, UseAddress, UseGeolocation, MemKept, Locations
<1>5. PlaceChosen' /\ ShownKeeps'
  <2>1. CASE UseConfigured
    BY <1>1, <2>1 DEF UseConfigured, PlaceChosen, ShownKeeps
  <2>2. CASE UseGeocoded
    BY <1>1, <2>2 DEF UseGeocoded, PlaceChosen, ShownKeeps, Locations
  <2>3. CASE UseAddress
    BY <1>1, <2>3 DEF UseAddress, PlaceChosen, ShownKeeps
  <2>4. CASE UseGeolocation
    BY <1>1, <2>4 DEF UseGeolocation, PlaceChosen, ShownKeeps, Locations, Blank
  <2>. QED
    BY <2>1, <2>2, <2>3, <2>4 DEF ResolveLocation
<1>6. TunedKeeps'
  <2>1. pc' = "trying" => UseAddress
    BY DEF ResolveLocation, UseConfigured, UseGeocoded, UseGeolocation
  <2>. QED
    BY <1>2, <2>1 DEF UseAddress, TunedKeeps
<1>7. PageKeeps' /\ RightPlace'
  BY <1>1 DEF SourceInv, ResolveLocation, browser, PageKeeps, RightPlace
<1>. QED
  BY <1>3, <1>4, <1>5, <1>7, <1>6 DEF SourceInv

LEMMA TryAddressKeeps == SourceInv /\ TryAddress => SourceInv'
<1>. SUFFICES ASSUME SourceInv, TryAddress PROVE SourceInv'
  OBVIOUS
<1>. USE MaybePlaces, PlacesAssumption
<1>0. \/ mem.addr \in ServiceKnows /\ times' = [place |-> mem.addr, tuned |-> TRUE] /\ pc' = "running"
      \/ times' = times /\ pc' = "falling back"
  BY DEF TryAddress
<1>1. TypeOK'
  <2>1. TypeOK
    BY DEF SourceInv
  <2>2. shown' \in Locations
    BY <2>1 DEF TryAddress, TypeOK, Locations
  <2>3. /\ pc' \in {"running", "falling back"}
        /\ UNCHANGED <<cfg, mem, geo, timer, page, here, booted, geocoded, chosen>>
    BY DEF TryAddress, browser, history
  <2>4. CASE mem.addr \in ServiceKnows /\ times' = [place |-> mem.addr, tuned |-> TRUE]
    <3>1. mem.addr \in Places /\ mem.addr \in Maybe
      BY <2>4
    <3>. QED
      BY <2>1, <2>2, <2>3, <2>4, <3>1 DEF TypeOK
  <2>5. CASE times' = times /\ pc' = "falling back"
    BY <2>1, <2>2, <2>3, <2>5 DEF TypeOK
  <2>. QED
    BY <1>0, <2>4, <2>5
<1>2. MemKept' /\ PageKeeps'
  BY DEF SourceInv, TryAddress, MemKept, PageKeeps, browser, history
<1>3. TunedKeeps'
  <2>1. CASE times' = [place |-> mem.addr, tuned |-> TRUE] /\ pc' = "running"
    <3>1. shown' = shown /\ mem' = mem /\ pc = "trying"
      BY <2>1 DEF TryAddress
    <3>. QED
      BY <3>1 DEF SourceInv, TunedKeeps
  <2>2. CASE pc' = "falling back"
    BY <2>2 DEF TunedKeeps
  <2>. QED
    BY <1>0, <2>1, <2>2
<1>4. PlaceChosen' /\ ShownKeeps'
  BY DEF SourceInv, TryAddress, PlaceChosen, ShownKeeps, MemKept, TypeOK, Locations, history
<1>5. RightPlace'
  <2>1. booted.coords = Nowhere /\ mem.addr = booted.addr /\ times = NoTimes
    BY DEF SourceInv, TryAddress, PlaceChosen, MemKept
  <2>2. booted' = booted
    BY DEF TryAddress, history
  <2>3. CASE times' = [place |-> mem.addr, tuned |-> TRUE]
    BY <2>1, <2>2, <2>3 DEF RightPlace
  <2>4. CASE times' = times
    BY <2>1, <2>4 DEF RightPlace, NoTimes
  <2>. QED
    BY <1>0, <2>3, <2>4
<1>. QED
  BY <1>1, <1>2, <1>4, <1>5, <1>3 DEF SourceInv

LEMMA FallBackKeeps == SourceInv /\ FallBack => SourceInv'
<1>. SUFFICES ASSUME SourceInv, FallBack PROVE SourceInv'
  OBVIOUS
<1>. USE MaybePlaces
<1>1. TypeOK'
  BY DEF SourceInv, FallBack, TypeOK, PlaceChosen, Maybe, browser, history
<1>2. MemKept' /\ PageKeeps' /\ PlaceChosen' /\ ShownKeeps' /\ TunedKeeps'
  BY DEF SourceInv, FallBack, MemKept, PageKeeps, PlaceChosen, ShownKeeps, TunedKeeps, browser, history
<1>3. RightPlace'
  BY DEF SourceInv, FallBack, PlaceChosen, RightPlace, MemKept, history
<1>. QED
  BY <1>1, <1>2, <1>3 DEF SourceInv

LEMMA FetchKeeps == SourceInv /\ Fetch => SourceInv'
<1>. SUFFICES ASSUME SourceInv, Fetch PROVE SourceInv'
  OBVIOUS
<1>. USE MaybePlaces, PlacesAssumption
<1>1. TypeOK'
  <2>1. TypeOK
    BY DEF SourceInv
  <2>2. times'.place \in Places /\ times' \in [place : Maybe, tuned : BOOLEAN]
    <3>1. PICK p \in Places : times' = [place |-> p, tuned |-> TRUE]
      <4>1. shown.coords \in Maybe
        BY <2>1 DEF TypeOK, Locations
      <4>. QED
        BY <4>1 DEF Fetch, Maybe
    <3>. QED
      BY <3>1
  <2>3. pc' = "running" /\ UNCHANGED <<cfg, mem, geo, shown, timer, page, here, booted, geocoded, chosen>>
    BY DEF Fetch, browser, history
  <2>. QED
    BY <2>1, <2>2, <2>3 DEF TypeOK
<1>2. TunedKeeps'
  <2>1. pc = "fetching" /\ mem' = mem /\ shown' = shown
    BY DEF Fetch
  <2>2. mem.coords = Nowhere /\ mem.addr # Nowhere => shown.coords = Nowhere
    BY <2>1 DEF SourceInv, PlaceChosen, Blank
  <2>. QED
    BY <2>1, <2>2 DEF TunedKeeps
<1>3. MemKept' /\ PageKeeps' /\ PlaceChosen' /\ ShownKeeps'
  BY DEF SourceInv, Fetch, MemKept, PageKeeps, PlaceChosen, ShownKeeps, browser, history
<1>4. RightPlace'
  BY DEF SourceInv, Fetch, PlaceChosen, RightPlace, ShownKeeps, MemKept, Blank, history
<1>. QED
  BY <1>1, <1>3, <1>4, <1>2 DEF SourceInv

LEMMA MidnightKeeps == SourceInv /\ Midnight => SourceInv'
<1>. SUFFICES ASSUME SourceInv, Midnight PROVE SourceInv'
  OBVIOUS
<1>. USE MaybePlaces, PlacesAssumption
<1>1. TypeOK'
  BY DEF SourceInv, Midnight, TypeOK, Locations, Maybe, browser, history
<1>2. MemKept' /\ PageKeeps'
  BY DEF SourceInv, Midnight, MemKept, PageKeeps, browser, history
<1>3. TunedKeeps'
  BY DEF Midnight, TunedKeeps
<1>4. PlaceChosen' /\ ShownKeeps'
  BY DEF SourceInv, Midnight, PlaceChosen, ShownKeeps, TypeOK, Locations, Maybe, Blank, history
<1>5. RightPlace'
  BY DEF SourceInv, Midnight, RightPlace, history
<1>. QED
  BY <1>1, <1>2, <1>4, <1>5, <1>3 DEF SourceInv

LEMMA OpenSettingsKeeps == SourceInv /\ OpenSettings => SourceInv'
<1>. SUFFICES ASSUME SourceInv, OpenSettings PROVE SourceInv'
  OBVIOUS
<1>1. TypeOK'
  BY DEF SourceInv, OpenSettings, TypeOK, history
<1>2. MemKept' /\ PlaceChosen' /\ ShownKeeps' /\ TunedKeeps' /\ RightPlace'
  BY DEF SourceInv, OpenSettings, MemKept, PlaceChosen, ShownKeeps, TunedKeeps, RightPlace, history
<1>3. PageKeeps'
  <2>. SUFFICES ASSUME page'.late, page'.tuned
                PROVE  page'.form.addr = page'.of.addr /\ (Place(page'.form) = Place(page'.of) \/ page'.of = Blank)
    BY DEF PageKeeps
  <2>1. /\ page'.form = shown /\ page'.of = booted /\ pc = "running" /\ times.tuned
    BY DEF OpenSettings
  <2>2. shown.addr = mem.addr /\ mem.addr = booted.addr /\ (mem.coords # Nowhere => shown.coords = mem.coords)
    BY <2>1 DEF SourceInv, ShownKeeps, MemKept
  <2>3. Place(shown) = Place(mem) \/ (mem.coords = Nowhere /\ mem.addr = Nowhere)
    BY <2>1, <2>2 DEF SourceInv, TunedKeeps, Place
  <2>4. Place(mem) = Place(booted)
    BY <2>2 DEF SourceInv, MemKept, Place
  <2>5. mem.coords = Nowhere /\ mem.addr = Nowhere => booted = Blank
    BY <2>2 DEF SourceInv, MemKept, TypeOK, Locations, Blank
  <2>. QED
    BY <2>1, <2>2, <2>3, <2>4, <2>5
<1>. QED
  BY <1>1, <1>2, <1>3 DEF SourceInv

(* The handlers that write the configuration leave all else alone. *)
LEMMA WritingKeeps ==
  ASSUME SourceInv, cfg' \in Locations, timer' = TRUE, chosen' \in BOOLEAN,
         UNCHANGED <<pc, mem, geo, shown, times, browser, booted, geocoded>>
  PROVE  SourceInv'
<1>1. TypeOK'
  BY DEF SourceInv, TypeOK, browser
<1>2. MemKept' /\ PlaceChosen' /\ ShownKeeps' /\ TunedKeeps' /\ PageKeeps' /\ RightPlace'
  BY DEF SourceInv, MemKept, PlaceChosen, ShownKeeps, TunedKeeps, PageKeeps, RightPlace, browser
<1>. QED
  BY <1>1, <1>2 DEF SourceInv

LEMMA MoveKeeps == SourceInv /\ Move => SourceInv'
<1>. SUFFICES ASSUME SourceInv, Move PROVE SourceInv'
  OBVIOUS
<1>1. TypeOK'
  BY DEF SourceInv, Move, TypeOK, history
<1>2. MemKept' /\ PlaceChosen' /\ ShownKeeps' /\ TunedKeeps' /\ PageKeeps' /\ RightPlace'
  BY DEF SourceInv, Move, MemKept, PlaceChosen, ShownKeeps, TunedKeeps, PageKeeps, RightPlace, history
<1>. QED
  BY <1>1, <1>2 DEF SourceInv

LEMMA StutterKeeps == SourceInv /\ UNCHANGED vars => SourceInv'
<1>. SUFFICES ASSUME SourceInv, UNCHANGED vars PROVE SourceInv'
  OBVIOUS
<1>1. TypeOK'
  BY DEF SourceInv, vars, TypeOK, browser, history
<1>2. MemKept' /\ PlaceChosen' /\ ShownKeeps' /\ TunedKeeps' /\ PageKeeps' /\ RightPlace'
  BY DEF SourceInv, vars, MemKept, PlaceChosen, ShownKeeps, TunedKeeps, PageKeeps, RightPlace, browser, history
<1>. QED
  BY <1>1, <1>2 DEF SourceInv

LEMMA NextKeeps == SourceInv /\ [Next]_vars => SourceInv'
<1>. SUFFICES ASSUME SourceInv, [Next]_vars PROVE SourceInv'
  OBVIOUS
<1>1. CASE MainStep
  <2>1. CASE TimerFires
    BY <2>1, GoDownKeeps DEF TimerFires, SourceInv, TypeOK
  <2>. QED
    BY <1>1, <2>1, BootKeeps, LocateKeeps, ResolveLocationKeeps, TryAddressKeeps, FallBackKeeps,
       FetchKeeps DEF MainStep
<1>2. CASE SaveUntouched \/ SaveTouched \/ SaveCleared \/ FactoryReset
  <2>1. cfg' \in Locations
    <3>1. page.form \in Locations
      BY DEF SourceInv, TypeOK
    <3>2. \A a \in Places : /\ [coords |-> Nowhere, addr |-> a] \in Locations
                           /\ [coords |-> a, addr |-> a] \in Locations
      BY MaybePlaces DEF Locations
    <3>. QED
      BY <1>2, <3>1, <3>2, MaybePlaces
         DEF SaveUntouched, SaveTouched, SaveCleared, FactoryReset, SaveSettings
  <2>. QED
    BY <1>2, <2>1, WritingKeeps DEF SaveUntouched, SaveTouched, SaveCleared, FactoryReset,
       SaveSettings, SourceInv, TypeOK
<1>3. CASE PowerLoss
  BY <1>3, GoDownKeeps DEF PowerLoss, SourceInv, TypeOK
<1>. QED
  BY <1>1, <1>2, <1>3, MidnightKeeps, OpenSettingsKeeps, MoveKeeps, StutterKeeps DEF Next

(* The invariant behind the theorems that follow. *)
THEOREM SourceInvariant == Spec => []SourceInv
BY InitSourceInv, NextKeeps, PTL DEF Spec

(* Every variable keeps its type (TypeOK). *)
THEOREM SourceTypes == Spec => []TypeOK
BY SourceInvariant, PTL DEF SourceInv

(* The timetable in use is the configured place's (main.py:239-250, 348-352,
   453-496). *)
THEOREM RightPlaceHolds == Spec => []RightPlace
BY SourceInvariant, PTL DEF SourceInv
-----------------------------------------------------------------------------
Resolved ==
  times.place = booted.addr /\ booted.addr # Nowhere /\ booted.coords = Nowhere

(* No request for a new timetable asks for the IP's place any more. *)
LEMMA ResolvedStays ==
  SourceInv /\ [Next]_vars /\ Resolved => times'.place \in {booted.addr, Nowhere}
<1>. SUFFICES ASSUME SourceInv, [Next]_vars, Resolved
              PROVE  times'.place \in {booted.addr, Nowhere}
  OBVIOUS
<1>1. times # NoTimes /\ pc \notin {"trying", "falling back"}
  <2>1. times.place # Nowhere
    BY DEF Resolved
  <2>2. NoTimes.place = Nowhere
    BY DEF NoTimes
  <2>. QED
    BY <2>1, <2>2 DEF SourceInv, PlaceChosen
<1>2. CASE Fetch
  BY <1>2 DEF Fetch, Resolved, SourceInv, MemKept, PlaceChosen, ShownKeeps, Blank
<1>3. CASE GoDown
  BY <1>3 DEF GoDown, NoTimes
<1>. QED
  BY <1>1, <1>2, <1>3
     DEF Next, MainStep, Boot, Locate, ResolveLocation, TryAddress, FallBack, TimerFires, Midnight,
         OpenSettings, SaveUntouched, SaveTouched, SaveCleared, SaveSettings, FactoryReset, PowerLoss,
         Move, vars, Resolved

(* An address resolved once in this boot is not given up for the IP's place
   (main.py:348-349, 464-465). *)
THEOREM AddressIsKept == Spec => NeverBackToIp
<1>1. SourceInv /\ [Next]_vars => [Resolved => times'.place \in {booted.addr, Nowhere}]_vars
  BY ResolvedStays
<1>. QED
  BY <1>1, SourceInvariant, PTL DEF Spec, NeverBackToIp, Resolved

(* Saving a page opened after boot, unless boot fell back to the IP's place,
   keeps the configured place and address (status.py:105-113, 143-160). *)
THEOREM LatePagesKeep == Spec => LatePageKeeps
<1>1. SourceInv =>
        [ SavedAsOpened(page.late /\ page.tuned) => Place(cfg') = Place(cfg) /\ cfg'.addr = cfg.addr ]_vars
  BY DEF SourceInv, PageKeeps, SavedAsOpened, SaveUntouched, SaveSettings
<1>. QED
  BY <1>1, SourceInvariant, PTL DEF LatePageKeeps
=============================================================================
