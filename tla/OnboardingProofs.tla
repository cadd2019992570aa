--------------------------- MODULE OnboardingProofs ---------------------------
(* What the two web sites store and list, for any number of clients, *)
(* speakers and scans, and whatever is typed.                                *)
EXTENDS Onboarding, FiniteSetTheorems, FunctionTheorems, SequenceTheorems, TLAPS

PortalForm(f) ==
  <<Field("ssid", f["ssid"]), Field("password", f["password"]),
    Field("cast_device_name", f["cast_device_name"])>>

PortalAsks ==
  {Get("/")}
    \cup {Post("/configure", PortalForm(f)) : f \in Forms}

AppAsks ==
  {Get("/"), Get("/nothing"), Post("/scan-cast-devices", <<>>), Post("/factory-reset", <<>>)}
    \cup {Post("/settings", <<Field("cast_device_name", n)>>) : n \in NewNames}

Connections ==
  [pc : {"free", "reading", "draining", "silent"},
   request : PortalAsks \cup AppAsks \cup {NoRequest}, left : Nat]

(* A connection with a request has one of the site that is up. *)
ServerInv ==
  /\ conn \in [Clients -> Connections]
  /\ \A c \in Clients :
       /\ conn[c].pc # "free" => Serving
       /\ conn[c].pc = "draining" <=> conn[c].left > 0
       /\ conn[c].pc \in {"reading", "draining"} => conn[c].request \in Requests

DeviceInv ==
  /\ power \in {"off", "portal", "installing", "starting", "app"}
  /\ DOMAIN config = Keys /\ DOMAIN typed = Keys
  /\ installed \in {"none", "broken", "whole"} /\ timer \in BOOLEAN
  /\ scanning \in BOOLEAN /\ pieces \in BOOLEAN
  /\ scans \in 0 .. SCANS /\ (scans > 0 => power = "app") /\ (scanning => scans > 0)
  /\ devices \in Seq(Speakers) /\ found \subseteq Speakers

SiteInv ==
  /\ ServerInv
  /\ DeviceInv
  /\ SavedAsTyped
  /\ ListedOnce
-----------------------------------------------------------------------------
LEMMA RequestsBySite == Requests = IF power = "portal" THEN PortalAsks ELSE AppAsks
BY DEF Requests, PortalAsks, AppAsks, PortalForm

(* The portal is asked for nothing but pages and its form ... *)
LEMMA PortalAsk ==
  ASSUME NEW r \in PortalAsks, r.method = "POST"
  PROVE  \E f \in Forms : r.form = PortalForm(f)
<1>1. r # Get("/")
  BY DEF Get
<1>2. PICK f \in Forms : r = Post("/configure", PortalForm(f))
  BY <1>1 DEF PortalAsks
<1>. QED
  BY <1>2 DEF Post

(* ... and the app's settings are one field. *)
LEMMA AppAsk ==
  ASSUME NEW r \in AppAsks, r.path = "/settings"
  PROVE  \E v \in NewNames : r.form = <<Field("cast_device_name", v)>>
<1>1. /\ r # Get("/") /\ r # Get("/nothing")
      /\ r # Post("/scan-cast-devices", <<>>) /\ r # Post("/factory-reset", <<>>)
  BY DEF Get, Post
<1>2. PICK n \in NewNames : r = Post("/settings", <<Field("cast_device_name", n)>>)
  BY <1>1 DEF AppAsks
<1>. QED
  BY <1>2 DEF Post

KeysOf(form) == {form[i].key : i \in DOMAIN form}

(* What is read of a form that arrived whole is what was typed, decoded. *)
LEMMA WholeForm ==
  ASSUME NEW form, NEW n \in Nat, DOMAIN form = 1 .. n, NEW k \in KeysOf(form)
  PROVE  ReadForm(form, n, FALSE)[k] = UrlDecode(form[Position(form, k)].value)
<1>1. \E i \in DOMAIN form : form[i].key = k
  BY DEF KeysOf
<1>2. Position(form, k) \in 1 .. n
  BY <1>1 DEF Position
<1>3. ~(Position(form, k) > n)
  BY <1>2
<1>. QED
  BY <1>2, <1>3 DEF ReadForm, KeysOf

LEMMA WholeName ==
  ASSUME NEW form, DOMAIN form = 1 .. 1, NEW k \in KeysOf(form)
  PROVE  ReadForm(form, 1, FALSE)[k] = UrlDecode(form[Position(form, k)].value)
<1>1. 1 \in Nat
  OBVIOUS
<1>. QED
  BY <1>1, WholeForm, Zenon

LEMMA FormDomain ==
  ASSUME NEW form, NEW n, NEW cut
  PROVE  DOMAIN ReadForm(form, n, cut) = KeysOf(form)
BY DEF ReadForm, KeysOf

LEMMA PortalFormKeys ==
  ASSUME NEW f
  PROVE  /\ DOMAIN PortalForm(f) = 1 .. 3 /\ Len(PortalForm(f)) = 3
         /\ KeysOf(PortalForm(f)) = Keys
<1>1. DOMAIN PortalForm(f) = 1 .. 3 /\ Len(PortalForm(f)) = 3
  BY DEF PortalForm
<1>2. /\ PortalForm(f)[1].key = "ssid" /\ PortalForm(f)[2].key = "password"
      /\ PortalForm(f)[3].key = "cast_device_name"
  BY DEF PortalForm, Field
<1>3. 1 .. 3 = {1, 2, 3}
  OBVIOUS
<1>. QED
  BY <1>1, <1>2, <1>3 DEF KeysOf, Keys

LEMMA SettingsFormKeys ==
  ASSUME NEW v, NEW form, form = <<Field("cast_device_name", v)>>
  PROVE  /\ DOMAIN form = 1 .. 1 /\ Len(form) = 1
         /\ KeysOf(form) = {"cast_device_name"} /\ form[1].value = v
         /\ Position(form, "cast_device_name") = 1
<1>1. DOMAIN form = {1} /\ Len(form) = 1 /\ form[1].key = "cast_device_name" /\ form[1].value = v
  BY DEF Field
<1>2. 1 .. 1 = {1}
  OBVIOUS
<1>. QED
  BY <1>1, <1>2 DEF KeysOf, Position
-----------------------------------------------------------------------------
LEMMA FreeConnection ==
  Free \in Connections /\ Free.pc = "free" /\ ~(Free.left > 0)
BY DEF Free, Connections

LEMMA Bounds == SCANS \in Nat \ {0} /\ PAGE \in Nat \ {0}
BY ConstantsAssumption

LEMMA NothingListed ==
  ASSUME devices = <<>>, found = {}
  PROVE  devices \in Seq(Speakers) /\ ListedOnce
<1>1. devices \in Seq(Speakers) /\ Len(devices) = 0
  OBVIOUS
<1>2. ToSet(devices) = {}
  BY <1>1 DEF ToSet
<1>3. Cardinality({}) = 0
  BY FS_EmptySet
<1>. QED
  BY <1>1, <1>2, <1>3 DEF ListedOnce

LEMMA NothingListedThen ==
  ASSUME devices' = <<>>, found' = {}
  PROVE  devices' \in Seq(Speakers) /\ ListedOnce'
<1>1. devices' \in Seq(Speakers) /\ Len(devices') = 0
  OBVIOUS
<1>2. ToSet(devices') = {}
  BY <1>1 DEF ToSet
<1>3. Cardinality({}) = 0
  BY FS_EmptySet
<1>. QED
  BY <1>1, <1>2, <1>3 DEF ListedOnce

LEMMA InitSiteInv == Init => SiteInv
<1>. SUFFICES ASSUME Init PROVE SiteInv
  OBVIOUS
<1>1. 0 \in 0 .. SCANS
  BY Bounds
<1>2. ServerInv
  BY FreeConnection DEF Init, ServerInit, ServerInv
<1>3. DeviceInv
  <2>1. /\ installed \in {"none", "broken", "whole"} /\ timer \in BOOLEAN
        /\ scanning \in BOOLEAN /\ pieces \in BOOLEAN /\ ~scanning
    BY DEF Init
  <2>2. scans \in 0 .. SCANS /\ ~(scans > 0)
    BY <1>1 DEF Init
  <2>. QED
    BY <2>1, <2>2, NothingListed DEF Init, DeviceInv, NoConfig
<1>4. SavedAsTyped
  BY DEF Init, SavedAsTyped
<1>5. ListedOnce
  BY NothingListed DEF Init
<1>. QED
  BY <1>2, <1>3, <1>4, <1>5 DEF SiteInv

(* A reset ends connections and scans; flash stays. *)
LEMMA DownKeeps ==
  ASSUME SiteInv, Down, installed' \in {"none", "broken", "whole"}, UNCHANGED <<config, typed, pieces>>
  PROVE  SiteInv'
<1>1. 0 \in 0 .. SCANS
  BY Bounds
<1>2. ServerInv'
  BY FreeConnection DEF Down, ServerDown, ServerInv
<1>3. DeviceInv'
  <2>1. /\ timer' \in BOOLEAN /\ scanning' \in BOOLEAN /\ ~scanning'
        /\ pieces' \in BOOLEAN
    BY DEF Down, SiteInv, DeviceInv
  <2>2. scans' \in 0 .. SCANS /\ ~(scans' > 0)
    BY <1>1 DEF Down
  <2>. QED
    BY <2>1, <2>2, NothingListedThen DEF SiteInv, Down, DeviceInv
<1>4. SavedAsTyped'
  BY DEF SiteInv, SavedAsTyped
<1>5. ListedOnce'
  BY NothingListedThen DEF Down
<1>. QED
  BY <1>2, <1>3, <1>4, <1>5 DEF SiteInv

(* Until a site is up nobody is connected. *)
LEMMA NobodyConnected ==
  ASSUME SiteInv, ~Serving
  PROVE  \A c \in Clients : conn[c].pc = "free"
BY DEF SiteInv, ServerInv

LEMMA BootKeeps ==
  SiteInv /\ (Boot \/ BootselHeld \/ StartApp) => SiteInv'
<1>. SUFFICES ASSUME SiteInv, Boot \/ BootselHeld \/ StartApp PROVE SiteInv'
  OBVIOUS
<1>1. /\ power \in {"off", "starting"} /\ power' \in {"portal", "starting", "installing", "app"}
      /\ UNCHANGED <<conn, installed, timer, devices, scans, scanning, pieces, found>>
      /\ (UNCHANGED <<config, typed>>) \/ (config' = NoConfig /\ typed' = NoConfig)
  BY DEF Boot, BootselHeld, StartApp, flash, memory, history
<1>2. \A c \in Clients : conn[c].pc = "free"
  BY <1>1, NobodyConnected DEF Serving
<1>3. ServerInv'
  BY <1>1, <1>2 DEF SiteInv, ServerInv
<1>4. DeviceInv'
  BY <1>1 DEF SiteInv, DeviceInv, NoConfig
<1>5. SavedAsTyped' /\ ListedOnce'
  BY <1>1 DEF SiteInv, SavedAsTyped, ListedOnce, ToSet
<1>. QED
  BY <1>3, <1>4, <1>5 DEF SiteInv
-----------------------------------------------------------------------------
(* Connections that do not touch the device. *)
LEMMA DeviceIdle ==
  ASSUME SiteInv, UNCHANGED <<power, flash, memory, history>>, ServerInv'
  PROVE  SiteInv'
<1>1. UNCHANGED <<power, config, installed, timer, devices, scans, scanning, typed, pieces, found>>
  BY DEF flash, memory, history
<1>2. DeviceInv'
  BY <1>1 DEF SiteInv, DeviceInv
<1>3. SavedAsTyped' /\ ListedOnce'
  BY <1>1 DEF SiteInv, SavedAsTyped, ListedOnce, ToSet
<1>. QED
  BY <1>2, <1>3 DEF SiteInv

LEMMA ConnectKeeps ==
  ASSUME ServerInv, Serving, power' = power, NEW c \in Clients, NEW r \in Requests, Connect(c, r)
  PROVE  ServerInv'
<1>1. r \in PortalAsks \cup AppAsks
  BY RequestsBySite
<1>2. DEFINE new == [pc |-> "reading", request |-> r, left |-> 0]
<1>3. new \in Connections /\ new.pc = "reading" /\ new.request = r /\ ~(new.left > 0)
  BY <1>1 DEF Connections
<1>4. conn' = [d \in Clients |-> IF d = c THEN new ELSE IF conn[d].pc = "silent" THEN Free ELSE conn[d]]
  BY DEF Connect
<1>. HIDE DEF new
<1>5. \A d \in Clients : conn'[d] \in {new, Free, conn[d]}
  BY <1>4
<1>6. conn' \in [Clients -> Connections]
  BY <1>3, <1>4, FreeConnection DEF ServerInv
<1>7. Serving' /\ Requests' = Requests
  BY DEF Serving, Requests
<1>8. \A d \in Clients :
        /\ conn'[d].pc = "draining" <=> conn'[d].left > 0
        /\ conn'[d].pc \in {"reading", "draining"} => conn'[d].request \in Requests
  BY <1>3, <1>5, FreeConnection DEF ServerInv
<1>. QED
  BY <1>6, <1>7, <1>8 DEF ServerInv

LEMMA BreakOffKeeps ==
  ASSUME ServerInv, Serving, power' = power, NEW c \in Clients,
         conn[c].pc = "reading", NoResponse(c)
  PROVE  ServerInv'
<1>1. /\ conn[c] \in Connections
      /\ conn' = [conn EXCEPT ![c] = [conn[c] EXCEPT !.pc = "silent"]]
  BY DEF NoResponse, ServerInv
<1>2. DEFINE new == [conn[c] EXCEPT !.pc = "silent"]
<1>3. new \in Connections /\ new.pc = "silent" /\ new.left = conn[c].left
  BY <1>1 DEF Connections
<1>. HIDE DEF new
<1>4. conn' \in [Clients -> Connections] /\ conn'[c] = new /\ \A d \in Clients \ {c} : conn'[d] = conn[d]
  BY <1>1, <1>3 DEF ServerInv, new
<1>5. Serving' /\ Requests' = Requests
  BY DEF Serving, Requests
<1>6. \A d \in Clients :
        /\ conn'[d].pc = "draining" <=> conn'[d].left > 0
        /\ conn'[d].pc \in {"reading", "draining"} => conn'[d].request \in Requests
  BY <1>3, <1>4 DEF ServerInv
<1>. QED
  BY <1>4, <1>5, <1>6 DEF ServerInv

LEMMA DrainKeeps ==
  ASSUME ServerInv, Serving, power' = power, NEW c \in Clients, Drain(c)
  PROVE  ServerInv'
<1>1. conn[c] \in Connections /\ conn[c].pc = "draining"
  BY DEF Drain, ServerInv
<1>2. DEFINE new == [conn[c] EXCEPT !.left = conn[c].left - 1]
<1>3. conn[c].left > 1 => /\ new \in Connections /\ new.pc = "draining" /\ new.left > 0
                         /\ new.request = conn[c].request
  BY <1>1 DEF Connections
<1>4. /\ conn' \in [Clients -> Connections]
      /\ (conn[c].left > 1 /\ conn'[c] = new) \/ conn'[c] = Free
      /\ \A d \in Clients \ {c} : conn'[d] = conn[d]
  <2>1. CASE conn[c].left > 1
    <3>1. conn' = [conn EXCEPT ![c] = new]
      BY <2>1 DEF Drain
    <3>. HIDE DEF new
    <3>. QED
      BY <1>3, <2>1, <3>1 DEF ServerInv
  <2>2. CASE ~(conn[c].left > 1)
    <3>1. conn' = [conn EXCEPT ![c] = Free]
      BY <2>2 DEF Drain
    <3>. QED
      BY <3>1, FreeConnection DEF ServerInv
  <2>. QED
    BY <2>1, <2>2
<1>. HIDE DEF new
<1>5. Serving' /\ Requests' = Requests
  BY DEF Serving, Requests
<1>6. \A d \in Clients :
        /\ conn'[d].pc = "draining" <=> conn'[d].left > 0
        /\ conn'[d].pc \in {"reading", "draining"} => conn'[d].request \in Requests
  BY <1>1, <1>3, <1>4, FreeConnection DEF ServerInv
<1>. QED
  BY <1>4, <1>5, <1>6 DEF ServerInv

LEMMA RespondKeeps ==
  ASSUME ServerInv, Serving, power' = power, NEW c \in Clients, conn[c].pc = "reading",
         NEW chunks \in Nat \ {0}, Respond(c, chunks)
  PROVE  ServerInv'
<1>1. DEFINE new == [conn[c] EXCEPT !.pc = "draining", !.left = chunks]
<1>2. conn[c] \in Connections /\ conn' = [conn EXCEPT ![c] = new]
  BY DEF Respond, ServerInv
<1>3. chunks \in Nat /\ chunks > 0
  OBVIOUS
<1>4. new \in Connections /\ new.pc = "draining" /\ new.left = chunks /\ new.request = conn[c].request
  BY <1>2, <1>3 DEF Connections
<1>. HIDE DEF new
<1>5. conn' \in [Clients -> Connections] /\ conn'[c] = new /\ \A d \in Clients \ {c} : conn'[d] = conn[d]
  BY <1>2, <1>4 DEF ServerInv
<1>6. Serving' /\ Requests' = Requests
  BY DEF Serving, Requests
<1>7. \A d \in Clients :
        /\ conn'[d].pc = "draining" <=> conn'[d].left > 0
        /\ conn'[d].pc \in {"reading", "draining"} => conn'[d].request \in Requests
  BY <1>3, <1>4, <1>5 DEF ServerInv
<1>. QED
  BY <1>5, <1>6, <1>7 DEF ServerInv

LEMMA OneChunk ==
  ASSUME ServerInv, Serving, power' = power, NEW c \in Clients, conn[c].pc = "reading", Respond(c, 1)
  PROVE  ServerInv'
<1>1. 1 \in Nat \ {0}
  OBVIOUS
<1>. QED
  BY <1>1, RespondKeeps
-----------------------------------------------------------------------------
LEMMA RecordTyped ==
  ASSUME NEW r, NEW whole \in BOOLEAN, Record(r, whole)
  PROVE  /\ DOMAIN typed' = Keys /\ pieces' \in BOOLEAN
         /\ ~pieces' => whole /\ (r.path = "/settings" => ~pieces)
         /\ \A k \in Keys : typed'[k] = IF k \in KeysOf(r.form) THEN r.form[Position(r.form, k)].value
                                        ELSE typed[k]
BY DEF Record, KeysOf

(* The portal's form overwrites all that is configured. *)
LEMMA PortalFormSaved ==
  ASSUME NEW r, NEW f \in Forms, r.form = PortalForm(f), NEW n \in 0 .. Len(r.form), NEW cut \in BOOLEAN,
         config' = ReadForm(r.form, n, cut), Record(r, n = Len(r.form) /\ ~cut)
  PROVE  DOMAIN config' = Keys /\ SavedAsTyped'
<1>1. /\ DOMAIN r.form = 1 .. 3 /\ Len(r.form) = 3 /\ KeysOf(r.form) = Keys
  BY PortalFormKeys
<1>2. DOMAIN config' = Keys
  BY <1>1, FormDomain
<1>3. ASSUME ~pieces', NEW k \in Keys, typed'[k] \notin NonAscii
      PROVE  config'[k] = typed'[k]
  <2>1. n = 3 /\ cut = FALSE
    BY <1>1, <1>3, RecordTyped
  <2>2. typed'[k] = r.form[Position(r.form, k)].value
    BY <1>1, RecordTyped
  <2>3. config'[k] = UrlDecode(r.form[Position(r.form, k)].value)
    <3>1. 3 \in Nat
      OBVIOUS
    <3>2. k \in KeysOf(r.form)
      BY <1>1
    <3>3. ReadForm(r.form, 3, FALSE)[k] = UrlDecode(r.form[Position(r.form, k)].value)
      BY <1>1, <3>1, <3>2, WholeForm, Zenon
    <3>. QED
      BY <2>1, <3>3
  <2>. QED
    BY <1>3, <2>2, <2>3 DEF UrlDecode
<1>. QED
  BY <1>2, <1>3 DEF SavedAsTyped

(* The settings change the name, and only if there is one. *)
LEMMA SettingsSaved ==
  ASSUME SiteInv, NEW r, NEW v, r.form = <<Field("cast_device_name", v)>>, r.path = "/settings",
         NEW n \in 0 .. Len(r.form), NEW cut \in BOOLEAN,
         config' = WithName(ReadForm(r.form, n, cut)), v # "",
         Record(r, n = Len(r.form) /\ ~cut)
  PROVE  DOMAIN config' = Keys /\ SavedAsTyped'
<1>. DEFINE form == ReadForm(r.form, n, cut)
<1>1. /\ DOMAIN r.form = 1 .. 1 /\ Len(r.form) = 1 /\ KeysOf(r.form) = {"cast_device_name"}
      /\ r.form[Position(r.form, "cast_device_name")].value = v
  BY SettingsFormKeys
<1>2. DOMAIN config = Keys /\ SavedAsTyped
  BY DEF SiteInv, DeviceInv
<1>3. config' = config \/ config' = [config EXCEPT !["cast_device_name"] = form["cast_device_name"]]
  BY DEF WithName
<1>4. DOMAIN config' = Keys
  BY <1>2, <1>3
<1>5. ASSUME ~pieces', NEW k \in Keys, typed'[k] \notin NonAscii
      PROVE  config'[k] = typed'[k]
  <2>1. n = 1 /\ cut = FALSE /\ ~pieces
    BY <1>1, <1>5, RecordTyped
  <2>2. form["cast_device_name"] = UrlDecode(v)
    <3>1. "cast_device_name" \in KeysOf(r.form)
      BY <1>1
    <3>2. ReadForm(r.form, 1, FALSE)["cast_device_name"]
            = UrlDecode(r.form[Position(r.form, "cast_device_name")].value)
      BY <1>1, <3>1, WholeName, Zenon
    <3>. QED
      BY <1>1, <2>1, <3>2
  <2>3. UrlDecode(v) # ""
    BY DEF UrlDecode
  <2>4. config' = [config EXCEPT !["cast_device_name"] = UrlDecode(v)]
    <3>1. config' = WithName(form)
      OBVIOUS
    <3>. HIDE DEF form
    <3>. QED
      BY <2>2, <2>3, <3>1 DEF WithName
  <2>5. CASE k = "cast_device_name"
    <3>1. typed'[k] = v
      BY <1>1, <2>5, RecordTyped
    <3>. QED
      BY <1>2, <1>5, <2>4, <2>5, <3>1 DEF UrlDecode, Keys
  <2>6. CASE k # "cast_device_name"
    <3>1. typed'[k] = typed[k]
      BY <1>1, <2>6, RecordTyped
    <3>. QED
      BY <1>2, <1>5, <2>1, <2>4, <2>6, <3>1 DEF SavedAsTyped
  <2>. QED
    BY <2>5, <2>6
<1>. QED
  BY <1>4, <1>5 DEF SavedAsTyped

LEMMA SmallNumbers == 1 > 0 /\ ~(1 > 1) /\ ~(0 > 0)
OBVIOUS

LEMMA UpToOne == \A m : m = 1 => 0 .. m = {0, 1}
OBVIOUS

LEMMA OneMore ==
  \A m \in Nat : \A s \in 0 .. m : s < m => s + 1 \in 0 .. m /\ s + 1 > 0
OBVIOUS

LEMMA OneLess ==
  \A m \in Nat : \A s \in 0 .. m : s > 0 => s - 1 \in 0 .. m
OBVIOUS

LEMMA EmptyNameRead ==
  ASSUME NEW form, KeysOf(form) = {"cast_device_name"}, Position(form, "cast_device_name") = 1,
         form[1].value = ""
  PROVE  /\ ReadForm(form, 0, FALSE)["cast_device_name"] = ""
         /\ ReadForm(form, 1, FALSE)["cast_device_name"] = ""
<1>1. UrlDecode("") = ""
  BY ConstantsAssumption DEF UrlDecode
<1>2. 1 > 0 /\ ~(1 > 1)
  BY SmallNumbers, Zenon
<1>3. ReadForm(form, 0, FALSE)["cast_device_name"] = ""
  BY <1>2 DEF ReadForm, KeysOf
<1>4. ReadForm(form, 1, FALSE)["cast_device_name"] = ""
  BY <1>1, <1>2 DEF ReadForm, KeysOf
<1>. QED
  BY <1>3, <1>4

LEMMA EmptyNameIgnored ==
  ASSUME NEW form, form = <<Field("cast_device_name", "")>>, NEW n \in {0, 1}
  PROVE  WithName(ReadForm(form, n, FALSE)) = config
<1>1. KeysOf(form) = {"cast_device_name"} /\ Position(form, "cast_device_name") = 1 /\ form[1].value = ""
  BY SettingsFormKeys
<1>2. ReadForm(form, n, FALSE)["cast_device_name"] = ""
  BY <1>1, EmptyNameRead
<1>. QED
  BY <1>2 DEF WithName

LEMMA PortalKeeps ==
  ASSUME SiteInv, NEW c \in Clients, conn[c].pc = "reading", NEW r, r = conn[c].request,
         NEW n \in 0 .. Len(r.form), NEW cut \in BOOLEAN,
         PortalHandles(c, r, ReadForm(r.form, n, cut), n = Len(r.form) /\ ~cut)
  PROVE  SiteInv'
<1>. DEFINE form == ReadForm(r.form, n, cut)
            whole == n = Len(r.form) /\ ~cut
<1>1. /\ power = "portal" /\ power' = power /\ Serving
      /\ UNCHANGED <<installed, devices, scans, scanning, found>>
  BY DEF PortalHandles, Serving
<1>2. r \in PortalAsks
  BY <1>1, RequestsBySite DEF SiteInv, ServerInv
<1>4. ListedOnce'
  BY <1>1 DEF SiteInv, ListedOnce, ToSet
<1>5. CASE Matches({<<"POST", "/configure">>}, r) /\ Configure(c, form) /\ Record(r, whole)
  <2>1. Configure(c, form) /\ Record(r, whole) /\ r.method = "POST"
    BY <1>5 DEF Matches
  <2>2. PICK f \in Forms : r.form = PortalForm(f)
    BY <1>2, <2>1, PortalAsk
  <2>3. config' = form /\ timer' = TRUE /\ Respond(c, 1)
    BY <2>1 DEF Configure
  <2>4. DOMAIN config' = Keys /\ SavedAsTyped'
    BY <2>1, <2>2, <2>3, PortalFormSaved
  <2>5. DOMAIN typed' = Keys /\ pieces' \in BOOLEAN
    BY <2>1, RecordTyped
  <2>6. ServerInv'
    BY <1>1, <2>3, OneChunk DEF SiteInv
  <2>7. DeviceInv'
    BY <1>1, <2>3, <2>4, <2>5 DEF SiteInv, DeviceInv
  <2>. QED
    BY <1>4, <2>4, <2>6, <2>7 DEF SiteInv
<1>6. CASE Respond(c, 1) /\ UNCHANGED <<config, timer, typed, pieces>>
  <2>1. ServerInv'
    BY <1>1, <1>6, OneChunk DEF SiteInv
  <2>2. DeviceInv' /\ SavedAsTyped'
    BY <1>1, <1>6 DEF SiteInv, DeviceInv, SavedAsTyped
  <2>. QED
    BY <1>4, <2>1, <2>2 DEF SiteInv
<1>. QED
  BY <1>5, <1>6 DEF PortalHandles

(* The settings are stored or the form is refused; neither is answered. *)
LEMMA SettingsKeep ==
  ASSUME SiteInv, NEW c \in Clients, conn[c].pc = "reading", NEW r, r = conn[c].request,
         r \in AppAsks, r.path = "/settings", power = "app", power' = power,
         NEW n \in 0 .. Len(r.form), NEW cut \in BOOLEAN, cut => n > 0 /\ r.form[n].value # "",
         SaveSettings(c, ReadForm(r.form, n, cut)),
         IF config = NoConfig \/ r.form[1].value = "" THEN UNCHANGED <<typed, pieces>>
         ELSE Record(r, n = Len(r.form) /\ ~cut),
         UNCHANGED <<installed, devices, scans, scanning, found>>
  PROVE  SiteInv'
<1>1. Serving /\ NoResponse(c)
  BY DEF Serving, SaveSettings
<1>2. ServerInv'
  BY <1>1, BreakOffKeeps DEF SiteInv
<1>3. ListedOnce'
  BY DEF SiteInv, ListedOnce, ToSet
<1>4. PICK v \in NewNames : r.form = <<Field("cast_device_name", v)>>
  BY AppAsk
<1>5. Len(r.form) = 1 /\ r.form[1].value = v
  BY <1>4, SettingsFormKeys
<1>6. timer' \in BOOLEAN
  BY DEF SiteInv, DeviceInv, SaveSettings
<1>7. DOMAIN config' = Keys /\ DOMAIN typed' = Keys /\ pieces' \in BOOLEAN /\ SavedAsTyped'
  <2>1. CASE config = NoConfig
    BY <2>1 DEF SaveSettings, SiteInv, DeviceInv, SavedAsTyped
  <2>2. CASE config # NoConfig /\ v = ""
    <3>1. UNCHANGED <<typed, pieces>>
      BY <1>5, <2>2
    <3>2. n \in {0, 1}
      BY <1>5, UpToOne
    <3>3. cut = FALSE
      <4>1. n = 0 => ~cut
        BY SmallNumbers
      <4>2. n = 1 => ~cut
        BY <1>5, <2>2
      <4>. QED
        BY <3>2, <4>1, <4>2
    <3>4. WithName(ReadForm(r.form, n, FALSE)) = config
      BY <1>4, <2>2, <3>2, EmptyNameIgnored
    <3>5. config' = config
      BY <2>2, <3>3, <3>4 DEF SaveSettings
    <3>. QED
      BY <3>1, <3>5 DEF SiteInv, DeviceInv, SavedAsTyped
  <2>3. CASE config # NoConfig /\ v # ""
    <3>1. Record(r, n = Len(r.form) /\ ~cut)
      BY <1>5, <2>3
    <3>2. config' = WithName(ReadForm(r.form, n, cut))
      BY <2>3 DEF SaveSettings
    <3>3. DOMAIN config' = Keys /\ SavedAsTyped'
      BY <1>4, <2>3, <3>1, <3>2, SettingsSaved
    <3>. QED
      BY <3>1, <3>3, RecordTyped
  <2>. QED
    BY <2>1, <2>2, <2>3
<1>8. DeviceInv'
  BY <1>1, <1>6, <1>7 DEF SiteInv, DeviceInv
<1>. QED
  BY <1>2, <1>3, <1>7, <1>8 DEF SiteInv

LEMMA StatusKeeps ==
  ASSUME SiteInv, NEW c \in Clients, conn[c].pc = "reading", NEW r, r = conn[c].request,
         NEW n \in 0 .. Len(r.form), NEW cut \in BOOLEAN, cut => n > 0 /\ r.form[n].value # "",
         StatusHandles(c, r, ReadForm(r.form, n, cut), n = Len(r.form) /\ ~cut)
  PROVE  SiteInv'
<1>1. /\ power = "app" /\ power' = power /\ Serving
      /\ UNCHANGED <<installed, devices, found>>
  BY DEF StatusHandles, Serving
<1>2. r \in AppAsks
  BY <1>1, RequestsBySite DEF SiteInv, ServerInv
<1>4. ListedOnce'
  BY <1>1 DEF SiteInv, ListedOnce, ToSet
<1>5. CASE /\ NoResponse(c) \/ Respond(c, PAGE)
           /\ UNCHANGED <<config, timer, scans, scanning, typed, pieces>>
  <2>1. ServerInv'
    BY <1>1, <1>5, Bounds, BreakOffKeeps, RespondKeeps DEF SiteInv
  <2>2. DeviceInv' /\ SavedAsTyped'
    BY <1>1, <1>5 DEF SiteInv, DeviceInv, SavedAsTyped
  <2>. QED
    BY <1>4, <2>1, <2>2 DEF SiteInv
<1>6. CASE /\ r.method = "POST" /\ r.path = "/settings"
           /\ SaveSettings(c, ReadForm(r.form, n, cut))
           /\ IF config = NoConfig \/ r.form[1].value = "" THEN UNCHANGED <<typed, pieces>>
              ELSE Record(r, n = Len(r.form) /\ ~cut)
           /\ UNCHANGED <<scans, scanning>>
  BY <1>1, <1>2, <1>6, SettingsKeep
<1>7. CASE /\ r.method = "POST" /\ r.path = "/factory-reset"
           /\ FactoryReset(c)
           /\ typed' = NoConfig /\ pieces' = FALSE
           /\ UNCHANGED <<scans, scanning>>
  <2>1. config' = NoConfig /\ timer' = TRUE /\ Respond(c, 1)
    BY <1>7 DEF FactoryReset
  <2>3. ServerInv'
    BY <1>1, <2>1, OneChunk DEF SiteInv
  <2>4. DOMAIN config' = Keys /\ DOMAIN typed' = Keys
    BY <1>7, <2>1 DEF NoConfig
  <2>5. timer' \in BOOLEAN /\ pieces' \in BOOLEAN
    BY <1>7, <2>1 DEF SiteInv, DeviceInv
  <2>6. DeviceInv'
    BY <1>1, <1>7, <2>4, <2>5 DEF SiteInv, DeviceInv
  <2>7. SavedAsTyped'
    BY <1>7, <2>1 DEF SavedAsTyped
  <2>. QED
    BY <1>4, <2>3, <2>6, <2>7 DEF SiteInv
<1>8. CASE /\ r.method = "POST" /\ r.path = "/scan-cast-devices"
           /\ StartScan(c)
           /\ UNCHANGED <<config, timer, typed, pieces>>
  <2>1. scans < SCANS /\ scans' = scans + 1 /\ scanning' = TRUE /\ Respond(c, 1)
    BY <1>8 DEF StartScan
  <2>3. ServerInv'
    BY <1>1, <2>1, OneChunk DEF SiteInv
  <2>4. scans' \in 0 .. SCANS /\ scans' > 0
    BY <2>1, Bounds, OneMore DEF SiteInv, DeviceInv
  <2>5. DeviceInv'
    BY <1>1, <1>8, <2>1, <2>4 DEF SiteInv, DeviceInv
  <2>6. SavedAsTyped'
    BY <1>8 DEF SiteInv, SavedAsTyped
  <2>. QED
    BY <1>4, <2>3, <2>5, <2>6 DEF SiteInv
<1>. QED
  BY <1>5, <1>6, <1>7, <1>8 DEF StatusHandles
-----------------------------------------------------------------------------
(* SetToSeq lists each element of a finite set once. *)
LEMMA SetToSeqLists ==
  ASSUME NEW S, IsFiniteSet(S)
  PROVE  SetToSeq(S) \in Seq(S) /\ ToSet(SetToSeq(S)) = S /\ Len(SetToSeq(S)) = Cardinality(S)
<1>. DEFINE m == Cardinality(S)
            s == SetToSeq(S)
<1>1. m \in Nat /\ ExistsBijection(1 .. m, S)
  BY FS_CardinalityType
<1>2. PICK g : g \in Bijection(1 .. m, S)
  BY <1>1 DEF ExistsBijection
<1>3. g \in [1 .. m -> S] /\ \A a, b \in 1 .. m : g[a] = g[b] => a = b
  BY <1>2, Fun_BijectionProperties
<1>4. IsInjective(g)
  BY <1>3 DEF IsInjective
<1>5. s \in [1 .. m -> S] /\ IsInjective(s)
  BY <1>3, <1>4 DEF SetToSeq
<1>. HIDE DEF s
<1>6. s \in Seq(S) /\ Len(s) = m
  BY <1>1, <1>5
<1>7. s \in Injection(1 .. m, S)
  BY <1>5 DEF Injection
<1>8. Cardinality(1 .. m) = m
  <2>1. m \in Int /\ 1 \in Int
    BY <1>1
  <2>2. Cardinality(1 .. m) = IF 1 > m THEN 0 ELSE m - 1 + 1
    BY <2>1, FS_Interval
  <2>. QED
    BY <1>1, <2>2
<1>9. s \in Surjection(1 .. m, S)
  BY <1>7, <1>8, FS_Injection
<1>10. \A t \in S : \E i \in 1 .. m : s[i] = t
  BY <1>9 DEF Surjection
<1>11. ToSet(s) = S
  BY <1>5, <1>10 DEF ToSet
<1>. QED
  BY <1>6, <1>11 DEF s

(* Appending to a list of what was found what was not. *)
LEMMA AppendNew ==
  ASSUME NEW T, NEW ds \in Seq(T), NEW S \in SUBSET T, IsFiniteSet(T),
         Len(ds) = Cardinality(ToSet(ds))
  PROVE  LET es == ds \o SetToSeq(S \ ToSet(ds))
         IN  /\ es \in Seq(T) /\ ToSet(es) = ToSet(ds) \cup S
             /\ Len(es) = Cardinality(ToSet(ds) \cup S)
<1>. DEFINE D == ToSet(ds)
            new == SetToSeq(S \ D)
            es == ds \o new
<1>1. D \subseteq T /\ IsFiniteSet(D) /\ IsFiniteSet(S \ D)
  <2>1. D \subseteq T
    BY DEF ToSet
  <2>. HIDE DEF D
  <2>. QED
    BY <2>1, FS_Subset
<1>2. new \in Seq(S \ D) /\ ToSet(new) = S \ D /\ Len(new) = Cardinality(S \ D)
  BY <1>1, SetToSeqLists
<1>. HIDE DEF new
<1>3. new \in Seq(T)
  BY <1>2, SeqMonotonic
<1>4. /\ es \in Seq(T) /\ Len(es) = Len(ds) + Len(new)
      /\ \A i \in 1 .. Len(ds) + Len(new) : es[i] = IF i <= Len(ds) THEN ds[i] ELSE new[i - Len(ds)]
  BY <1>3
<1>5. ToSet(es) = D \cup ToSet(new)
  <2>1. ASSUME NEW i \in 1 .. Len(ds) + Len(new)
        PROVE  es[i] \in D \cup ToSet(new)
    <3>1. CASE i <= Len(ds)
      BY <1>4, <3>1 DEF ToSet
    <3>2. CASE ~(i <= Len(ds))
      <4>1. i - Len(ds) \in 1 .. Len(new)
        BY <1>3, <3>2
      <4>. QED
        BY <1>3, <1>4, <3>2, <4>1 DEF ToSet
    <3>. QED
      BY <3>1, <3>2
  <2>2. ASSUME NEW j \in 1 .. Len(ds)
        PROVE  ds[j] \in ToSet(es)
    <3>1. j \in 1 .. Len(ds) + Len(new) /\ j <= Len(ds)
      BY <1>3
    <3>2. es[j] = ds[j] /\ j \in DOMAIN es
      BY <1>4, <3>1
    <3>. HIDE DEF es
    <3>. QED
      BY <3>2 DEF ToSet
  <2>3. ASSUME NEW j \in 1 .. Len(new)
        PROVE  new[j] \in ToSet(es)
    <3>1. /\ Len(ds) + j \in 1 .. Len(ds) + Len(new) /\ ~(Len(ds) + j <= Len(ds))
          /\ Len(ds) + j - Len(ds) = j
      BY <1>3
    <3>2. es[Len(ds) + j] = new[j] /\ Len(ds) + j \in DOMAIN es
      BY <1>4, <3>1
    <3>. HIDE DEF es
    <3>. QED
      BY <3>2 DEF ToSet
  <2>. HIDE DEF es
  <2>4. DOMAIN es = 1 .. Len(ds) + Len(new) /\ DOMAIN ds = 1 .. Len(ds) /\ DOMAIN new = 1 .. Len(new)
    BY <1>3, <1>4
  <2>. QED
    BY <2>1, <2>2, <2>3, <2>4 DEF ToSet
<1>6. ToSet(es) = D \cup S
  BY <1>2, <1>5
<1>7. Cardinality(D \cup S) = Cardinality(D) + Cardinality(S \ D)
  <2>. HIDE DEF D
  <2>1. D \cup S = D \cup (S \ D) /\ D \cap (S \ D) = {}
    OBVIOUS
  <2>2. Cardinality({}) = 0 /\ Cardinality(D) \in Nat /\ Cardinality(S \ D) \in Nat
    BY <1>1, FS_EmptySet, FS_CardinalityType
  <2>3. Cardinality(D \cup (S \ D)) = Cardinality(D) + Cardinality(S \ D) - Cardinality(D \cap (S \ D))
    BY <1>1, FS_Union
  <2>4. Cardinality(D \cup (S \ D)) = Cardinality(D) + Cardinality(S \ D) - 0
    BY <2>1, <2>2, <2>3, Zenon
  <2>5. Cardinality(D \cup (S \ D)) = Cardinality(D) + Cardinality(S \ D)
    BY <2>2, <2>4
  <2>. QED
    BY <2>1, <2>5, Zenon
<1>8. Len(es) = Cardinality(D \cup S)
  BY <1>2, <1>4, <1>7
<1>. QED
  BY <1>4, <1>6, <1>8 DEF new

LEMMA EndScanKeeps ==
  ASSUME SiteInv, NEW names \in SUBSET Speakers, EndScan(names)
  PROVE  SiteInv'
<1>1. /\ UNCHANGED <<conn, power, config, installed, timer, typed, pieces>>
      /\ scans > 0 /\ scans' = scans - 1 /\ scanning' = FALSE
      /\ devices' = Merged(names) /\ found' = found \cup names
  BY DEF EndScan, flash
<1>2. ServerInv'
  BY <1>1 DEF SiteInv, ServerInv, Serving, Requests
<1>3. /\ devices \in Seq(Speakers) /\ found \subseteq Speakers
      /\ ToSet(devices) = found /\ Len(devices) = Cardinality(found)
  BY DEF SiteInv, DeviceInv, ListedOnce
<1>4. IsFiniteSet(Speakers)
  BY ConstantsAssumption
<1>5. /\ devices' \in Seq(Speakers) /\ ToSet(devices') = found'
      /\ Len(devices') = Cardinality(found')
  <2>. DEFINE es == devices \o SetToSeq(names \ ToSet(devices))
  <2>1. /\ es \in Seq(Speakers) /\ ToSet(es) = ToSet(devices) \cup names
        /\ Len(es) = Cardinality(ToSet(devices) \cup names)
    <3>1. Len(devices) = Cardinality(ToSet(devices))
      BY <1>3
    <3>. QED
      BY <1>3, <1>4, <3>1, AppendNew, Zenon
  <2>2. devices' = es
    BY <1>1 DEF Merged
  <2>. HIDE DEF es
  <2>. QED
    BY <1>1, <1>3, <2>1, <2>2
<1>6. scans' \in 0 .. SCANS /\ (scans' > 0 => power' = "app")
  <2>1. scans' \in 0 .. SCANS
    BY <1>1, Bounds, OneLess DEF SiteInv, DeviceInv
  <2>2. power' = "app"
    BY <1>1 DEF SiteInv, DeviceInv
  <2>. QED
    BY <2>1, <2>2
<1>7. DeviceInv'
  BY <1>1, <1>3, <1>5, <1>6 DEF SiteInv, DeviceInv
<1>8. SavedAsTyped'
  BY <1>1 DEF SiteInv, SavedAsTyped
<1>9. ListedOnce'
  BY <1>5 DEF ListedOnce, ToSet
<1>. QED
  BY <1>2, <1>7, <1>8, <1>9 DEF SiteInv

LEMMA ServeKeeps ==
  ASSUME SiteInv, NEW c \in Clients, Serve(c)
  PROVE  SiteInv'
<1>. DEFINE r == conn[c].request
<1>1. conn[c].pc = "reading"
  BY DEF Serve
<1>2. PICK n \in 0 .. Len(r.form), cut \in BOOLEAN :
        /\ cut => n > 0 /\ r.form[n].value # ""
        /\ \/ PortalHandles(c, r, ReadForm(r.form, n, cut), n = Len(r.form) /\ ~cut)
           \/ StatusHandles(c, r, ReadForm(r.form, n, cut), n = Len(r.form) /\ ~cut)
  BY DEF Serve
<1>. HIDE DEF r
<1>3. r = conn[c].request
  BY DEF r
<1>. QED
  BY <1>1, <1>2, <1>3, PortalKeeps, StatusKeeps

LEMMA ServerStepKeeps ==
  ASSUME SiteInv, Serving, NEW c \in Clients, ServerStep(c), UNCHANGED <<power, flash, memory, history>>
  PROVE  SiteInv'
<1>1. ServerInv
  BY DEF SiteInv
<1>2. CASE BreakOff(c)
  <2>1. conn[c].pc = "reading" /\ NoResponse(c)
    BY <1>2 DEF BreakOff, NoResponse
  <2>. QED
    BY <1>1, <2>1, BreakOffKeeps, DeviceIdle
<1>3. CASE Drain(c)
  BY <1>1, <1>3, DrainKeeps, DeviceIdle
<1>4. CASE \E r \in Requests : Connect(c, r)
  BY <1>1, <1>4, ConnectKeeps, DeviceIdle
<1>. QED
  BY <1>2, <1>3, <1>4 DEF ServerStep

LEMMA NextKeeps == SiteInv /\ [Next]_vars => SiteInv'
<1>. SUFFICES ASSUME SiteInv, [Next]_vars PROVE SiteInv'
  OBVIOUS
<1>1. installed \in {"none", "broken", "whole"}
  BY DEF SiteInv, DeviceInv
<1>2. CASE Boot \/ BootselHeld \/ StartApp
  BY <1>2, BootKeeps
<1>3. CASE Install \/ InstallCut
  BY <1>3, DownKeeps DEF Install, InstallCut
<1>4. CASE StartFails \/ TimerFires \/ PowerLoss
  BY <1>1, <1>4, DownKeeps DEF StartFails, TimerFires, PowerLoss, flash
<1>5. CASE \E c \in Clients : Serve(c)
  BY <1>5, ServeKeeps
<1>6. CASE Serving /\ (\E c \in Clients : ServerStep(c)) /\ UNCHANGED <<power, flash, memory, history>>
  BY <1>6, ServerStepKeeps
<1>7. CASE \E names \in SUBSET Speakers : EndScan(names)
  BY <1>7, EndScanKeeps
<1>8. CASE UNCHANGED vars
  <2>1. UNCHANGED <<conn, power, config, installed, timer, devices, scans, scanning, typed, pieces, found>>
    BY <1>8 DEF vars, flash, memory, history
  <2>2. ServerInv'
    BY <2>1 DEF SiteInv, ServerInv, Serving, Requests
  <2>3. DeviceInv'
    BY <2>1 DEF SiteInv, DeviceInv
  <2>4. SavedAsTyped' /\ ListedOnce'
    BY <2>1 DEF SiteInv, SavedAsTyped, ListedOnce, ToSet
  <2>. QED
    BY <2>2, <2>3, <2>4 DEF SiteInv
<1>. QED
  BY <1>2, <1>3, <1>4, <1>5, <1>6, <1>7, <1>8 DEF Next

(* The device and its sites, between any two steps. *)
THEOREM SiteInvariant == Spec => []SiteInv
BY InitSiteInv, NextKeeps, PTL DEF Spec

(* Every variable has its type; connections and scans end with the server. *)
THEOREM SiteTypes == Spec => []TypeOK
<1>1. SiteInv => TypeOK
  <2>. SUFFICES ASSUME SiteInv PROVE TypeOK
    OBVIOUS
  <2>1. \A c \in Clients :
          /\ conn[c].pc \in {"free", "reading", "draining", "silent"}
          /\ conn[c].pc # "free" => Serving
          /\ conn[c].pc = "draining" <=> conn[c].left > 0
    BY DEF SiteInv, ServerInv, Connections
  <2>3. installed \in {"none", "broken", "whole"} /\ {timer, scanning, pieces} \subseteq BOOLEAN
    BY DEF SiteInv, DeviceInv
  <2>4. ToSet(devices) \subseteq Speakers
    BY DEF SiteInv, DeviceInv, ToSet
  <2>. QED
    BY <2>1, <2>3, <2>4 DEF SiteInv, DeviceInv, TypeOK
<1>. QED
  BY <1>1, SiteInvariant, PTL

(* config.json holds what was typed last, unless a form came in pieces or is
   not ASCII (captive_portal.py:138-143, status.py:129-179). *)
THEOREM SavedAsTypedHolds == Spec => []SavedAsTyped
<1>1. SiteInv => SavedAsTyped
  BY DEF SiteInv
<1>. QED
  BY <1>1, SiteInvariant, PTL

(* However many scans overlap, what they found stays listed, and once
   (status.py:229-239). *)
THEOREM ListedOnceHolds == Spec => []ListedOnce
<1>1. SiteInv => ListedOnce
  BY DEF SiteInv
<1>. QED
  BY <1>1, SiteInvariant, PTL
=============================================================================
