------------------------------ MODULE NodeConfig ------------------------------
(***************************************************************************)
(* The settings of a v3 node: the copy in memory that the node works with, *)
(* and the one in flash (NVS) it starts from after a restart.              *)
(*                                                                         *)
(* A request changes the copy in memory at once and the one in flash key   *)
(* by key; the power may go between any two writes, and a write that fails *)
(* is only logged.  NVS itself is a library: writing a key is durable and  *)
(* atomic, erasing a namespace takes its keys one after the other, and a   *)
(* key longer than 15 characters is refused ("gateway_endpoint",           *)
(* "gateway_password"), so those two are never in flash.                   *)
(*                                                                         *)
(* loop() runs one request at a time.  The copy in memory of each setting  *)
(* goes by the name of its key.                                            *)
(***************************************************************************)
EXTENDS Naturals, Sequences

CONSTANTS
    Ssids, WiFiPasswords,  \* what may be typed for the Internet WiFi
    Networks,              \* pairs of the two that a WiFi in range accepts
    Addresses,             \* LoRa addresses
    ApPasswords,           \* passwords that validatePassword accepts
    Gateways,              \* gateway configurations that may be entered
    LongNames,             \* host names of more than 15 characters
    Absent                 \* a key that is not in flash

Blank == ""

ASSUME NetworksAssumption == Networks \subseteq Ssids \X (WiFiPasswords \cup {Blank})
ASSUME AddressesAssumption ==
    \A a \in Addresses : DOMAIN a = {"region", "community", "node"}

\* What handleApiGatewaySave and handleApiGatewayConfigSet accept.
Accepted(g) ==
    /\ g.gateway_type # "none" /\ g.gateway_ip # Blank /\ g.gateway_port # Blank
    /\ IF g.gateway_type = "core" THEN g.gateway_user # Blank /\ g.gw_pass # Blank
                                  ELSE g.gateway_endpoint # Blank

GatewaySettings == {"gateway_type", "gateway_ip", "gateway_port",
                    "gateway_endpoint", "gateway_user", "gw_pass"}

ASSUME GatewaysAssumption ==
    \A g \in Gateways : DOMAIN g = GatewaySettings /\ Accepted(g)

\* Nothing that is entered is taken for a missing key.
ASSUME AbsentAssumption ==
    /\ Absent \notin Ssids \cup WiFiPasswords \cup ApPasswords \cup {Blank}
    /\ \A a \in Addresses \cup Gateways : \A s \in DOMAIN a : a[s] # Absent

VARIABLES
    pc,         \* "off", "loop", "connecting" or "saving"
    ram,        \* the settings in memory
    nvs,        \* the keys in flash
    job,        \* the writes of the request that is saving
    control,    \* the address in controlPacket
    internet_connected,
    failed,     \* ghost: namespaces in which a write of the last save failed
    torn,       \* ghost: namespaces whose last save was cut by a power loss
    worked      \* ghost: pairs of WiFi credentials that have connected

vars == <<pc, ram, nvs, job, control, internet_connected, failed, torn, worked>>

Keys(namespace) ==
    CASE namespace = "wifi_config"    -> {"ssid", "wifi_password"}
      [] namespace = "lora_config"    -> {"region", "community", "node"}
      [] namespace = "ap_config"      -> {"ap_password"}
      [] namespace = "gateway_config" -> {"gateway_type", "gateway_ip", "gateway_port",
                                          "gateway_user", "gw_pass", "gateway_pass"}

Namespaces == {"wifi_config", "lora_config", "ap_config", "gateway_config"}
AllKeys == UNION {Keys(n) : n \in Namespaces}
Settings == (AllKeys \ {"gateway_pass"}) \cup {"gateway_endpoint"}

\* What the globals are initialised to, and what clearing sets them to.
Default == [s \in Settings |->
    CASE s = "region"              -> "10"
      [] s \in {"community", "node"} -> "1"
      [] s = "ap_password"         -> "radiodoge"
      [] s = "gateway_type"        -> "none"
      [] OTHER                     -> Blank]

Address(settings) ==
    [region |-> settings["region"], community |-> settings["community"],
     node |-> settings["node"]]

\* The settings with those of new in their places.
With(settings, new) ==
    [s \in Settings |-> IF s \in DOMAIN new THEN new[s] ELSE settings[s]]

Cleared(settings, S) ==
    [s \in Settings |-> IF s \in S THEN Default[s] ELSE settings[s]]

NoJob == [namespace |-> "none", writes |-> <<>>, then |-> Default, ok |-> TRUE]

\* One call of the library: the keys get the value, one after the other.
Write(keys, value) == [keys |-> keys, value |-> value]
Put(settings, key) == Write({key}, settings[key])
Erase(key) == Write({key}, Absent)
EraseAll(namespace) == Write(Keys(namespace), Absent)

---------------------------------------------------------------------------
(* Loading: which settings are found, and their values.                    *)

Has(n, key) == n[key] # Absent

\* Three numbers or none.
LoRaFound(n) == IF \A k \in Keys("lora_config") : Has(n, k)
                THEN Keys("lora_config") ELSE {}

\* The name is kept even when there is no password to it.
WiFiFound(n) ==
    (IF Has(n, "ssid") THEN {"ssid"} ELSE {})
      \cup (IF Has(n, "ssid") /\ Has(n, "wifi_password") THEN {"wifi_password"} ELSE {})

\* Read in this order up to the first of type, address and port that is missing
\* or does not fit its buffer; then what there is of user and password.
GatewayFound(n) ==
    LET ip   == Has(n, "gateway_type") /\ Has(n, "gateway_ip")
                  /\ n["gateway_ip"] \notin LongNames
        port == ip /\ Has(n, "gateway_port")
    IN  {s \in GatewaySettings :
            \/ s = "gateway_type" /\ Has(n, "gateway_type")
            \/ s = "gateway_ip" /\ ip
            \/ s = "gateway_port" /\ port
            \/ s = "gateway_user" /\ port /\ Has(n, "gateway_user")
            \/ s = "gw_pass" /\ port /\ (Has(n, "gw_pass") \/ Has(n, "gateway_pass"))}

Found(n) ==
    LoRaFound(n) \cup WiFiFound(n) \cup GatewayFound(n)
      \cup (IF Has(n, "ap_password") THEN {"ap_password"} ELSE {})

\* The settings after a start from n; "gateway_pass" is the key of old versions.
Restored(n) == [s \in Settings |->
    IF s \notin Found(n) THEN Default[s]
    ELSE IF s = "gw_pass" /\ ~Has(n, "gw_pass") THEN n["gateway_pass"]
    ELSE n[s]]

---------------------------------------------------------------------------
\* Flash is empty, or has a gateway saved by a version with the old key.
Init ==
    /\ pc = "off"
    /\ ram = Default
    /\ nvs \in {[k \in AllKeys |-> Absent]} \cup
               {[k \in AllKeys |-> IF k = "gateway_pass" THEN g.gw_pass
                                   ELSE IF k \in DOMAIN g \ {"gw_pass"} THEN g[k]
                                   ELSE Absent]
                : g \in {h \in Gateways : h.gateway_user # Blank /\ h.gw_pass # Blank}}
    /\ job = NoJob
    /\ control = Address(Default)
    /\ internet_connected = FALSE
    /\ failed = {} /\ torn = {} /\ worked = {}

(* A request: memory becomes now, the writes are made, memory becomes then. *)
Save(namespace, writes, now, then) ==
    /\ pc' = "saving"
    /\ ram' = now
    /\ job' = [namespace |-> namespace, writes |-> writes, then |-> then, ok |-> TRUE]
    /\ UNCHANGED <<nvs, failed, torn>>

\* nvs_open fails: nothing is written, and the request is answered as ever.
CannotOpen(namespace, then) ==
    /\ pc' = "loop"
    /\ ram' = then
    /\ failed' = failed \cup {namespace}
    /\ UNCHANGED <<nvs, job, torn>>

\* nvs_set_*, nvs_erase_key and nvs_erase_all, a key at a time.
WriteKey ==
    /\ pc = "saving" /\ job.writes # <<>>
    /\ LET w == Head(job.writes) IN \E key \in w.keys :
          /\ nvs' = [nvs EXCEPT ![key] = w.value]
          /\ job' = [job EXCEPT !.writes =
                (IF w.keys = {key} THEN <<>> ELSE <<Write(w.keys \ {key}, w.value)>>)
                   \o Tail(@)]
    /\ UNCHANGED <<pc, ram, control, internet_connected, failed, torn, worked>>

WriteFails ==
    /\ pc = "saving" /\ job.writes # <<>>
    /\ job' = [job EXCEPT !.writes = Tail(@), !.ok = FALSE]
    /\ failed' = failed \cup {job.namespace}
    /\ UNCHANGED <<pc, ram, nvs, control, internet_connected, torn, worked>>

Finish ==
    /\ pc = "saving" /\ job.writes = <<>>
    /\ pc' = "loop"
    /\ ram' = job.then
    /\ control' = IF job.namespace = "lora_config" THEN Address(job.then) ELSE control
    /\ IF job.ok THEN /\ failed' = failed \ {job.namespace}
                      /\ torn' = torn \ {job.namespace}
                 ELSE UNCHANGED <<failed, torn>>
    /\ job' = NoJob
    /\ UNCHANGED <<nvs, internet_connected, worked>>

---------------------------------------------------------------------------
(* LoRa address: ADDRESS_SET of the host, handleAddress, handleApiAddress. *)
SetAddress(a) ==
    /\ pc = "loop"
    /\ control' = Address(a)
    /\ LET new == With(ram, a) IN
          \/ Save("lora_config",
                  <<Put(a, "region"), Put(a, "community"), Put(a, "node")>>, new, new)
          \/ CannotOpen("lora_config", new)
    /\ UNCHANGED <<internet_connected, worked>>

\* Mutant: the address is reset in memory only.
LoRaKeptInFlash ==
    /\ pc = "loop"
    /\ Save("lora_config", <<>>, ram, Cleared(ram, Keys("lora_config")))
    /\ UNCHANGED <<control, internet_connected, worked>>

handleApiLoRaClear ==
    /\ pc = "loop"
    /\ \/ Save("lora_config", <<EraseAll("lora_config")>>,
               ram, Cleared(ram, Keys("lora_config")))
       \/ CannotOpen("lora_config", ram)
    /\ UNCHANGED <<control, internet_connected, worked>>

(* Password of the access point, which restartAP then makes known.         *)
handleApiPasswordChange(p) ==
    /\ pc = "loop"
    /\ LET new == [ram EXCEPT !["ap_password"] = p] IN
          \/ Save("ap_config", <<Put(new, "ap_password")>>, new, new)
          \/ CannotOpen("ap_config", new)
    /\ UNCHANGED <<control, internet_connected, worked>>

handleApiPasswordReset ==
    /\ pc = "loop"
    /\ \/ Save("ap_config", <<EraseAll("ap_config")>>,
               ram, Cleared(ram, {"ap_password"}))
       \/ CannotOpen("ap_config", ram)
    /\ UNCHANGED <<control, internet_connected, worked>>

---------------------------------------------------------------------------
(* Gateway.                                                                *)

\* Mutant: a password is only ever replaced.
WritesWithoutErase(g) ==
    <<Put(g, "gateway_type"), Put(g, "gateway_ip"), Put(g, "gateway_port")>>
      \o (IF g.gateway_user # Blank THEN <<Put(g, "gateway_user")>> ELSE <<>>)
      \o (IF g.gw_pass # Blank THEN <<Put(g, "gw_pass")>> ELSE <<>>)

\* The passwords of every version go first and the new one comes last; a blank
\* user or password is not written.  The endpoint's key is refused.
GatewayWrites(g) ==
    <<Erase("gw_pass"), Erase("gateway_pass"),
      Put(g, "gateway_type"), Put(g, "gateway_ip"), Put(g, "gateway_port")>>
      \o (IF g.gateway_user # Blank THEN <<Put(g, "gateway_user")>> ELSE <<>>)
      \o (IF g.gw_pass # Blank THEN <<Put(g, "gw_pass")>> ELSE <<>>)

\* handleApiGatewaySave and handleApiGatewayConfigSet.
SaveGateway(g) ==
    /\ pc = "loop"
    /\ \/ Save("gateway_config", GatewayWrites(g), ram, With(ram, g))
       \/ CannotOpen("gateway_config", With(ram, g))
    /\ UNCHANGED <<control, internet_connected, worked>>

\* Memory is reset even when flash is not.
handleApiGatewayClear ==
    /\ pc = "loop"
    /\ LET new == Cleared(ram, GatewaySettings) IN
          \/ Save("gateway_config", <<EraseAll("gateway_config")>>, ram, new)
          \/ CannotOpen("gateway_config", new)
    /\ UNCHANGED <<control, internet_connected, worked>>

---------------------------------------------------------------------------
(* Internet WiFi.                                                          *)

\* A blank name is taken over and not tried.
handleApiWifiConnect(ssid, password) ==
    /\ pc = "loop"
    /\ ram' = [ram EXCEPT !["ssid"] = ssid, !["wifi_password"] = password]
    /\ pc' = IF ssid = Blank THEN "loop" ELSE "connecting"
    /\ UNCHANGED <<nvs, job, control, internet_connected, failed, torn, worked>>

SaveWiFi ==
    \/ Save("wifi_config", <<Put(ram, "ssid"), Put(ram, "wifi_password")>>, ram, ram)
    \/ CannotOpen("wifi_config", ram)

\* connectToInternetWiFi, from a request or at the start.
Connected ==
    /\ pc = "connecting"
    /\ <<ram["ssid"], ram["wifi_password"]>> \in Networks
    /\ internet_connected' = TRUE
    /\ worked' = worked \cup {<<ram["ssid"], ram["wifi_password"]>>}
    /\ SaveWiFi
    /\ UNCHANGED control

\* Mutant: the credentials are stored before it is known if they are right.
SavedUntried ==
    /\ pc = "connecting"
    /\ internet_connected' = FALSE
    /\ SaveWiFi
    /\ UNCHANGED <<control, worked>>

NotConnected ==
    /\ pc = "connecting"
    /\ internet_connected' = FALSE
    /\ pc' = "loop"
    /\ UNCHANGED <<ram, nvs, job, control, failed, torn, worked>>

handleApiWifiDisconnect ==
    /\ pc = "loop"
    /\ internet_connected' = FALSE
    /\ UNCHANGED <<pc, ram, nvs, job, control, failed, torn, worked>>

\* The node stays connected; only the flag is reset.
handleApiWifiClear ==
    /\ pc = "loop"
    /\ \/ /\ Save("wifi_config", <<EraseAll("wifi_config")>>,
                  ram, Cleared(ram, Keys("wifi_config")))
          /\ internet_connected' = FALSE
       \/ CannotOpen("wifi_config", ram) /\ UNCHANGED internet_connected
    /\ UNCHANGED <<control, worked>>

---------------------------------------------------------------------------
(* The power goes at any time, and setup() runs when it is back.           *)
PowerLoss ==
    /\ pc # "off"
    /\ pc' = "off"
    /\ torn' = IF pc = "saving" THEN torn \cup {job.namespace} ELSE torn
    /\ ram' = Default
    /\ job' = NoJob
    /\ control' = Address(Default)
    /\ internet_connected' = FALSE
    /\ UNCHANGED <<nvs, failed, worked>>

\* Mutant: the control messages are made before the address is loaded.
BootControlFirst ==
    /\ pc = "off"
    /\ ram' = Restored(nvs)
    /\ pc' = IF ram'["ssid"] = Blank THEN "loop" ELSE "connecting"
    /\ UNCHANGED <<nvs, job, control, internet_connected, failed, torn, worked>>

setup ==
    /\ pc = "off"
    /\ ram' = Restored(nvs)
    /\ control' = Address(ram')
    /\ pc' = IF ram'["ssid"] = Blank THEN "loop" ELSE "connecting"
    /\ UNCHANGED <<nvs, job, internet_connected, failed, torn, worked>>

LoRaRequest == (\E a \in Addresses : SetAddress(a)) \/ handleApiLoRaClear
ApRequest == (\E p \in ApPasswords : handleApiPasswordChange(p)) \/ handleApiPasswordReset
GatewayRequest == (\E g \in Gateways : SaveGateway(g)) \/ handleApiGatewayClear
WiFiRequest ==
    \/ \E s \in Ssids \cup {Blank}, p \in WiFiPasswords : handleApiWifiConnect(s, p)
    \/ handleApiWifiDisconnect
    \/ handleApiWifiClear

Node == WriteKey \/ WriteFails \/ Finish \/ Connected \/ NotConnected \/ setup

Next ==
    \/ LoRaRequest \/ ApRequest \/ GatewayRequest \/ WiFiRequest
    \/ Node
    \/ PowerLoss

Spec == Init /\ [][Next]_vars

---------------------------------------------------------------------------
(* Properties.                                                             *)

\* What a setting may be: a default, or a value somebody entered.
Values(s) ==
    CASE s = "ssid"                     -> Ssids \cup {Blank}
      [] s = "wifi_password"            -> WiFiPasswords \cup {Blank}
      [] s \in Keys("lora_config")      -> {a[s] : a \in Addresses} \cup {Default[s]}
      [] s = "ap_password"              -> ApPasswords \cup {Default[s]}
      [] s \in GatewaySettings          -> {g[s] : g \in Gateways} \cup {Default[s]}

KeyValues(k) == IF k = "gateway_pass" THEN Values("gw_pass") ELSE Values(k)

\* Memory and flash hold values that were entered, each under its own key.
TypeOK ==
    /\ pc \in {"off", "loop", "connecting", "saving"}
    /\ DOMAIN ram = Settings /\ \A s \in Settings : ram[s] \in Values(s)
    /\ DOMAIN nvs = AllKeys /\ \A k \in AllKeys : nvs[k] \in KeyValues(k) \cup {Absent}
    /\ internet_connected \in BOOLEAN
    /\ failed \subseteq Namespaces /\ torn \subseteq Namespaces

\* README "Persistent Storage: All configurations survive reboots" (line 35):
\* whatever was saved, cleared and interrupted before, a restart now would
\* bring back the address, the access point's password and the gateway's type,
\* host, port and password that the node works with, unless a write to their
\* namespace failed or the host name does not fit the buffer it is read into.
Lasting(namespace, settings) ==
    CASE namespace = "lora_config" -> Keys("lora_config")
      [] namespace = "ap_config" -> {"ap_password"}
      [] namespace = "gateway_config" ->
            IF settings["gateway_ip"] \in LongNames THEN {}
            ELSE {"gateway_type", "gateway_ip", "gateway_port", "gw_pass"}

SettingsSurviveRestart ==
    pc = "loop" =>
        \A n \in {"lora_config", "ap_config", "gateway_config"} \ failed :
            \A s \in Lasting(n, ram) : Restored(nvs)[s] = ram[s]

\* A gateway's password is never sent to another gateway: wherever the power
\* went during a save, the node has a password only together with the type,
\* host and port it was entered with (saveGatewayCredentials erases passwords
\* first and writes the new one last).
PasswordGoesToItsGateway ==
    ram["gw_pass"] # Blank /\ "gateway_config" \notin failed
      => \E g \in Gateways :
            \A s \in {"gateway_type", "gateway_ip", "gateway_port", "gw_pass"} :
                g[s] = ram[s]

\* The credentials in flash have worked: a mistyped password does not replace
\* them, so that a restart finds the way back to the last network.
StoredWiFiWorked ==
    /\ \A k \in Keys("wifi_config") : Has(nvs, k)
    /\ "wifi_config" \notin failed \cup torn
    /\ ~(pc = "saving" /\ job.namespace = "wifi_config")
    => <<nvs["ssid"], nvs["wifi_password"]>> \in worked

\* The address a node pings and acknowledges with is the one it listens to,
\* through changes, resets and restarts.
ControlPacketCarriesAddress == pc \in {"loop", "connecting"} => control = Address(ram)

\* README "Gateway credentials saved and restored across reboots" (line 833).
GatewaySurvivesRestart ==
    pc = "loop" /\ "gateway_config" \notin failed
      => \A s \in GatewaySettings : Restored(nvs)[s] = ram[s]
=============================================================================
