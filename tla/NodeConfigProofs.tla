---------------------------- MODULE NodeConfigProofs ----------------------------
(***************************************************************************)
(* Proofs about NodeConfig: type correctness, that the node never has a    *)
(* gateway's password together with another gateway's address, that        *)
(* control messages carry the node's address, that settings survive a      *)
(* restart, and that the WiFi's credentials in flash have worked.          *)
(*                                                                         *)
(* PasswordGoesToItsGateway is about memory.  It holds because flash is as *)
(* good (Together): it has no password, or nothing but keys of one gateway *)
(* that was entered.  During a save flash passes through states in between,*)
(* so the invariant follows the writes one by one (Progress): after the    *)
(* second there is no password, and the last writes the one that belongs   *)
(* to what the others wrote.  An earlier failure does not matter once a    *)
(* save has run through.                                                   *)
(***************************************************************************)
EXTENDS NodeConfig, SequenceTheorems, TLAPS

---------------------------------------------------------------------------
(* Types.                                                                  *)

SettingsOK(f) == DOMAIN f = Settings /\ \A s \in Settings : f[s] \in Values(s)

FlashOK(n) ==
    DOMAIN n = AllKeys /\ \A k \in AllKeys : n[k] \in KeyValues(k) \cup {Absent}

\* Calls of the library that write what their keys may hold.
Writes ==
    {w \in [keys : SUBSET AllKeys,
            value : (UNION {KeyValues(k) : k \in AllKeys}) \cup {Absent}] :
        \A k \in w.keys : w.value \in KeyValues(k) \cup {Absent}}

JobOK ==
    /\ job = [namespace |-> job.namespace, writes |-> job.writes,
              then |-> job.then, ok |-> job.ok]
    /\ job.namespace \in Namespaces \cup {"none"}
    /\ job.writes \in Seq(Writes)
    /\ SettingsOK(job.then)
    /\ job.ok \in BOOLEAN
    /\ pc = "saving" => job.namespace \in Namespaces

\* Only Finish forgets that a write of the running save has failed.
FailureKnown == pc = "saving" /\ ~job.ok => job.namespace \in failed

---------------------------------------------------------------------------
(* The gateway.                                                            *)

GatewayKeys == Keys("gateway_config")
Belonging   == {"gateway_type", "gateway_ip", "gateway_port", "gw_pass"}

Belongs(settings) ==
    settings["gw_pass"] # Blank
      => \E g \in Gateways : \A s \in Belonging : g[s] = settings[s]

FlashOf(n, g) ==
    /\ \A s \in Belonging : n[s] \in {g[s], Absent}
    /\ n["gateway_pass"] \in {g["gw_pass"], Absent}

NoPassword(n) == n["gw_pass"] = Absent /\ n["gateway_pass"] = Absent

Together(n) == NoPassword(n) \/ \E g \in Gateways : FlashOf(n, g)

\* What flash has when the first i writes of a save of g have been made.
Written(g, i, n) ==
    /\ i >= 1 => \/ n["gw_pass"] = Absent
                 \/ i = Len(GatewayWrites(g)) /\ n["gw_pass"] = g["gw_pass"]
    /\ i >= 2 => n["gateway_pass"] = Absent
    /\ i >= 3 => n["gateway_type"] = g["gateway_type"]
    /\ i >= 4 => n["gateway_ip"] = g["gateway_ip"]
    /\ i >= 5 => n["gateway_port"] = g["gateway_port"]

\* The writes that are left of GatewayWrites(g) after the first i.
Left(g, i, writes) ==
    /\ Len(writes) = Len(GatewayWrites(g)) - i
    /\ \A j \in 1..Len(writes) : writes[j] = GatewayWrites(g)[i + j]

Saving(g) ==
    /\ \E i \in 0..Len(GatewayWrites(g)) : Left(g, i, job.writes) /\ Written(g, i, nvs)
    /\ \A s \in Belonging : job.then[s] = g[s]

\* The keys in K are still to be erased.
Erasing ==
    /\ \E K \in SUBSET GatewayKeys :
         /\ job.writes = IF K = {} THEN <<>> ELSE <<Write(K, Absent)>>
         /\ \A k \in GatewayKeys \ K : nvs[k] = Absent
    /\ job.then["gw_pass"] = Blank

Elsewhere ==
    /\ \A j \in 1..Len(job.writes) : job.writes[j].keys \cap GatewayKeys = {}
    /\ \A s \in Belonging : job.then[s] = ram[s]

Progress ==
    pc = "saving" =>
      IF job.namespace # "gateway_config" THEN Elsewhere
      ELSE job.ok => Erasing \/ \E g \in Gateways : Saving(g)

RamBelongs   == "gateway_config" \notin failed => Belongs(ram)
FlashBelongs == "gateway_config" \notin failed => Together(nvs)

Inv == TypeOK /\ JobOK /\ FailureKnown /\ Progress /\ RamBelongs /\ FlashBelongs

---------------------------------------------------------------------------
(* Lemmas about settings, keys and values.                                 *)

LEMMA KeyNames ==
    /\ Keys("wifi_config") = {"ssid", "wifi_password"}
    /\ Keys("lora_config") = {"region", "community", "node"}
    /\ Keys("ap_config") = {"ap_password"}
    /\ Keys("gateway_config") = {"gateway_type", "gateway_ip", "gateway_port",
                                 "gateway_user", "gw_pass", "gateway_pass"}
    /\ AllKeys = {"ssid", "wifi_password", "region", "community", "node",
                  "ap_password", "gateway_type", "gateway_ip", "gateway_port",
                  "gateway_user", "gw_pass", "gateway_pass"}
    /\ Settings = {"ssid", "wifi_password", "region", "community", "node",
                   "ap_password", "gateway_type", "gateway_ip", "gateway_port",
                   "gateway_user", "gw_pass", "gateway_endpoint"}
<1>1. /\ Keys("wifi_config") = {"ssid", "wifi_password"}
      /\ Keys("lora_config") = {"region", "community", "node"}
      /\ Keys("ap_config") = {"ap_password"}
      /\ Keys("gateway_config") = {"gateway_type", "gateway_ip", "gateway_port",
                                   "gateway_user", "gw_pass", "gateway_pass"}
  BY DEF Keys
<1>2. AllKeys = Keys("wifi_config") \cup Keys("lora_config") \cup Keys("ap_config")
                  \cup Keys("gateway_config")
  BY DEF AllKeys, Namespaces
<1>3. AllKeys = {"ssid", "wifi_password", "region", "community", "node",
                 "ap_password", "gateway_type", "gateway_ip", "gateway_port",
                 "gateway_user", "gw_pass", "gateway_pass"}
  BY <1>1, <1>2
<1>4. QED
  BY <1>1, <1>3 DEF Settings

LEMMA ValuesOf ==
    /\ Values("ssid") = Ssids \cup {Blank}
    /\ Values("wifi_password") = WiFiPasswords \cup {Blank}
    /\ \A s \in {"region", "community", "node"} :
          Values(s) = {a[s] : a \in Addresses} \cup {Default[s]}
    /\ Values("ap_password") = ApPasswords \cup {Default["ap_password"]}
    /\ \A s \in GatewaySettings : Values(s) = {g[s] : g \in Gateways} \cup {Default[s]}
  BY KeyNames DEF Values, GatewaySettings

LEMMA DefaultOK == SettingsOK(Default) /\ Default["gw_pass"] = Blank
<1>1. DOMAIN Default = Settings
  BY DEF Default
<1>2. /\ Default["ssid"] = Blank /\ Default["wifi_password"] = Blank
      /\ Default["gw_pass"] = Blank
  BY KeyNames DEF Default
<1>3. \A s \in Settings : Default[s] \in Values(s)
  BY <1>2, KeyNames, ValuesOf DEF GatewaySettings
<1>4. QED
  BY <1>1, <1>2, <1>3 DEF SettingsOK

\* The calls a request makes are among Writes.
LEMMA WriteTyped ==
    ASSUME NEW key \in AllKeys, NEW value \in KeyValues(key) \cup {Absent}
    PROVE  Write({key}, value) \in Writes
<1>1. value \in (UNION {KeyValues(k) : k \in AllKeys}) \cup {Absent}
  OBVIOUS
<1>2. QED
  BY <1>1 DEF Write, Writes

LEMMA EraseAllTyped ==
    ASSUME NEW K \in SUBSET AllKeys
    PROVE  Write(K, Absent) \in Writes
  BY DEF Write, Writes

LEMMA PutTyped ==
    ASSUME NEW f, NEW key \in AllKeys, key # "gateway_pass", f[key] \in Values(key)
    PROVE  Put(f, key) \in Writes
  BY WriteTyped DEF Put, KeyValues

LEMMA WithOK ==
    ASSUME NEW f, SettingsOK(f), NEW new, \A s \in DOMAIN new : new[s] \in Values(s)
    PROVE  SettingsOK(With(f, new))
  BY DEF SettingsOK, With

LEMMA ClearedOK ==
    ASSUME NEW f, SettingsOK(f), NEW S
    PROVE  SettingsOK(Cleared(f, S))
  BY DefaultOK DEF SettingsOK, Cleared

LEMMA AddressValues ==
    ASSUME NEW a \in Addresses
    PROVE  /\ DOMAIN a = {"region", "community", "node"}
           /\ \A s \in DOMAIN a : a[s] \in Values(s)
  BY AddressesAssumption, ValuesOf

LEMMA GatewayValues ==
    ASSUME NEW g \in Gateways
    PROVE  /\ DOMAIN g = GatewaySettings
           /\ \A s \in DOMAIN g : g[s] \in Values(s)
  BY GatewaysAssumption, ValuesOf

\* Where a setting found in flash comes from.
LEMMA FoundIsThere ==
    ASSUME NEW n, NEW s \in Found(n)
    PROVE  /\ s \in AllKeys \ {"gateway_pass"}
           /\ Has(n, s) \/ (s = "gw_pass" /\ Has(n, "gateway_pass"))
<1>1. CASE s \in LoRaFound(n)
  BY <1>1, KeyNames DEF LoRaFound
<1>2. CASE s \in WiFiFound(n)
  BY <1>2, KeyNames DEF WiFiFound
<1>3. CASE s \in GatewayFound(n)
  BY <1>3, KeyNames DEF GatewayFound
<1>4. CASE s = "ap_password" /\ Has(n, "ap_password")
  BY <1>4, KeyNames
<1>5. QED
  BY <1>1, <1>2, <1>3, <1>4 DEF Found

LEMMA RestoredOK ==
    ASSUME NEW n, FlashOK(n)
    PROVE  SettingsOK(Restored(n))
<1>1. DOMAIN Restored(n) = Settings
  BY DEF Restored
<1>2. ASSUME NEW s \in Settings
      PROVE  Restored(n)[s] \in Values(s)
  <2>1. CASE s \notin Found(n)
    BY <2>1, DefaultOK DEF Restored, SettingsOK
  <2>2. CASE s \in Found(n) /\ s = "gw_pass" /\ ~Has(n, "gw_pass")
    <3>1. Has(n, "gateway_pass")
      BY <2>2, FoundIsThere
    <3>2. n["gateway_pass"] \in Values("gw_pass")
      BY <3>1, KeyNames DEF FlashOK, Has, KeyValues
    <3>3. QED
      BY <2>2, <3>2 DEF Restored
  <2>3. CASE s \in Found(n) /\ ~(s = "gw_pass" /\ ~Has(n, "gw_pass"))
    <3>1. s \in AllKeys /\ s # "gateway_pass" /\ Has(n, s)
      BY <2>3, FoundIsThere
    <3>2. n[s] \in Values(s)
      BY <3>1 DEF FlashOK, Has, KeyValues
    <3>3. QED
      BY <2>3, <3>2 DEF Restored
  <2>4. QED
    BY <2>1, <2>2, <2>3
<1>3. QED
  BY <1>1, <1>2 DEF SettingsOK

\* A start from such a flash brings back no password without its gateway.
LEMMA RestoredBelongs ==
    ASSUME NEW n, Together(n)
    PROVE  Belongs(Restored(n))
<1> DEFINE r == Restored(n)
<1> SUFFICES ASSUME r["gw_pass"] # Blank
             PROVE  \E g \in Gateways : \A s \in Belonging : g[s] = r[s]
  BY DEF Belongs
<1>1. Belonging \subseteq Settings
  BY KeyNames DEF Belonging
<1>2. "gw_pass" \in Found(n)
  BY <1>1, DefaultOK DEF Restored, Belonging
<1>3. "gw_pass" \in GatewayFound(n)
  BY <1>2, KeyNames DEF Found, LoRaFound, WiFiFound
<1>4. /\ Has(n, "gateway_type") /\ Has(n, "gateway_ip") /\ Has(n, "gateway_port")
      /\ Has(n, "gw_pass") \/ Has(n, "gateway_pass")
      /\ {"gateway_type", "gateway_ip", "gateway_port"} \subseteq GatewayFound(n)
  BY <1>3 DEF GatewayFound, GatewaySettings
<1>5. PICK g \in Gateways : FlashOf(n, g)
  BY <1>4 DEF Together, NoPassword, Has
<1>6. \A s \in {"gateway_type", "gateway_ip", "gateway_port"} : r[s] = g[s]
  <2>1. \A s \in {"gateway_type", "gateway_ip", "gateway_port"} :
          s \in Found(n) /\ s \in Settings /\ n[s] = g[s]
    BY <1>1, <1>4, <1>5 DEF Found, FlashOf, Belonging, Has
  <2>2. QED
    BY <2>1 DEF Restored
<1>7. r["gw_pass"] = g["gw_pass"]
  <2>1. CASE Has(n, "gw_pass")
    <3>1. n["gw_pass"] = g["gw_pass"]
      BY <1>5, <2>1 DEF FlashOf, Belonging, Has
    <3>2. QED
      BY <1>1, <1>2, <2>1, <3>1 DEF Restored, Belonging
  <2>2. CASE ~Has(n, "gw_pass")
    <3>1. n["gateway_pass"] = g["gw_pass"]
      BY <1>4, <1>5, <2>2 DEF FlashOf, Has
    <3>2. QED
      BY <1>1, <1>2, <2>2, <3>1 DEF Restored, Belonging
  <2>3. QED
    BY <2>1, <2>2
<1>8. QED
  BY <1>6, <1>7 DEF Belonging

\* What the writes of a gateway are.
LEMMA WritesOfGateway ==
    ASSUME NEW g \in Gateways
    PROVE  LET W == GatewayWrites(g) IN
           /\ W \in Seq(Writes)
           /\ Len(W) \in 5..7
           /\ W[1] = Write({"gw_pass"}, Absent)
           /\ W[2] = Write({"gateway_pass"}, Absent)
           /\ W[3] = Write({"gateway_type"}, g["gateway_type"])
           /\ W[4] = Write({"gateway_ip"}, g["gateway_ip"])
           /\ W[5] = Write({"gateway_port"}, g["gateway_port"])
           /\ \A j \in 6..Len(W) :
                \/ W[j] = Write({"gateway_user"}, g["gateway_user"])
                \/ j = Len(W) /\ W[j] = Write({"gw_pass"}, g["gw_pass"])
           /\ g["gw_pass"] # Blank => W[Len(W)] = Write({"gw_pass"}, g["gw_pass"])
<1> DEFINE first == <<Erase("gw_pass"), Erase("gateway_pass"), Put(g, "gateway_type"),
                      Put(g, "gateway_ip"), Put(g, "gateway_port")>>
           user == IF g.gateway_user # Blank THEN <<Put(g, "gateway_user")>> ELSE <<>>
           pass == IF g.gw_pass # Blank THEN <<Put(g, "gw_pass")>> ELSE <<>>
<1>1. /\ Erase("gw_pass") \in Writes /\ Erase("gateway_pass") \in Writes
  BY WriteTyped, KeyNames DEF Erase
<1>2. \A s \in {"gateway_type", "gateway_ip", "gateway_port", "gateway_user", "gw_pass"} :
        Put(g, s) \in Writes
  BY GatewayValues, PutTyped, KeyNames DEF GatewaySettings
<1>3. first \in Seq(Writes) /\ Len(first) = 5
  BY <1>1, <1>2
<1>4a. user \in Seq(Writes) /\ Len(user) \in Nat /\ Len(user) <= 1
  BY <1>2
<1>4. Len(user) = 1 => user[1] = Put(g, "gateway_user")
  OBVIOUS
<1>4b. Len(user) = 0 \/ Len(user) = 1
  OBVIOUS
<1>5a. pass \in Seq(Writes) /\ Len(pass) \in Nat /\ Len(pass) <= 1
  BY <1>2
<1>5. Len(pass) = 1 => pass[1] = Put(g, "gw_pass")
  OBVIOUS
<1>5b. g["gw_pass"] # Blank => Len(pass) = 1
  OBVIOUS
<1>5c. Len(pass) = 0 \/ Len(pass) = 1
  OBVIOUS
<1>6. GatewayWrites(g) = (first \o user) \o pass
  BY DEF GatewayWrites
<1>7. /\ first[1] = Erase("gw_pass") /\ first[2] = Erase("gateway_pass")
      /\ first[3] = Put(g, "gateway_type") /\ first[4] = Put(g, "gateway_ip")
      /\ first[5] = Put(g, "gateway_port")
  OBVIOUS
<1> HIDE DEF first, user, pass
<1> DEFINE head == first \o user
           W    == head \o pass
<1>8a. /\ head \in Seq(Writes) /\ Len(head) = Len(first) + Len(user)
       /\ \A j \in 1..(Len(first) + Len(user)) :
           head[j] = IF j <= Len(first) THEN first[j] ELSE user[j - Len(first)]
  BY <1>3, <1>4a, ConcatProperties
<1> HIDE DEF head
<1>8. \A j \in 1..Len(head) :
        head[j] = IF j <= Len(first) THEN first[j] ELSE user[j - Len(first)]
  BY <1>8a
<1>9a. /\ W \in Seq(Writes) /\ Len(W) = Len(head) + Len(pass)
       /\ \A j \in 1..(Len(head) + Len(pass)) :
           W[j] = IF j <= Len(head) THEN head[j] ELSE pass[j - Len(head)]
  BY <1>5a, <1>8a, ConcatProperties
<1> HIDE DEF W
<1>9. \A j \in 1..Len(W) :
        W[j] = IF j <= Len(head) THEN head[j] ELSE pass[j - Len(head)]
  BY <1>9a
<1>10a. /\ Len(user) \in Nat /\ Len(user) <= 1
        /\ Len(pass) \in Nat /\ Len(pass) <= 1
        /\ Len(first) = 5
  BY <1>3, <1>4a, <1>5a
<1>15. Len(W) \in 5..7 /\ Len(head) = 5 + Len(user) /\ Len(W) = Len(head) + Len(pass)
  BY <1>8a, <1>9a, <1>10a
<1>10. \A j \in 1..5 : W[j] = first[j]
  BY <1>8, <1>9, <1>10a, <1>15
<1>11. Len(user) = 1 => W[6] = Put(g, "gateway_user")
  BY <1>4, <1>8, <1>9, <1>10a, <1>15
<1>11a. Len(pass) = 1 => W[Len(W)] = Put(g, "gw_pass")
  BY <1>5, <1>9, <1>10a, <1>15
<1>12. ASSUME NEW j \in 6..Len(W)
       PROVE  \/ W[j] = Put(g, "gateway_user")
              \/ j = Len(W) /\ W[j] = Put(g, "gw_pass")
  <2>1. CASE Len(user) = 1 /\ Len(pass) = 1
    <3>1. j = 6 \/ j = 7
      BY <1>15, <2>1
    <3>2. Len(W) = 7
      BY <1>15, <2>1
    <3>3. QED
      BY <1>11, <1>11a, <2>1, <3>1, <3>2
  <2>2. CASE Len(user) = 1 /\ Len(pass) = 0
    <3>1. j = 6
      BY <1>15, <2>2
    <3>2. QED
      BY <1>11, <2>2, <3>1
  <2>3. CASE Len(user) = 0 /\ Len(pass) = 1
    <3>1. j = Len(W)
      BY <1>15, <2>3
    <3>2. QED
      BY <1>11a, <2>3, <3>1
  <2>4. CASE Len(user) = 0 /\ Len(pass) = 0
    <3>1. Len(W) = 5
      BY <1>15, <2>4
    <3>2. QED
      BY <3>1
  <2>5. QED
    BY <1>4b, <1>5c, <2>1, <2>2, <2>3, <2>4
<1>13. g["gw_pass"] # Blank => W[Len(W)] = Put(g, "gw_pass")
  BY <1>5b, <1>11a
<1>14. GatewayWrites(g) = W
  BY <1>6 DEF W, head
<1>16. \A s : Erase(s) = Write({s}, Absent) /\ Put(g, s) = Write({s}, g[s])
  BY DEF Erase, Put
<1>17. /\ W[1] = Erase("gw_pass") /\ W[2] = Erase("gateway_pass")
       /\ W[3] = Put(g, "gateway_type") /\ W[4] = Put(g, "gateway_ip")
       /\ W[5] = Put(g, "gateway_port")
  BY <1>7, <1>10
<1>18. QED
  BY <1>9a, <1>12, <1>13, <1>14, <1>15, <1>16, <1>17

---------------------------------------------------------------------------
(* Lemmas about flash during a save.                                       *)

LEMMA BelongsSame ==
    ASSUME NEW f, NEW h, Belongs(f), \A s \in Belonging : f[s] = h[s]
    PROVE  Belongs(h)
  BY DEF Belongs, Belonging

LEMMA BelongingNames ==
    /\ Belonging \subseteq Settings /\ Belonging \subseteq GatewayKeys
    /\ Belonging \subseteq GatewaySettings
    /\ GatewayKeys \subseteq AllKeys /\ "gateway_pass" \in GatewayKeys
  BY KeyNames DEF Belonging, GatewayKeys, GatewaySettings

\* Erasing a key, or writing one that is not the gateway's, is harmless.
LEMMA ErasedTogether ==
    ASSUME NEW n, DOMAIN n = AllKeys, Together(n), NEW key \in AllKeys, NEW v,
           v = Absent \/ key \notin GatewayKeys
    PROVE  Together([n EXCEPT ![key] = v])
<1> DEFINE m == [n EXCEPT ![key] = v]
<1>1. \A k \in GatewayKeys : m[k] \in {n[k], Absent}
  BY BelongingNames
<1> SUFFICES Together(m)
  OBVIOUS
<1> HIDE DEF m
<1>2. \A k \in Belonging \cup {"gateway_pass", "gw_pass"} : m[k] \in {n[k], Absent}
  BY <1>1, BelongingNames DEF Belonging
<1>3. CASE NoPassword(n)
  BY <1>2, <1>3 DEF NoPassword, Together
<1>4. ASSUME NEW g \in Gateways, FlashOf(n, g)
      PROVE  Together(m)
  <2>1. FlashOf(m, g)
    BY <1>2, <1>4 DEF FlashOf
  <2>2. QED
    BY <2>1 DEF Together
<1>5. QED
  BY <1>3, <1>4 DEF Together

LEMMA WriteEqual ==
    ASSUME NEW a, NEW b, NEW c, NEW d, Write({a}, c) = Write({b}, d)
    PROVE  a = b /\ c = d
<1>1. Write({a}, c).keys = Write({b}, d).keys /\ Write({a}, c).value = Write({b}, d).value
  OBVIOUS
<1>2. {a} = {b} /\ c = d
  BY <1>1 DEF Write
<1>3. QED
  BY <1>2

\* The write that follows the first i writes of a save.
LEMMA NextWrite ==
    ASSUME NEW g \in Gateways, NEW i \in Nat, i < Len(GatewayWrites(g)),
           NEW n, DOMAIN n = AllKeys, Written(g, i, n),
           NEW key \in AllKeys, NEW v, GatewayWrites(g)[i + 1] = Write({key}, v)
    PROVE  LET m == [n EXCEPT ![key] = v] IN
           /\ Written(g, i + 1, m)
           /\ Together(n) => Together(m)
<1> DEFINE m == [n EXCEPT ![key] = v]
           W == GatewayWrites(g)
<1>1. \A s, u : W[i + 1] = Write({s}, u) => key = s /\ v = u
  BY WriteEqual
<1>2. /\ m[key] = v
      /\ \A k \in AllKeys \ {key} : m[k] = n[k]
  OBVIOUS
<1>3. {"gw_pass", "gateway_pass", "gateway_type", "gateway_ip", "gateway_port"}
        \subseteq AllKeys
  BY KeyNames
<1>4. Len(W) \in 5..7
  BY WritesOfGateway
<1>5. CASE i = 0
  <2>1. key = "gw_pass" /\ v = Absent
    <3>1. W[1] = Write({"gw_pass"}, Absent)
      BY WritesOfGateway
    <3>2. i + 1 = 1
      BY <1>5
    <3>3. W[i + 1] = Write({"gw_pass"}, Absent)
      BY <3>1, <3>2
    <3>4. QED
      BY <1>1, <3>3
  <2>2. m["gw_pass"] = Absent
    BY <1>2, <2>1
  <2>3. Written(g, i + 1, m)
    BY <1>5, <2>2 DEF Written
  <2>4. QED
    BY <2>1, <2>3, ErasedTogether
<1>6. CASE i = 1
  <2>1. key = "gateway_pass" /\ v = Absent
    <3>1. W[2] = Write({"gateway_pass"}, Absent)
      BY WritesOfGateway
    <3>2. i + 1 = 2
      BY <1>6
    <3>3. W[i + 1] = Write({"gateway_pass"}, Absent)
      BY <3>1, <3>2
    <3>4. QED
      BY <1>1, <3>3
  <2>2. m["gateway_pass"] = Absent /\ m["gw_pass"] = n["gw_pass"]
    BY <1>2, <1>3, <2>1
  <2>3. n["gw_pass"] = Absent
    BY <1>4, <1>6 DEF Written
  <2>4. Written(g, i + 1, m)
    BY <1>6, <2>2, <2>3 DEF Written
  <2>5. QED
    BY <2>1, <2>4, ErasedTogether
<1>7. CASE i >= 2
  <2>1. n["gw_pass"] = Absent /\ n["gateway_pass"] = Absent
    BY <1>4, <1>7 DEF Written
  <2>2. \/ i = 2 /\ key = "gateway_type" /\ v = g["gateway_type"]
        \/ i = 3 /\ key = "gateway_ip" /\ v = g["gateway_ip"]
        \/ i = 4 /\ key = "gateway_port" /\ v = g["gateway_port"]
        \/ i >= 5 /\ key = "gateway_user"
        \/ i >= 5 /\ i + 1 = Len(W) /\ key = "gw_pass" /\ v = g["gw_pass"]
    <3>1. CASE i = 2
      <4>1. W[3] = Write({"gateway_type"}, g["gateway_type"])
        BY WritesOfGateway
      <4>2. i + 1 = 3
        BY <3>1
      <4>3. W[i + 1] = Write({"gateway_type"}, g["gateway_type"])
        BY <4>1, <4>2
      <4>4. QED
        BY <1>1, <3>1, <4>3
    <3>2. CASE i = 3
      <4>1. W[4] = Write({"gateway_ip"}, g["gateway_ip"])
        BY WritesOfGateway
      <4>2. i + 1 = 4
        BY <3>2
      <4>3. W[i + 1] = Write({"gateway_ip"}, g["gateway_ip"])
        BY <4>1, <4>2
      <4>4. QED
        BY <1>1, <3>2, <4>3
    <3>3. CASE i = 4
      <4>1. W[5] = Write({"gateway_port"}, g["gateway_port"])
        BY WritesOfGateway
      <4>2. i + 1 = 5
        BY <3>3
      <4>3. W[i + 1] = Write({"gateway_port"}, g["gateway_port"])
        BY <4>1, <4>2
      <4>4. QED
        BY <1>1, <3>3, <4>3
    <3>4. CASE i >= 5
      <4>1. i + 1 \in 6..Len(W)
        BY <1>4, <3>4
      <4>2. \/ W[i + 1] = Write({"gateway_user"}, g["gateway_user"])
            \/ i + 1 = Len(W) /\ W[i + 1] = Write({"gw_pass"}, g["gw_pass"])
        BY <4>1, WritesOfGateway
      <4>3. QED
        BY <1>1, <3>4, <4>2
    <3>5. QED
      BY <1>7, <3>1, <3>2, <3>3, <3>4
  <2>3. CASE key # "gw_pass"
    <3>1. m["gw_pass"] = Absent /\ m["gateway_pass"] = Absent
      BY <1>2, <1>3, <2>1, <2>2, <2>3
    <3>2. /\ i + 1 >= 3 => m["gateway_type"] = g["gateway_type"]
          /\ i + 1 >= 4 => m["gateway_ip"] = g["gateway_ip"]
          /\ i + 1 >= 5 => m["gateway_port"] = g["gateway_port"]
      BY <1>2, <1>3, <2>2, <2>3 DEF Written
    <3>3. QED
      BY <3>1, <3>2 DEF Written, Together, NoPassword
  <2>4. CASE key = "gw_pass"
    <3>1. /\ i + 1 = Len(W) /\ m["gw_pass"] = g["gw_pass"]
          /\ m["gateway_pass"] = Absent
          /\ m["gateway_type"] = g["gateway_type"]
          /\ m["gateway_ip"] = g["gateway_ip"]
          /\ m["gateway_port"] = g["gateway_port"]
      BY <1>2, <1>3, <2>1, <2>2, <2>4 DEF Written
    <3>2. FlashOf(m, g)
      BY <3>1 DEF FlashOf, Belonging
    <3>3. Written(g, i + 1, m)
      BY <3>1 DEF Written
    <3>4. QED
      BY <3>2, <3>3 DEF Together
  <2>5. QED
    BY <2>3, <2>4
<1>8. QED
  BY <1>5, <1>6, <1>7

\* When all writes have been made, flash is of the gateway.
LEMMA AllWritten ==
    ASSUME NEW g \in Gateways, NEW n, NEW i \in Nat, i = Len(GatewayWrites(g)),
           Written(g, i, n)
    PROVE  Together(n)
<1>1. i \in 5..7
  BY WritesOfGateway
<1>2. i >= 1 /\ i >= 2 /\ i >= 3 /\ i >= 4 /\ i >= 5
  BY <1>1
<1>3. /\ n["gw_pass"] \in {g["gw_pass"], Absent} /\ n["gateway_pass"] = Absent
      /\ n["gateway_type"] = g["gateway_type"] /\ n["gateway_ip"] = g["gateway_ip"]
      /\ n["gateway_port"] = g["gateway_port"]
  BY <1>2 DEF Written
<1>4. FlashOf(n, g)
  BY <1>3 DEF FlashOf, Belonging
<1>5. QED
  BY <1>4 DEF Together

LEMMA HeadAndTail ==
    ASSUME NEW S, NEW writes \in Seq(S), writes # <<>>
    PROVE  /\ Head(writes) = writes[1] /\ Head(writes) \in S
           /\ Tail(writes) \in Seq(S) /\ Len(Tail(writes)) = Len(writes) - 1
           /\ \A j \in 1..Len(Tail(writes)) : Tail(writes)[j] = writes[j + 1]
           /\ Len(writes) \in Nat /\ Len(writes) >= 1
  BY HeadTailProperties, EmptySeq

LEMMA LeftAfterOne ==
    ASSUME NEW g \in Gateways, NEW i \in 0..Len(GatewayWrites(g)),
           NEW writes \in Seq(Writes), writes # <<>>, Left(g, i, writes)
    PROVE  /\ i < Len(GatewayWrites(g))
           /\ Head(writes) = GatewayWrites(g)[i + 1]
           /\ Left(g, i + 1, Tail(writes))
<1>1. Len(GatewayWrites(g)) \in Nat
  BY WritesOfGateway
<1>2. Len(writes) \in Nat /\ Len(writes) >= 1 /\ Head(writes) = writes[1]
  BY HeadAndTail
<1>3. i < Len(GatewayWrites(g)) /\ Head(writes) = GatewayWrites(g)[i + 1]
  BY <1>1, <1>2 DEF Left
<1>4. Len(Tail(writes)) = Len(writes) - 1
  BY HeadAndTail
<1>5. \A j \in 1..Len(Tail(writes)) : Tail(writes)[j] = GatewayWrites(g)[(i + 1) + j]
  <2> TAKE j \in 1..Len(Tail(writes))
  <2>1. Tail(writes)[j] = writes[j + 1]
    BY HeadAndTail
  <2>2. j + 1 \in 1..Len(writes)
    BY <1>2, <1>4
  <2>3. writes[j + 1] = GatewayWrites(g)[i + (j + 1)]
    BY <2>2 DEF Left
  <2>4. i + (j + 1) = (i + 1) + j
    BY <1>1
  <2>5. QED
    BY <2>1, <2>3, <2>4
<1>6. QED
  BY <1>1, <1>2, <1>3, <1>4, <1>5 DEF Left

---------------------------------------------------------------------------
(* The steps that start a request or end one without writing.              *)

LEMMA InitInv == ASSUME Init PROVE Inv
<1>2. FlashOK(nvs) /\ Together(nvs)
  <2>1. CASE nvs = [k \in AllKeys |-> Absent]
    <3>1. "gw_pass" \in AllKeys /\ "gateway_pass" \in AllKeys
      BY KeyNames
    <3>2. QED
      BY <2>1, <3>1 DEF FlashOK, Together, NoPassword
  <2>2. ASSUME NEW g \in Gateways,
               nvs = [k \in AllKeys |-> IF k = "gateway_pass" THEN g.gw_pass
                                        ELSE IF k \in DOMAIN g \ {"gw_pass"} THEN g[k]
                                        ELSE Absent]
        PROVE  FlashOK(nvs) /\ Together(nvs)
    <3>1. /\ nvs["gateway_pass"] = g["gw_pass"] /\ nvs["gw_pass"] = Absent
          /\ nvs["gateway_type"] = g["gateway_type"] /\ nvs["gateway_ip"] = g["gateway_ip"]
          /\ nvs["gateway_port"] = g["gateway_port"]
      BY <2>2, KeyNames, GatewayValues DEF GatewaySettings
    <3>2. Together(nvs)
      BY <3>1 DEF Together, FlashOf, Belonging
    <3>3. ASSUME NEW k \in AllKeys
          PROVE  nvs[k] \in KeyValues(k) \cup {Absent}
      <4>1. CASE k = "gateway_pass"
        BY <3>1, <4>1, GatewayValues DEF KeyValues, GatewaySettings
      <4>2. CASE k # "gateway_pass" /\ k \in DOMAIN g \ {"gw_pass"}
        BY <2>2, <4>2, GatewayValues DEF KeyValues
      <4>3. CASE k # "gateway_pass" /\ k \notin DOMAIN g \ {"gw_pass"}
        BY <2>2, <4>3
      <4>4. QED
        BY <4>1, <4>2, <4>3
    <3>4. QED
      BY <2>2, <3>2, <3>3 DEF FlashOK
  <2>3. QED
    BY <2>1, <2>2 DEF Init
<1>3. TypeOK
  BY <1>2, DefaultOK DEF Init, TypeOK, FlashOK, SettingsOK
<1>4. JobOK
  BY DefaultOK DEF Init, JobOK, NoJob
<1>5. FailureKnown /\ Progress
  BY DEF Init, FailureKnown, Progress
<1>6. RamBelongs /\ FlashBelongs
  BY <1>2, DefaultOK DEF Init, RamBelongs, FlashBelongs, Belongs
<1>7. QED
  BY <1>3, <1>4, <1>5, <1>6 DEF Inv

LEMMA SaveInv ==
    ASSUME Inv, NEW ns \in Namespaces, NEW writes \in Seq(Writes), NEW now, NEW then,
           Save(ns, writes, now, then), SettingsOK(now), SettingsOK(then),
           internet_connected' \in BOOLEAN,
           \A s \in Belonging : now[s] = ram[s],
           ns # "gateway_config" =>
             /\ \A j \in 1..Len(writes) : writes[j].keys \cap GatewayKeys = {}
             /\ \A s \in Belonging : then[s] = ram[s],
           ns = "gateway_config" =>
             \/ writes = <<EraseAll("gateway_config")>> /\ then["gw_pass"] = Blank
             \/ \E g \in Gateways : /\ writes = GatewayWrites(g)
                                    /\ \A s \in Belonging : then[s] = g[s]
    PROVE  Inv'
<1>1. /\ pc' = "saving" /\ ram' = now
      /\ job' = [namespace |-> ns, writes |-> writes, then |-> then, ok |-> TRUE]
      /\ nvs' = nvs /\ failed' = failed /\ torn' = torn
  BY DEF Save
<1>2. /\ job'.namespace = ns /\ job'.writes = writes /\ job'.then = then
      /\ job'.ok = TRUE
      /\ job' = [namespace |-> job'.namespace, writes |-> job'.writes,
                 then |-> job'.then, ok |-> job'.ok]
  BY <1>1
<1>3. TypeOK'
  BY <1>1 DEF Inv, TypeOK, SettingsOK
<1>4. JobOK'
  BY <1>2 DEF JobOK
<1>5. FailureKnown'
  BY <1>2 DEF FailureKnown
<1>6. Progress'
  <2>1. CASE ns # "gateway_config"
    <3>1. Elsewhere'
      BY <1>1, <1>2, <2>1 DEF Elsewhere
    <3>2. QED
      BY <1>2, <2>1, <3>1 DEF Progress
  <2>2. CASE ns = "gateway_config" /\ writes = <<EraseAll("gateway_config")>>
                                   /\ then["gw_pass"] = Blank
    <3>1. GatewayKeys # {}
      BY BelongingNames
    <3>2. Erasing'
      BY <1>2, <2>2, <3>1 DEF Erasing, EraseAll, GatewayKeys
    <3>3. QED
      BY <1>2, <2>2, <3>2 DEF Progress
  <2>3. ASSUME NEW g \in Gateways, ns = "gateway_config", writes = GatewayWrites(g),
               \A s \in Belonging : then[s] = g[s]
        PROVE  Progress'
    <3>1. Len(writes) \in 5..7
      BY <2>3, WritesOfGateway
    <3>2. Left(g, 0, writes)
      BY <2>3, <3>1 DEF Left
    <3>3. Written(g, 0, nvs')
      BY DEF Written
    <3>4. 0 \in 0..Len(GatewayWrites(g))
      BY <2>3, <3>1
    <3>5. Saving(g)'
      BY <1>2, <2>3, <3>2, <3>3, <3>4 DEF Saving
    <3>6. QED
      BY <1>2, <2>3, <3>5 DEF Progress
  <2>4. QED
    BY <2>1, <2>2, <2>3
<1>7. RamBelongs'
  BY <1>1, BelongsSame DEF Inv, RamBelongs
<1>8. FlashBelongs'
  BY <1>1 DEF Inv, FlashBelongs
<1>9. QED
  BY <1>3, <1>4, <1>5, <1>6, <1>7, <1>8 DEF Inv

LEMMA CannotOpenInv ==
    ASSUME Inv, NEW ns \in Namespaces, NEW then, CannotOpen(ns, then), SettingsOK(then),
           internet_connected' \in BOOLEAN,
           ns # "gateway_config" => \A s \in Belonging : then[s] = ram[s]
    PROVE  Inv'
<1>1. /\ pc' = "loop" /\ ram' = then /\ failed' = failed \cup {ns}
      /\ nvs' = nvs /\ job' = job /\ torn' = torn
  BY DEF CannotOpen
<1>2. TypeOK'
  BY <1>1 DEF Inv, TypeOK, SettingsOK
<1>3. JobOK'
  BY <1>1 DEF Inv, JobOK
<1>4. FailureKnown' /\ Progress'
  BY <1>1 DEF FailureKnown, Progress
<1>5. RamBelongs' /\ FlashBelongs'
  BY <1>1, BelongsSame DEF Inv, RamBelongs, FlashBelongs
<1>6. QED
  BY <1>2, <1>3, <1>4, <1>5 DEF Inv

\* A step that touches neither flash nor the gateway's settings.
LEMMA QuietInv ==
    ASSUME Inv, pc' \in {"off", "loop", "connecting"}, SettingsOK(ram'),
           \A s \in Belonging : ram'[s] = ram[s],
           internet_connected' \in BOOLEAN, UNCHANGED <<nvs, job, failed, torn>>
    PROVE  Inv'
<1>1. TypeOK'
  BY DEF Inv, TypeOK, SettingsOK
<1>2. JobOK'
  BY DEF Inv, JobOK
<1>3. FailureKnown' /\ Progress'
  BY DEF FailureKnown, Progress
<1>4. RamBelongs' /\ FlashBelongs'
  BY BelongsSame DEF Inv, RamBelongs, FlashBelongs
<1>5. QED
  BY <1>1, <1>2, <1>3, <1>4 DEF Inv

LEMMA RamOK == ASSUME TypeOK PROVE SettingsOK(ram)
  BY DEF TypeOK, SettingsOK

LEMMA LoRaInv == ASSUME Inv, LoRaRequest PROVE Inv'
<1>1. SettingsOK(ram) /\ internet_connected \in BOOLEAN
  BY RamOK DEF Inv, TypeOK
<1>2. \A s \in {"region", "community", "node"} :
        s \in AllKeys /\ s # "gateway_pass" /\ {s} \cap GatewayKeys = {} /\ s \notin Belonging
  BY KeyNames DEF GatewayKeys, Belonging
<1>3. ASSUME NEW a \in Addresses, SetAddress(a)
      PROVE  Inv'
  <2> DEFINE new == With(ram, a)
             writes == <<Put(a, "region"), Put(a, "community"), Put(a, "node")>>
  <2>1. SettingsOK(new)
    BY <1>1, AddressValues, WithOK
  <2>2. \A s \in Belonging : new[s] = ram[s]
    BY <1>2, AddressValues, BelongingNames DEF With
  <2>3. writes \in Seq(Writes)
    <3>1. \A s \in {"region", "community", "node"} : Put(a, s) \in Writes
      BY <1>2, AddressValues, PutTyped
    <3>2. QED
      BY <3>1
  <2>4. \A j \in 1..Len(writes) : writes[j].keys \cap GatewayKeys = {}
    BY <1>2 DEF Put, Write
  <2>5. "lora_config" \in Namespaces /\ internet_connected' \in BOOLEAN
    BY <1>1, <1>3 DEF Namespaces, SetAddress
  <2>6. Save("lora_config", writes, new, new) \/ CannotOpen("lora_config", new)
    BY <1>3 DEF SetAddress
  <2> HIDE DEF writes, new
  <2>7. QED
    BY <2>1, <2>2, <2>3, <2>4, <2>5, <2>6, SaveInv, CannotOpenInv
<1>4. ASSUME handleApiLoRaClear
      PROVE  Inv'
  <2> DEFINE new == Cleared(ram, Keys("lora_config"))
             writes == <<EraseAll("lora_config")>>
  <2>1. SettingsOK(new)
    BY <1>1, ClearedOK
  <2>2. \A s \in Belonging : new[s] = ram[s]
    BY <1>2, KeyNames, BelongingNames DEF Cleared
  <2>3. writes \in Seq(Writes)
    <3>1. Keys("lora_config") \in SUBSET AllKeys
      BY KeyNames
    <3>2. QED
      BY <3>1, EraseAllTyped DEF EraseAll
  <2>4. \A j \in 1..Len(writes) : writes[j].keys \cap GatewayKeys = {}
    BY KeyNames DEF EraseAll, Write, GatewayKeys
  <2>5. "lora_config" \in Namespaces /\ internet_connected' \in BOOLEAN
    BY <1>1, <1>4 DEF Namespaces, handleApiLoRaClear
  <2>6. Save("lora_config", writes, ram, new) \/ CannotOpen("lora_config", ram)
    BY <1>4 DEF handleApiLoRaClear
  <2> HIDE DEF writes, new
  <2>7. QED
    BY <1>1, <2>1, <2>2, <2>3, <2>4, <2>5, <2>6, SaveInv, CannotOpenInv
<1>5. QED
  BY <1>3, <1>4 DEF LoRaRequest

LEMMA ApInv == ASSUME Inv, ApRequest PROVE Inv'
<1>1. SettingsOK(ram) /\ internet_connected \in BOOLEAN
  BY RamOK DEF Inv, TypeOK
<1>2. "ap_password" \in AllKeys /\ "ap_password" \notin Belonging \cup GatewayKeys
  BY KeyNames DEF GatewayKeys, Belonging
<1>3. ASSUME NEW p \in ApPasswords, handleApiPasswordChange(p)
      PROVE  Inv'
  <2> DEFINE new == [ram EXCEPT !["ap_password"] = p]
             writes == <<Put(new, "ap_password")>>
  <2>1. SettingsOK(new) /\ new["ap_password"] \in Values("ap_password")
    BY <1>1, KeyNames, ValuesOf DEF SettingsOK
  <2>2. \A s \in Belonging : new[s] = ram[s]
    BY <1>1, <1>2, BelongingNames DEF SettingsOK
  <2>3. writes \in Seq(Writes)
    <3>1. Put(new, "ap_password") \in Writes
      BY <1>2, <2>1, PutTyped
    <3>2. QED
      BY <3>1
  <2>4. \A j \in 1..Len(writes) : writes[j].keys \cap GatewayKeys = {}
    BY <1>2 DEF Put, Write
  <2>5. "ap_config" \in Namespaces /\ internet_connected' \in BOOLEAN
    BY <1>1, <1>3 DEF Namespaces, handleApiPasswordChange
  <2>6. Save("ap_config", writes, new, new) \/ CannotOpen("ap_config", new)
    BY <1>3 DEF handleApiPasswordChange
  <2> HIDE DEF writes, new
  <2>7. QED
    BY <2>1, <2>2, <2>3, <2>4, <2>5, <2>6, SaveInv, CannotOpenInv
<1>4. ASSUME handleApiPasswordReset
      PROVE  Inv'
  <2> DEFINE new == Cleared(ram, {"ap_password"})
             writes == <<EraseAll("ap_config")>>
  <2>1. SettingsOK(new)
    BY <1>1, ClearedOK
  <2>2. \A s \in Belonging : new[s] = ram[s]
    BY <1>2, BelongingNames DEF Cleared
  <2>3. writes \in Seq(Writes)
    <3>1. Keys("ap_config") \in SUBSET AllKeys
      BY KeyNames
    <3>2. QED
      BY <3>1, EraseAllTyped DEF EraseAll
  <2>4. \A j \in 1..Len(writes) : writes[j].keys \cap GatewayKeys = {}
    BY KeyNames DEF EraseAll, Write, GatewayKeys
  <2>5. "ap_config" \in Namespaces /\ internet_connected' \in BOOLEAN
    BY <1>1, <1>4 DEF Namespaces, handleApiPasswordReset
  <2>6. Save("ap_config", writes, ram, new) \/ CannotOpen("ap_config", ram)
    BY <1>4 DEF handleApiPasswordReset
  <2> HIDE DEF writes, new
  <2>7. QED
    BY <1>1, <2>1, <2>2, <2>3, <2>4, <2>5, <2>6, SaveInv, CannotOpenInv
<1>5. QED
  BY <1>3, <1>4 DEF ApRequest

LEMMA GatewayInv == ASSUME Inv, GatewayRequest PROVE Inv'
<1>1. SettingsOK(ram) /\ internet_connected \in BOOLEAN
  BY RamOK DEF Inv, TypeOK
<1>2. "gateway_config" \in Namespaces
  BY DEF Namespaces
<1>3. ASSUME NEW g \in Gateways, SaveGateway(g)
      PROVE  Inv'
  <2> DEFINE new == With(ram, g)
  <2>1. SettingsOK(new)
    BY <1>1, GatewayValues, WithOK
  <2>2. \A s \in Belonging : new[s] = g[s]
    BY GatewayValues, BelongingNames DEF With
  <2>3. GatewayWrites(g) \in Seq(Writes)
    BY WritesOfGateway
  <2>4. internet_connected' \in BOOLEAN
    BY <1>1, <1>3 DEF SaveGateway
  <2>5. Save("gateway_config", GatewayWrites(g), ram, new) \/ CannotOpen("gateway_config", new)
    BY <1>3 DEF SaveGateway
  <2> HIDE DEF new
  <2>6. CASE Save("gateway_config", GatewayWrites(g), ram, new)
    BY <1>1, <1>2, <2>1, <2>2, <2>3, <2>4, <2>6, SaveInv
  <2>7. CASE CannotOpen("gateway_config", new)
    BY <1>2, <2>1, <2>4, <2>7, CannotOpenInv
  <2>8. QED
    BY <2>5, <2>6, <2>7
<1>4. ASSUME handleApiGatewayClear
      PROVE  Inv'
  <2> DEFINE new == Cleared(ram, GatewaySettings)
             writes == <<EraseAll("gateway_config")>>
  <2>1. SettingsOK(new)
    BY <1>1, ClearedOK
  <2>2. new["gw_pass"] = Blank
    BY DefaultOK, KeyNames DEF Cleared, GatewaySettings
  <2>3. writes \in Seq(Writes)
    <3>1. Keys("gateway_config") \in SUBSET AllKeys
      BY KeyNames
    <3>2. QED
      BY <3>1, EraseAllTyped DEF EraseAll
  <2>4. internet_connected' \in BOOLEAN
    BY <1>1, <1>4 DEF handleApiGatewayClear
  <2>5. Save("gateway_config", writes, ram, new) \/ CannotOpen("gateway_config", new)
    BY <1>4 DEF handleApiGatewayClear
  <2>6. writes = <<EraseAll("gateway_config")>>
    OBVIOUS
  <2> HIDE DEF writes, new
  <2>7. CASE Save("gateway_config", writes, ram, new)
    BY <1>1, <1>2, <2>1, <2>2, <2>3, <2>4, <2>6, <2>7, SaveInv
  <2>8. CASE CannotOpen("gateway_config", new)
    BY <1>2, <2>1, <2>4, <2>8, CannotOpenInv
  <2>9. QED
    BY <2>5, <2>7, <2>8
<1>5. QED
  BY <1>3, <1>4 DEF GatewayRequest

LEMMA WiFiNames ==
    /\ {"ssid", "wifi_password"} \subseteq AllKeys \cap Settings
    /\ {"ssid", "wifi_password"} \cap (Belonging \cup GatewayKeys) = {}
    /\ "gateway_pass" \notin {"ssid", "wifi_password"}
    /\ "wifi_config" \in Namespaces
<1>1. {"ssid", "wifi_password"} \subseteq AllKeys \cap Settings
  BY KeyNames
<1>2. {"ssid", "wifi_password"} \cap (Belonging \cup GatewayKeys) = {}
  BY KeyNames DEF GatewayKeys, Belonging
<1>3. QED
  BY <1>1, <1>2 DEF Namespaces

LEMMA WiFiInv == ASSUME Inv, WiFiRequest PROVE Inv'
<1>1. SettingsOK(ram) /\ internet_connected \in BOOLEAN
  BY RamOK DEF Inv, TypeOK
<1>2. ASSUME NEW ssid \in Ssids \cup {Blank}, NEW password \in WiFiPasswords,
             handleApiWifiConnect(ssid, password)
      PROVE  Inv'
  <2>1. ram' = [ram EXCEPT !["ssid"] = ssid, !["wifi_password"] = password]
    BY <1>2 DEF handleApiWifiConnect
  <2>2. SettingsOK(ram')
    BY <1>1, <2>1, ValuesOf DEF SettingsOK
  <2>3. \A s \in Belonging : ram'[s] = ram[s]
    BY <1>1, <2>1, WiFiNames, BelongingNames DEF SettingsOK
  <2>4. /\ pc' \in {"off", "loop", "connecting"} /\ internet_connected' \in BOOLEAN
        /\ UNCHANGED <<nvs, job, failed, torn>>
    BY <1>1, <1>2 DEF handleApiWifiConnect
  <2>5. QED
    BY <2>2, <2>3, <2>4, QuietInv
<1>3. ASSUME handleApiWifiDisconnect
      PROVE  Inv'
  BY <1>1, <1>3, QuietInv DEF handleApiWifiDisconnect
<1>4. ASSUME handleApiWifiClear
      PROVE  Inv'
  <2> DEFINE new == Cleared(ram, Keys("wifi_config"))
             writes == <<EraseAll("wifi_config")>>
  <2>1. SettingsOK(new)
    BY <1>1, ClearedOK
  <2>2. \A s \in Belonging : new[s] = ram[s]
    BY WiFiNames, KeyNames, BelongingNames DEF Cleared
  <2>3. writes \in Seq(Writes)
    <3>1. Keys("wifi_config") \in SUBSET AllKeys
      BY KeyNames
    <3>2. QED
      BY <3>1, EraseAllTyped DEF EraseAll
  <2>4. \A j \in 1..Len(writes) : writes[j].keys \cap GatewayKeys = {}
    BY KeyNames DEF EraseAll, Write, GatewayKeys
  <2>5. internet_connected' \in BOOLEAN
    BY <1>1, <1>4 DEF handleApiWifiClear
  <2>6. Save("wifi_config", writes, ram, new) \/ CannotOpen("wifi_config", ram)
    BY <1>4 DEF handleApiWifiClear
  <2> HIDE DEF writes, new
  <2>7. QED
    BY <1>1, <2>1, <2>2, <2>3, <2>4, <2>5, <2>6, WiFiNames, SaveInv, CannotOpenInv
<1>5. QED
  BY <1>2, <1>3, <1>4 DEF WiFiRequest

LEMMA ConnectedInv == ASSUME Inv, Connected PROVE Inv'
<1> DEFINE writes == <<Put(ram, "ssid"), Put(ram, "wifi_password")>>
<1>1. SettingsOK(ram) /\ internet_connected' \in BOOLEAN
  BY RamOK DEF Inv, Connected
<1>2. writes \in Seq(Writes)
  <2>1. \A s \in {"ssid", "wifi_password"} : Put(ram, s) \in Writes
    BY <1>1, WiFiNames, PutTyped DEF SettingsOK
  <2>2. QED
    BY <2>1
<1>3. \A j \in 1..Len(writes) : writes[j].keys \cap GatewayKeys = {}
  BY WiFiNames DEF Put, Write
<1>4. Save("wifi_config", writes, ram, ram) \/ CannotOpen("wifi_config", ram)
  BY DEF Connected, SaveWiFi
<1> HIDE DEF writes
<1>5. QED
  BY <1>1, <1>2, <1>3, <1>4, WiFiNames, SaveInv, CannotOpenInv

LEMMA NotConnectedInv == ASSUME Inv, NotConnected PROVE Inv'
<1>1. SettingsOK(ram)
  BY RamOK DEF Inv
<1>2. QED
  BY <1>1, QuietInv DEF NotConnected

\* A step that replaces memory by settings that belong together.
LEMMA LoadInv ==
    ASSUME Inv, pc' \in {"off", "loop", "connecting"}, SettingsOK(ram'), Belongs(ram'),
           JobOK', internet_connected' \in BOOLEAN, torn' \subseteq Namespaces,
           UNCHANGED <<nvs, failed>>
    PROVE  Inv'
<1>1. TypeOK'
  BY DEF Inv, TypeOK, SettingsOK
<1>2. FailureKnown' /\ Progress'
  BY DEF FailureKnown, Progress
<1>3. RamBelongs' /\ FlashBelongs'
  BY DEF Inv, RamBelongs, FlashBelongs
<1>4. QED
  BY <1>1, <1>2, <1>3 DEF Inv

LEMMA PowerLossInv == ASSUME Inv, PowerLoss PROVE Inv'
<1>1. /\ pc' = "off" /\ ram' = Default /\ job' = NoJob
      /\ internet_connected' = FALSE /\ UNCHANGED <<nvs, failed>>
  BY DEF PowerLoss
<1>2. torn' \subseteq Namespaces
  <2>1. pc = "saving" => job.namespace \in Namespaces
    BY DEF Inv, JobOK
  <2>2. QED
    BY <2>1 DEF Inv, TypeOK, PowerLoss
<1>3. JobOK'
  BY <1>1, DefaultOK DEF JobOK, NoJob
<1>4. Belongs(ram') /\ SettingsOK(ram')
  BY <1>1, DefaultOK DEF Belongs
<1>5. QED
  BY <1>1, <1>2, <1>3, <1>4, LoadInv

LEMMA setupInv == ASSUME Inv, setup PROVE Inv'
<1>1. /\ ram' = Restored(nvs) /\ pc' \in {"off", "loop", "connecting"}
      /\ UNCHANGED <<nvs, job, internet_connected, failed, torn>>
  BY DEF setup
<1>2. FlashOK(nvs)
  BY DEF Inv, TypeOK, FlashOK
<1>3. SettingsOK(ram')
  BY <1>1, <1>2, RestoredOK
<1>4. JobOK'
  BY <1>1 DEF Inv, JobOK
<1>5. TypeOK'
  BY <1>1, <1>3 DEF Inv, TypeOK, SettingsOK
<1>6. FailureKnown' /\ Progress'
  BY <1>1 DEF FailureKnown, Progress
<1>7. RamBelongs' /\ FlashBelongs'
  BY <1>1, RestoredBelongs DEF Inv, RamBelongs, FlashBelongs
<1>8. QED
  BY <1>4, <1>5, <1>6, <1>7 DEF Inv

---------------------------------------------------------------------------
(* The steps of a save.                                                    *)

\* What becomes of the writes when one key has been written.
LEMMA JobAfterKey ==
    ASSUME Inv, pc = "saving", job.writes # <<>>,
           NEW key \in Head(job.writes).keys,
           job' = [job EXCEPT !.writes =
                (IF Head(job.writes).keys = {key} THEN <<>>
                 ELSE <<Write(Head(job.writes).keys \ {key}, Head(job.writes).value)>>)
                   \o Tail(@)]
    PROVE  LET w == Head(job.writes) IN
           /\ job' = [namespace |-> job'.namespace, writes |-> job'.writes,
                      then |-> job'.then, ok |-> job'.ok]
           /\ job'.namespace = job.namespace /\ job'.then = job.then /\ job'.ok = job.ok
           /\ job'.writes \in Seq(Writes)
           /\ w.keys = {key} => job'.writes = Tail(job.writes)
           /\ w.keys # {key} =>
                job'.writes = <<Write(w.keys \ {key}, w.value)>> \o Tail(job.writes)
           /\ w \in Writes /\ key \in AllKeys /\ w.value \in KeyValues(key) \cup {Absent}
<1> DEFINE w == Head(job.writes)
           rest == Write(w.keys \ {key}, w.value)
<1>1. /\ job = [namespace |-> job.namespace, writes |-> job.writes,
                then |-> job.then, ok |-> job.ok]
      /\ job.writes \in Seq(Writes)
  BY DEF Inv, JobOK
<1>2. w \in Writes /\ Tail(job.writes) \in Seq(Writes)
  BY <1>1, HeadAndTail
<1>3. key \in AllKeys /\ w.value \in KeyValues(key) \cup {Absent}
  BY <1>2 DEF Writes
<1>4. rest \in Writes
  BY <1>2 DEF Writes, Write
<1>5. /\ job' = [namespace |-> job'.namespace, writes |-> job'.writes,
                 then |-> job'.then, ok |-> job'.ok]
      /\ job'.namespace = job.namespace /\ job'.then = job.then /\ job'.ok = job.ok
      /\ job'.writes = (IF w.keys = {key} THEN <<>> ELSE <<rest>>) \o Tail(job.writes)
  BY <1>1
<1>6. w.keys = {key} => job'.writes = Tail(job.writes)
  BY <1>2, <1>5, ConcatEmptySeq
<1>7. w.keys # {key} => job'.writes = <<rest>> \o Tail(job.writes)
  BY <1>5
<1>8. <<rest>> \in Seq(Writes)
  BY <1>4
<1> HIDE DEF w, rest
<1>9. job'.writes \in Seq(Writes)
  <2>1. CASE w.keys = {key}
    BY <1>2, <1>6, <2>1
  <2>2. CASE w.keys # {key}
    BY <1>2, <1>7, <1>8, <2>2, ConcatProperties
  <2>3. QED
    BY <2>1, <2>2
<1>10. QED
  BY <1>2, <1>3, <1>5, <1>6, <1>7, <1>9 DEF w, rest

\* Each write of a gateway is of one key.
LEMMA OneKeyEach ==
    ASSUME NEW g \in Gateways, NEW i \in Nat, i < Len(GatewayWrites(g))
    PROVE  \E key \in GatewayKeys : \E v : GatewayWrites(g)[i + 1] = Write({key}, v)
<1> DEFINE W == GatewayWrites(g)
<1> HIDE DEF W
<1>1. Len(W) \in 5..7
  BY WritesOfGateway DEF W
<1>2. i + 1 \in 1..Len(W)
  BY <1>1 DEF W
<1>3. \/ i + 1 = 1 \/ i + 1 = 2 \/ i + 1 = 3 \/ i + 1 = 4 \/ i + 1 = 5
      \/ i + 1 \in 6..Len(W)
  BY <1>1, <1>2
<1>4. \/ W[i + 1] = Write({"gw_pass"}, Absent)
      \/ W[i + 1] = Write({"gateway_pass"}, Absent)
      \/ W[i + 1] = Write({"gateway_type"}, g["gateway_type"])
      \/ W[i + 1] = Write({"gateway_ip"}, g["gateway_ip"])
      \/ W[i + 1] = Write({"gateway_port"}, g["gateway_port"])
      \/ W[i + 1] = Write({"gateway_user"}, g["gateway_user"])
      \/ W[i + 1] = Write({"gw_pass"}, g["gw_pass"])
  <2>1. /\ W[1] = Write({"gw_pass"}, Absent)
        /\ W[2] = Write({"gateway_pass"}, Absent)
        /\ W[3] = Write({"gateway_type"}, g["gateway_type"])
        /\ W[4] = Write({"gateway_ip"}, g["gateway_ip"])
        /\ W[5] = Write({"gateway_port"}, g["gateway_port"])
        /\ \A j \in 6..Len(W) : \/ W[j] = Write({"gateway_user"}, g["gateway_user"])
                                \/ W[j] = Write({"gw_pass"}, g["gw_pass"])
    BY WritesOfGateway DEF W
  <2>2. QED
    BY <1>3, <2>1
<1>5. {"gw_pass", "gateway_pass", "gateway_type", "gateway_ip", "gateway_port",
       "gateway_user"} \subseteq GatewayKeys
  BY KeyNames DEF GatewayKeys
<1>6. QED
  BY <1>4, <1>5 DEF W

LEMMA WriteKeyInv == ASSUME Inv, WriteKey PROVE Inv'
<1> DEFINE w == Head(job.writes)
<1>1. /\ pc = "saving" /\ pc' = "saving" /\ job.writes # <<>>
      /\ UNCHANGED <<ram, internet_connected, failed, torn>>
  BY DEF WriteKey
<1>2. PICK key \in w.keys :
        /\ nvs' = [nvs EXCEPT ![key] = w.value]
        /\ job' = [job EXCEPT !.writes =
              (IF w.keys = {key} THEN <<>> ELSE <<Write(w.keys \ {key}, w.value)>>)
                 \o Tail(@)]
  BY DEF WriteKey
<1>3. /\ job' = [namespace |-> job'.namespace, writes |-> job'.writes,
                 then |-> job'.then, ok |-> job'.ok]
      /\ job'.namespace = job.namespace /\ job'.then = job.then /\ job'.ok = job.ok
      /\ job'.writes \in Seq(Writes)
      /\ w.keys = {key} => job'.writes = Tail(job.writes)
      /\ w.keys # {key} => job'.writes = <<Write(w.keys \ {key}, w.value)>> \o Tail(job.writes)
      /\ w \in Writes /\ key \in AllKeys /\ w.value \in KeyValues(key) \cup {Absent}
  BY <1>1, <1>2, JobAfterKey
<1>4. /\ DOMAIN nvs = AllKeys /\ job.writes \in Seq(Writes)
      /\ job.namespace \in Namespaces /\ SettingsOK(job.then) /\ job.ok \in BOOLEAN
  BY <1>1 DEF Inv, TypeOK, JobOK
<1>5. /\ w = job.writes[1] /\ Len(job.writes) \in Nat /\ Len(job.writes) >= 1
      /\ Tail(job.writes) \in Seq(Writes) /\ Len(Tail(job.writes)) = Len(job.writes) - 1
      /\ \A j \in 1..Len(Tail(job.writes)) : Tail(job.writes)[j] = job.writes[j + 1]
  BY <1>1, <1>4, HeadAndTail
<1> HIDE DEF w
<1>6. TypeOK'
  <2>1. FlashOK(nvs')
    BY <1>2, <1>3 DEF Inv, TypeOK, FlashOK
  <2>2. QED
    BY <1>1, <2>1 DEF Inv, TypeOK, FlashOK
<1>7. JobOK'
  BY <1>3, <1>4 DEF JobOK
<1>8. FailureKnown'
  BY <1>1, <1>3 DEF Inv, FailureKnown
<1>9. CASE job.namespace # "gateway_config"
  <2>1. Elsewhere
    BY <1>1, <1>9 DEF Inv, Progress
  <2>2. w.keys \cap GatewayKeys = {}
    BY <1>5, <2>1 DEF Elsewhere
  <2>3. \A j \in 1..Len(Tail(job.writes)) : Tail(job.writes)[j].keys \cap GatewayKeys = {}
    <3> TAKE j \in 1..Len(Tail(job.writes))
    <3>1. j + 1 \in 1..Len(job.writes)
      BY <1>5
    <3>2. QED
      BY <1>5, <2>1, <3>1 DEF Elsewhere
  <2>4. \A j \in 1..Len(job'.writes) : job'.writes[j].keys \cap GatewayKeys = {}
    <3>1. CASE w.keys = {key}
      BY <1>3, <2>3, <3>1
    <3>2. CASE w.keys # {key}
      <4> DEFINE rest == Write(w.keys \ {key}, w.value)
      <4>1. rest.keys \cap GatewayKeys = {}
        BY <2>2 DEF Write
      <4>2. rest \in Writes
        BY <1>3 DEF Writes, Write
      <4>3. <<rest>> \in Seq(Writes) /\ Len(<<rest>>) = 1 /\ <<rest>>[1] = rest
        BY <4>2
      <4>4. job'.writes = <<rest>> \o Tail(job.writes)
        BY <1>3, <3>2
      <4> HIDE DEF rest
      <4> DEFINE front == <<rest>>
      <4>5. front \in Seq(Writes) /\ Len(front) = 1 /\ front[1] = rest
        BY <4>3
      <4> HIDE DEF front
      <4>6. /\ Len(job'.writes) = 1 + Len(Tail(job.writes))
            /\ \A j \in 1..(1 + Len(Tail(job.writes))) :
                 job'.writes[j] = IF j <= 1 THEN front[j] ELSE Tail(job.writes)[j - 1]
        BY <1>5, <4>4, <4>5, ConcatProperties DEF front
      <4>7. ASSUME NEW j \in 1..Len(job'.writes)
            PROVE  job'.writes[j].keys \cap GatewayKeys = {}
        <5>1. Len(Tail(job.writes)) \in Nat
          BY <1>5
        <5>2. CASE j = 1
          BY <4>1, <4>5, <4>6, <5>1, <5>2
        <5>3. CASE j # 1
          <6>1. j - 1 \in 1..Len(Tail(job.writes)) /\ ~(j <= 1)
            BY <4>6, <5>1, <5>3
          <6>2. job'.writes[j] = Tail(job.writes)[j - 1]
            BY <4>6, <5>1, <6>1
          <6>3. QED
            BY <2>3, <6>1, <6>2
        <5>4. QED
          BY <5>2, <5>3
      <4>8. QED
        BY <4>7
    <3>3. QED
      BY <3>1, <3>2
  <2>5. Progress'
    BY <1>1, <1>3, <1>9, <2>1, <2>4 DEF Progress, Elsewhere
  <2>6. FlashBelongs'
    BY <1>1, <1>2, <1>3, <1>4, <2>2, ErasedTogether DEF Inv, FlashBelongs
  <2>7. RamBelongs'
    BY <1>1 DEF Inv, RamBelongs
  <2>8. QED
    BY <1>6, <1>7, <1>8, <2>5, <2>6, <2>7 DEF Inv
<1>10. CASE job.namespace = "gateway_config" /\ ~job.ok
  <2>1. "gateway_config" \in failed
    BY <1>1, <1>10 DEF Inv, FailureKnown
  <2>2. QED
    BY <1>1, <1>3, <1>6, <1>7, <1>8, <1>10, <2>1
    DEF Inv, Progress, RamBelongs, FlashBelongs
<1>11. CASE job.namespace = "gateway_config" /\ job.ok /\ Erasing
  <2>1. PICK K \in SUBSET GatewayKeys :
          /\ job.writes = <<Write(K, Absent)>>
          /\ \A k \in GatewayKeys \ K : nvs[k] = Absent
    BY <1>1, <1>11 DEF Erasing
  <2>2. w.keys = K /\ w.value = Absent /\ Tail(job.writes) = <<>>
    BY <2>1 DEF w, Write
  <2>3. job'.writes = IF K \ {key} = {} THEN <<>> ELSE <<Write(K \ {key}, Absent)>>
    <3>1. CASE w.keys = {key}
      BY <1>3, <2>2, <3>1
    <3>2. CASE w.keys # {key}
      <4>1. K \ {key} # {}
        BY <1>2, <2>2, <3>2
      <4>2. Write(K \ {key}, Absent) \in Writes
        BY <2>1, BelongingNames, EraseAllTyped
      <4>3. <<Write(K \ {key}, Absent)>> \in Seq(Writes)
        BY <4>2
      <4>4. <<Write(K \ {key}, Absent)>> \o <<>> = <<Write(K \ {key}, Absent)>>
        BY <4>3, ConcatEmptySeq
      <4>5. QED
        BY <1>3, <2>2, <3>2, <4>1, <4>4
    <3>3. QED
      BY <3>1, <3>2
  <2>4. \A k \in GatewayKeys \ (K \ {key}) : nvs'[k] = Absent
    BY <1>2, <1>4, <2>1, <2>2, BelongingNames
  <2>5. K \ {key} \in SUBSET GatewayKeys /\ job'.then["gw_pass"] = Blank
    BY <1>3, <1>11, <2>1 DEF Erasing
  <2>6. Erasing'
    BY <2>3, <2>4, <2>5 DEF Erasing
  <2>7. Progress'
    BY <1>3, <1>11, <2>6 DEF Progress
  <2>8. FlashBelongs'
    BY <1>1, <1>2, <1>3, <1>4, <2>2, ErasedTogether DEF Inv, FlashBelongs
  <2>9. RamBelongs'
    BY <1>1 DEF Inv, RamBelongs
  <2>10. QED
    BY <1>6, <1>7, <1>8, <2>7, <2>8, <2>9 DEF Inv
<1>12. ASSUME NEW g \in Gateways, job.namespace = "gateway_config", Saving(g)
       PROVE  Inv'
  <2>1. PICK i \in 0..Len(GatewayWrites(g)) : Left(g, i, job.writes) /\ Written(g, i, nvs)
    BY <1>12 DEF Saving
  <2>2. /\ i < Len(GatewayWrites(g)) /\ w = GatewayWrites(g)[i + 1]
        /\ Left(g, i + 1, Tail(job.writes))
    BY <1>1, <1>4, <2>1, LeftAfterOne DEF w
  <2>3. i \in Nat /\ i + 1 \in 0..Len(GatewayWrites(g))
    BY <2>1, <2>2, WritesOfGateway
  <2>4. PICK k \in GatewayKeys : \E v : w = Write({k}, v)
    BY <2>2, <2>3, OneKeyEach
  <2>5. w.keys = {key} /\ w = Write({key}, w.value)
    BY <1>2, <2>4 DEF Write
  <2>6. /\ Written(g, i + 1, nvs')
        /\ Together(nvs) => Together(nvs')
    BY <1>2, <1>3, <1>4, <2>1, <2>2, <2>3, <2>5, NextWrite
  <2>7. Left(g, i + 1, job'.writes)
    BY <1>3, <2>2, <2>5
  <2>8. Saving(g)'
    BY <1>3, <1>12, <2>3, <2>6, <2>7 DEF Saving
  <2>9. Progress'
    BY <1>3, <1>12, <2>8 DEF Progress
  <2>10. RamBelongs' /\ FlashBelongs'
    BY <1>1, <2>6 DEF Inv, RamBelongs, FlashBelongs
  <2>11. QED
    BY <1>6, <1>7, <1>8, <2>9, <2>10 DEF Inv
<1>13. QED
  BY <1>1, <1>9, <1>10, <1>11, <1>12 DEF Inv, Progress

LEMMA WriteFailsInv == ASSUME Inv, WriteFails PROVE Inv'
<1>1. /\ pc = "saving" /\ pc' = "saving" /\ job.writes # <<>>
      /\ job' = [job EXCEPT !.writes = Tail(@), !.ok = FALSE]
      /\ failed' = failed \cup {job.namespace}
      /\ UNCHANGED <<ram, nvs, internet_connected, torn>>
  BY DEF WriteFails
<1>2. /\ job = [namespace |-> job.namespace, writes |-> job.writes,
                then |-> job.then, ok |-> job.ok]
      /\ job.namespace \in Namespaces /\ job.writes \in Seq(Writes)
      /\ SettingsOK(job.then)
  BY <1>1 DEF Inv, JobOK
<1>3. /\ job' = [namespace |-> job'.namespace, writes |-> job'.writes,
                 then |-> job'.then, ok |-> job'.ok]
      /\ job'.namespace = job.namespace /\ job'.then = job.then /\ job'.ok = FALSE
      /\ job'.writes = Tail(job.writes)
  BY <1>1, <1>2
<1>4. /\ Tail(job.writes) \in Seq(Writes) /\ Len(Tail(job.writes)) = Len(job.writes) - 1
      /\ \A j \in 1..Len(Tail(job.writes)) : Tail(job.writes)[j] = job.writes[j + 1]
      /\ Len(job.writes) \in Nat
  BY <1>1, <1>2, HeadAndTail
<1>5. TypeOK'
  BY <1>1, <1>2 DEF Inv, TypeOK
<1>6. JobOK'
  BY <1>2, <1>3, <1>4 DEF JobOK
<1>7. FailureKnown'
  BY <1>1, <1>3 DEF FailureKnown
<1>8. Progress'
  <2>1. CASE job.namespace # "gateway_config"
    <3>1. Elsewhere
      BY <1>1, <2>1 DEF Inv, Progress
    <3>2. \A j \in 1..Len(Tail(job.writes)) : Tail(job.writes)[j].keys \cap GatewayKeys = {}
      <4> TAKE j \in 1..Len(Tail(job.writes))
      <4>1. j + 1 \in 1..Len(job.writes)
        BY <1>4
      <4>2. QED
        BY <1>4, <3>1, <4>1 DEF Elsewhere
    <3>3. Elsewhere'
      BY <1>1, <1>3, <3>1, <3>2 DEF Elsewhere
    <3>4. QED
      BY <1>3, <2>1, <3>3 DEF Progress
  <2>2. CASE job.namespace = "gateway_config"
    BY <1>3, <2>2 DEF Progress
  <2>3. QED
    BY <2>1, <2>2
<1>9. RamBelongs' /\ FlashBelongs'
  BY <1>1 DEF Inv, RamBelongs, FlashBelongs
<1>10. QED
  BY <1>5, <1>6, <1>7, <1>8, <1>9 DEF Inv

\* What was written is what memory becomes.
LEMMA FinishInv == ASSUME Inv, Finish PROVE Inv'
<1>1. /\ pc = "saving" /\ pc' = "loop" /\ job.writes = <<>>
      /\ ram' = job.then /\ job' = NoJob
      /\ UNCHANGED <<nvs, internet_connected>>
      /\ IF job.ok THEN /\ failed' = failed \ {job.namespace}
                        /\ torn' = torn \ {job.namespace}
                   ELSE UNCHANGED <<failed, torn>>
  BY DEF Finish
<1>2. job.namespace \in Namespaces /\ SettingsOK(job.then)
  BY <1>1 DEF Inv, JobOK
<1>3. TypeOK'
  BY <1>1, <1>2 DEF Inv, TypeOK, SettingsOK
<1>4. JobOK'
  BY <1>1, DefaultOK DEF JobOK, NoJob
<1>5. FailureKnown' /\ Progress'
  BY <1>1 DEF FailureKnown, Progress
<1>6. RamBelongs' /\ FlashBelongs'
  <2>1. CASE job.namespace # "gateway_config"
    <3>1. \A s \in Belonging : ram[s] = job.then[s]
      BY <1>1, <2>1 DEF Inv, Progress, Elsewhere
    <3>2. "gateway_config" \notin failed' => "gateway_config" \notin failed
      BY <1>1, <2>1
    <3>3. QED
      BY <1>1, <3>1, <3>2, BelongsSame DEF Inv, RamBelongs, FlashBelongs
  <2>2. CASE job.namespace = "gateway_config" /\ ~job.ok
    <3>1. "gateway_config" \in failed'
      BY <1>1, <2>2 DEF Inv, FailureKnown
    <3>2. QED
      BY <3>1 DEF RamBelongs, FlashBelongs
  <2>3. CASE job.namespace = "gateway_config" /\ job.ok /\ Erasing
    <3>1. PICK K \in SUBSET GatewayKeys :
            /\ job.writes = IF K = {} THEN <<>> ELSE <<Write(K, Absent)>>
            /\ \A k \in GatewayKeys \ K : nvs[k] = Absent
      BY <2>3 DEF Erasing
    <3>2. K = {}
      <4>1. <<Write(K, Absent)>> # <<>>
        OBVIOUS
      <4>2. QED
        BY <1>1, <3>1, <4>1
    <3>3. NoPassword(nvs)
      BY <3>1, <3>2, KeyNames DEF NoPassword, GatewayKeys
    <3>4. job.then["gw_pass"] = Blank
      BY <2>3 DEF Erasing
    <3>5. QED
      BY <1>1, <3>3, <3>4 DEF Together, Belongs, RamBelongs, FlashBelongs
  <2>4. ASSUME NEW g \in Gateways, Saving(g)
        PROVE  RamBelongs' /\ FlashBelongs'
    <3>1. PICK i \in 0..Len(GatewayWrites(g)) : Left(g, i, job.writes) /\ Written(g, i, nvs)
      BY <2>4 DEF Saving
    <3>2. i \in Nat /\ i = Len(GatewayWrites(g))
      <4>1. Len(GatewayWrites(g)) \in 5..7
        BY WritesOfGateway
      <4>2. Len(job.writes) = 0
        BY <1>1
      <4>3. QED
        BY <3>1, <4>1, <4>2 DEF Left
    <3>3. Together(nvs)
      BY <3>1, <3>2, AllWritten
    <3>4. Belongs(job.then)
      BY <2>4 DEF Saving, Belongs
    <3>5. QED
      BY <1>1, <3>3, <3>4 DEF RamBelongs, FlashBelongs
  <2>5. QED
    BY <1>1, <2>1, <2>2, <2>3, <2>4 DEF Inv, Progress
<1>7. QED
  BY <1>3, <1>4, <1>5, <1>6 DEF Inv

LEMMA StutterInv == ASSUME Inv, UNCHANGED vars PROVE Inv'
<1>1. UNCHANGED <<pc, ram, nvs, job, internet_connected, failed, torn>>
  BY DEF vars
<1>2. TypeOK'
  BY <1>1 DEF Inv, TypeOK
<1>3. JobOK'
  BY <1>1 DEF Inv, JobOK
<1>4. FailureKnown'
  BY <1>1 DEF Inv, FailureKnown
<1>5. Progress'
  BY <1>1 DEF Inv, Progress, Elsewhere, Erasing, Saving
<1>6. RamBelongs' /\ FlashBelongs'
  BY <1>1 DEF Inv, RamBelongs, FlashBelongs
<1>7. QED
  BY <1>2, <1>3, <1>4, <1>5, <1>6 DEF Inv

LEMMA NextInv == ASSUME Inv, [Next]_vars PROVE Inv'
<1>1. CASE LoRaRequest
  BY <1>1, LoRaInv
<1>2. CASE ApRequest
  BY <1>2, ApInv
<1>3. CASE GatewayRequest
  BY <1>3, GatewayInv
<1>4. CASE WiFiRequest
  BY <1>4, WiFiInv
<1>5. CASE WriteKey
  BY <1>5, WriteKeyInv
<1>6. CASE WriteFails
  BY <1>6, WriteFailsInv
<1>7. CASE Finish
  BY <1>7, FinishInv
<1>8. CASE Connected
  BY <1>8, ConnectedInv
<1>9. CASE NotConnected
  BY <1>9, NotConnectedInv
<1>10. CASE setup
  BY <1>10, setupInv
<1>11. CASE PowerLoss
  BY <1>11, PowerLossInv
<1>12. CASE UNCHANGED vars
  BY <1>12, StutterInv
<1>13. QED
  BY <1>1, <1>2, <1>3, <1>4, <1>5, <1>6, <1>7, <1>8, <1>9, <1>10, <1>11, <1>12
  DEF Next, Node

LEMMA InvHolds == Spec => []Inv
<1>1. Init => Inv
  BY InitInv
<1>2. Inv /\ [Next]_vars => Inv'
  BY NextInv
<1>3. QED
  BY <1>1, <1>2, PTL DEF Spec

---------------------------------------------------------------------------
(* Theorems.                                                               *)

\* Memory and flash only ever hold values that were entered or are defaults,
\* each under its own key, through every save, failure and power loss.
THEOREM SettingsTypeCorrect == Spec => []TypeOK
<1>1. Inv => TypeOK
  BY DEF Inv
<1>2. QED
  BY <1>1, InvHolds, PTL

\* After any sequence of saves, clears and power losses between two writes, a
\* node that has a gateway password has the type, host and port that password
\* was entered with (saveGatewayCredentials, loadGatewayCredentials).
THEOREM PasswordsStayWithGateways == Spec => []PasswordGoesToItsGateway
<1>1. Inv => PasswordGoesToItsGateway
  BY DEF Inv, RamBelongs, Belongs, Belonging, PasswordGoesToItsGateway
<1>2. QED
  BY <1>1, InvHolds, PTL

---------------------------------------------------------------------------
(* The control messages.                                                   *)

\* Only a save of the LoRa address may leave control messages behind memory,
\* and Finish makes them good.
ControlInv ==
    /\ pc \in {"loop", "connecting"} => control = Address(ram)
    /\ pc = "saving" /\ job.namespace # "lora_config" => control = Address(job.then)

LEMMA AddressSame ==
    ASSUME NEW f, NEW h, \A s \in {"region", "community", "node"} : f[s] = h[s]
    PROVE  Address(f) = Address(h)
  BY DEF Address

LEMMA RequestControl ==
    ASSUME TypeOK, ControlInv, LoRaRequest \/ ApRequest \/ GatewayRequest \/ WiFiRequest
    PROVE  ControlInv'
<1>1. DOMAIN ram = Settings /\ {"region", "community", "node"} \subseteq Settings
  BY KeyNames DEF TypeOK
<1>2. ASSUME NEW a \in Addresses, SetAddress(a)
      PROVE  ControlInv'
  <2>1. Address(With(ram, a)) = Address(a)
    <3>1. \A s \in {"region", "community", "node"} : With(ram, a)[s] = a[s]
      BY <1>1, AddressValues DEF With
    <3>2. QED
      BY <3>1, AddressSame
  <2>2. control' = Address(With(ram, a))
    BY <1>2, <2>1 DEF SetAddress
  <2>3. QED
    BY <1>2, <2>2 DEF SetAddress, Save, CannotOpen, ControlInv
<1>3. ASSUME handleApiLoRaClear
      PROVE  ControlInv'
  BY <1>3 DEF handleApiLoRaClear, Save, CannotOpen, ControlInv
<1>4. ASSUME NEW p \in ApPasswords, handleApiPasswordChange(p)
      PROVE  ControlInv'
  <2> DEFINE new == [ram EXCEPT !["ap_password"] = p]
  <2>1. Address(new) = Address(ram)
    BY <1>1, AddressSame
  <2>2. pc = "loop" /\ control' = control
    BY <1>4 DEF handleApiPasswordChange
  <2>3. control' = Address(new)
    BY <2>1, <2>2 DEF ControlInv
  <2>4. PICK writes : Save("ap_config", writes, new, new) \/ CannotOpen("ap_config", new)
    BY <1>4 DEF handleApiPasswordChange
  <2> HIDE DEF new
  <2>5. QED
    BY <2>3, <2>4 DEF Save, CannotOpen, ControlInv
<1>5. ASSUME NEW S, {"region", "community", "node"} \cap S = {}
      PROVE  Address(Cleared(ram, S)) = Address(ram)
  <2>1. \A s \in {"region", "community", "node"} : Cleared(ram, S)[s] = ram[s]
    BY <1>1, <1>5 DEF Cleared
  <2>2. QED
    BY <2>1, AddressSame
<1>6. ASSUME handleApiPasswordReset
      PROVE  ControlInv'
  <2>1. Address(Cleared(ram, {"ap_password"})) = Address(ram)
    BY <1>5
  <2>2. QED
    BY <1>6, <2>1 DEF handleApiPasswordReset, Save, CannotOpen, ControlInv
<1>7. ASSUME NEW g \in Gateways, SaveGateway(g)
      PROVE  ControlInv'
  <2>1. Address(With(ram, g)) = Address(ram)
    <3>1. \A s \in {"region", "community", "node"} : With(ram, g)[s] = ram[s]
      BY <1>1, GatewayValues DEF With, GatewaySettings
    <3>2. QED
      BY <3>1, AddressSame
  <2>2. QED
    BY <1>7, <2>1 DEF SaveGateway, Save, CannotOpen, ControlInv
<1>8. ASSUME handleApiGatewayClear
      PROVE  ControlInv'
  <2>1. Address(Cleared(ram, GatewaySettings)) = Address(ram)
    BY <1>5 DEF GatewaySettings
  <2>2. QED
    BY <1>8, <2>1 DEF handleApiGatewayClear, Save, CannotOpen, ControlInv
<1>9. ASSUME NEW ssid, NEW password, handleApiWifiConnect(ssid, password)
      PROVE  ControlInv'
  <2>1. Address([ram EXCEPT !["ssid"] = ssid, !["wifi_password"] = password]) = Address(ram)
    BY <1>1, AddressSame
  <2>2. QED
    BY <1>9, <2>1 DEF handleApiWifiConnect, ControlInv
<1>10. ASSUME handleApiWifiDisconnect
       PROVE  ControlInv'
  BY <1>10 DEF handleApiWifiDisconnect, ControlInv
<1>11. ASSUME handleApiWifiClear
       PROVE  ControlInv'
  <2>1. Address(Cleared(ram, Keys("wifi_config"))) = Address(ram)
    BY <1>5, KeyNames
  <2>2. QED
    BY <1>11, <2>1 DEF handleApiWifiClear, Save, CannotOpen, ControlInv
<1>12. QED
  BY <1>2, <1>3, <1>4, <1>6, <1>7, <1>8, <1>9, <1>10, <1>11
  DEF LoRaRequest, ApRequest, GatewayRequest, WiFiRequest

\* A node pings, acknowledges and answers with the address it listens to, after
\* any changes, resets and restarts (updateControlPacketAddress).
THEOREM ControlFollowsAddress == Spec => []ControlPacketCarriesAddress
<1>1. Init => ControlInv
  BY DEF Init, ControlInv
<1>2. Inv /\ ControlInv /\ [Next]_vars => ControlInv'
  <2> SUFFICES ASSUME Inv, ControlInv, [Next]_vars
               PROVE  ControlInv'
    OBVIOUS
  <2>1. CASE LoRaRequest \/ ApRequest \/ GatewayRequest \/ WiFiRequest
    BY <2>1, RequestControl DEF Inv
  <2>2. CASE WriteKey \/ WriteFails
    <3>1. /\ pc = "saving" /\ pc' = "saving" /\ control' = control
          /\ job'.namespace = job.namespace /\ job'.then = job.then
      BY <2>2 DEF WriteKey, WriteFails, Inv, JobOK
    <3>2. QED
      BY <3>1 DEF ControlInv
  <2>3. CASE Finish
    BY <2>3 DEF Finish, ControlInv
  <2>4. CASE Connected
    BY <2>4 DEF Connected, SaveWiFi, Save, CannotOpen, ControlInv
  <2>5. CASE NotConnected
    BY <2>5 DEF NotConnected, ControlInv
  <2>6. CASE setup
    BY <2>6 DEF setup, ControlInv
  <2>7. CASE PowerLoss
    BY <2>7 DEF PowerLoss, ControlInv
  <2>8. CASE UNCHANGED vars
    BY <2>8 DEF vars, ControlInv
  <2>9. QED
    BY <2>1, <2>2, <2>3, <2>4, <2>5, <2>6, <2>7, <2>8 DEF Next, Node
<1>3. ControlInv => ControlPacketCarriesAddress
  BY DEF ControlInv, ControlPacketCarriesAddress
<1>4. QED
  BY <1>1, <1>2, <1>3, InvHolds, PTL DEF Spec
---------------------------------------------------------------------------
(* What flash will hold.                                                   *)
(*                                                                         *)
(* Both SettingsSurviveRestart and StoredWiFiWorked are about flash after  *)
(* a save.  While the save runs they follow from the writes that are left: *)
(* key k will hold v if v is what the last of them that has k writes, or   *)
(* what flash has already and no write is left for k.  A write made keeps  *)
(* this true of every key and value, so that nothing has to be said about  *)
(* how far a save has come.                                                *)

WillHold(writes, n, k, v) ==
    \/ n[k] = v /\ \A j \in 1..Len(writes) : k \notin writes[j].keys
    \/ \E j \in 1..Len(writes) :
          /\ k \in writes[j].keys /\ writes[j].value = v
          /\ \A i \in (j + 1)..Len(writes) : k \notin writes[i].keys

\* When the writes have been made, flash has in the namespace what m has.  The
\* gateway's user is not among the settings that last.
WillBe(writes, n, namespace, m) ==
    \A k \in Keys(namespace) \ {"gateway_user"} : WillHold(writes, n, k, m[k])

Kept == {"lora_config", "ap_config", "gateway_config"}

Survives(namespace, n, settings) ==
    \A s \in Lasting(namespace, settings) : Restored(n)[s] = settings[s]

EndsWell(namespace) ==
    \E m : /\ WillBe(job.writes, nvs, namespace, m)
           /\ Survives(namespace, m, job.then)

\* A save that has failed so far forfeits its own namespace only.
Intact(namespace) ==
    IF pc = "saving" /\ namespace = job.namespace THEN job.ok ELSE namespace \notin failed

OwnKeys ==
    pc = "saving" =>
      \A j \in 1..Len(job.writes) : job.writes[j].keys \subseteq Keys(job.namespace)

SettingsKept ==
    \A ns \in Kept : Intact(ns) =>
      /\ pc \in {"loop", "connecting"} => Survives(ns, nvs, ram)
      /\ pc = "saving" => EndsWell(ns)

\* Credentials that are complete have worked.
Tried(n) ==
    (\A k \in Keys("wifi_config") : Has(n, k)) => <<n["ssid"], n["wifi_password"]>> \in worked

WiFiTried ==
    IF pc = "saving" /\ job.namespace = "wifi_config"
    THEN job.ok => \E m : WillBe(job.writes, nvs, "wifi_config", m) /\ Tried(m)
    ELSE "wifi_config" \notin failed \cup torn => Tried(nvs)

LEMMA NamespaceKeys ==
    /\ \A n1, n2 \in Namespaces : n1 # n2 => Keys(n1) \cap Keys(n2) = {}
    /\ \A ns \in Namespaces : Keys(ns) \subseteq AllKeys
    /\ Kept \subseteq Namespaces /\ "wifi_config" \in Namespaces \ Kept
<1>1. \A n1, n2 \in Namespaces : n1 # n2 => Keys(n1) \cap Keys(n2) = {}
  BY KeyNames DEF Namespaces
<1>2. \A ns \in Namespaces : Keys(ns) \subseteq AllKeys
  BY DEF AllKeys
<1>3. QED
  BY <1>1, <1>2 DEF Namespaces, Kept

\* The writes that are left when the first has been made or has failed.
LEMMA HoldTail ==
    ASSUME NEW writes \in Seq(Writes), writes # <<>>, NEW n, NEW k, NEW v,
           WillHold(writes, n, k, v), k \notin Head(writes).keys
    PROVE  WillHold(Tail(writes), n, k, v)
<1>1. /\ Head(writes) = writes[1] /\ Len(Tail(writes)) = Len(writes) - 1
      /\ \A j \in 1..Len(Tail(writes)) : Tail(writes)[j] = writes[j + 1]
      /\ Len(writes) \in Nat /\ Len(writes) >= 1
  BY HeadAndTail
<1>2. CASE n[k] = v /\ \A j \in 1..Len(writes) : k \notin writes[j].keys
  <2>1. ASSUME NEW j \in 1..Len(Tail(writes))
        PROVE  k \notin Tail(writes)[j].keys
    <3>1. j + 1 \in 1..Len(writes)
      BY <1>1
    <3>2. QED
      BY <1>1, <1>2, <3>1
  <2>2. QED
    BY <1>2, <2>1 DEF WillHold
<1>3. ASSUME NEW j \in 1..Len(writes),
             k \in writes[j].keys /\ writes[j].value = v
               /\ \A i \in (j + 1)..Len(writes) : k \notin writes[i].keys
      PROVE  WillHold(Tail(writes), n, k, v)
  <2>1. j # 1
    BY <1>1, <1>3
  <2>2. j - 1 \in 1..Len(Tail(writes)) /\ (j - 1) + 1 = j
    BY <1>1, <2>1
  <2>3. Tail(writes)[j - 1] = writes[j]
    BY <1>1, <2>2
  <2>4. ASSUME NEW i \in ((j - 1) + 1)..Len(Tail(writes))
        PROVE  k \notin Tail(writes)[i].keys
    <3>1. i \in 1..Len(Tail(writes)) /\ i + 1 \in (j + 1)..Len(writes)
      BY <1>1, <2>2
    <3>2. QED
      BY <1>1, <1>3, <3>1
  <2>5. QED
    BY <1>3, <2>2, <2>3, <2>4 DEF WillHold
<1>4. QED
  BY <1>2, <1>3 DEF WillHold

\* The last key of a write is written.
LEMMA HoldLastKey ==
    ASSUME NEW writes \in Seq(Writes), writes # <<>>, NEW n, NEW k \in DOMAIN n, NEW v,
           WillHold(writes, n, k, v), NEW key, Head(writes).keys = {key}
    PROVE  WillHold(Tail(writes), [n EXCEPT ![key] = Head(writes).value], k, v)
<1> DEFINE m == [n EXCEPT ![key] = Head(writes).value]
<1>1. CASE k # key
  <2>1. WillHold(Tail(writes), n, k, v)
    BY <1>1, HoldTail
  <2>2. m[k] = n[k]
    BY <1>1
  <2> HIDE DEF m
  <2>3. WillHold(Tail(writes), m, k, v)
    BY <2>1, <2>2 DEF WillHold
  <2>4. QED
    BY <2>3 DEF m
<1>2. CASE k = key
  <2>1. m[k] = Head(writes).value
    BY <1>2
  <2>2. /\ Head(writes) = writes[1] /\ Len(Tail(writes)) = Len(writes) - 1
        /\ \A j \in 1..Len(Tail(writes)) : Tail(writes)[j] = writes[j + 1]
        /\ Len(writes) \in Nat /\ Len(writes) >= 1 /\ Tail(writes) \in Seq(Writes)
    BY HeadAndTail
  <2> HIDE DEF m
  <2>3. 1 \in 1..Len(writes) /\ k \in writes[1].keys
    BY <1>2, <2>2
  <2>4. PICK j \in 1..Len(writes) :
          /\ k \in writes[j].keys /\ writes[j].value = v
          /\ \A i \in (j + 1)..Len(writes) : k \notin writes[i].keys
    BY <2>3 DEF WillHold
  <2>5. CASE j = 1
    <3>1. ASSUME NEW i \in 1..Len(Tail(writes))
          PROVE  k \notin Tail(writes)[i].keys
      <4>1. i + 1 \in (j + 1)..Len(writes)
        BY <2>2, <2>5
      <4>2. QED
        BY <2>2, <2>4, <4>1
    <3>2. m[k] = v
      BY <2>1, <2>2, <2>4, <2>5
    <3>3. WillHold(Tail(writes), m, k, v)
      BY <3>1, <3>2 DEF WillHold
    <3>4. QED
      BY <3>3 DEF m
  <2>6. CASE j # 1
    <3>1. j - 1 \in 1..Len(Tail(writes)) /\ (j - 1) + 1 = j
      BY <2>2, <2>6
    <3>2. Tail(writes)[j - 1] = writes[j]
      BY <2>2, <3>1
    <3>3. ASSUME NEW i \in ((j - 1) + 1)..Len(Tail(writes))
          PROVE  k \notin Tail(writes)[i].keys
      <4>1. i \in 1..Len(Tail(writes)) /\ i + 1 \in (j + 1)..Len(writes)
        BY <2>2, <3>1
      <4>2. QED
        BY <2>2, <2>4, <4>1
    <3>4. WillHold(Tail(writes), m, k, v)
      BY <2>4, <3>1, <3>2, <3>3 DEF WillHold
    <3>5. QED
      BY <3>4 DEF m
  <2>7. QED
    BY <2>5, <2>6
<1>3. QED
  BY <1>1, <1>2

\* A key of several is written.
LEMMA HoldOneOfKeys ==
    ASSUME NEW writes \in Seq(Writes), writes # <<>>, NEW n, NEW k \in DOMAIN n, NEW v,
           WillHold(writes, n, k, v), NEW key \in Head(writes).keys,
           NEW x, x.keys = Head(writes).keys \ {key}, x.value = Head(writes).value,
           NEW rest, Len(rest) = Len(writes), rest[1] = x,
           \A j \in 2..Len(writes) : rest[j] = writes[j]
    PROVE  WillHold(rest, [n EXCEPT ![key] = Head(writes).value], k, v)
<1> DEFINE m == [n EXCEPT ![key] = Head(writes).value]
<1> SUFFICES WillHold(rest, m, k, v)
  OBVIOUS
<1>1. Head(writes) = writes[1] /\ Len(writes) \in Nat /\ Len(writes) >= 1
  BY HeadAndTail
<1>2. m[k] = IF k = key THEN writes[1].value ELSE n[k]
  BY <1>1
<1> DEFINE Untouched == n[k] = v /\ \A j \in 1..Len(writes) : k \notin writes[j].keys
<1> HIDE DEF m, Untouched
<1>3. \A j \in 1..Len(writes) : j = 1 \/ j \in 2..Len(writes)
  BY <1>1
<1>4. 1 \in 1..Len(writes)
  BY <1>1
<1>5. \A j \in 1..Len(writes) : k \in rest[j].keys => k \in writes[j].keys
  BY <1>1, <1>3
<1>6. CASE Untouched
  <2>1. k # key
    BY <1>1, <1>4, <1>6 DEF Untouched
  <2>2. QED
    BY <1>2, <1>5, <1>6, <2>1 DEF WillHold, Untouched
<1>7. CASE ~Untouched
  <2>0. PICK j \in 1..Len(writes) :
          /\ k \in writes[j].keys /\ writes[j].value = v
          /\ \A i \in (j + 1)..Len(writes) : k \notin writes[i].keys
    BY <1>7 DEF WillHold, Untouched
  <2>1. \A i \in (j + 1)..Len(writes) : k \notin rest[i].keys
    <3> TAKE i \in (j + 1)..Len(writes)
    <3>1. i \in 1..Len(writes)
      BY <1>1
    <3>2. QED
      BY <1>5, <2>0, <3>1
  <2>2. CASE j = 1 /\ k = key
    <3>1. m[k] = v
      BY <1>2, <2>0, <2>2
    <3>2. k \notin rest[1].keys
      BY <2>2
    <3>3. \A i \in 1..Len(writes) : i = 1 \/ i \in (j + 1)..Len(writes)
      BY <1>1, <2>2
    <3>4. QED
      BY <2>1, <3>1, <3>2, <3>3 DEF WillHold
  <2>3. CASE j = 1 /\ k # key
    <3>1. k \in rest[1].keys /\ rest[1].value = v
      BY <1>1, <2>0, <2>3
    <3>2. QED
      BY <1>4, <2>1, <2>3, <3>1 DEF WillHold
  <2>4. CASE j # 1
    <3>1. rest[j] = writes[j]
      BY <1>3, <2>4
    <3>2. QED
      BY <2>0, <2>1, <3>1 DEF WillHold
  <2>5. QED
    BY <2>2, <2>3, <2>4
<1>8. QED
  BY <1>6, <1>7

LEMMA PutInFront ==
    ASSUME NEW S, NEW x \in S, NEW t \in Seq(S)
    PROVE  /\ Len(<<x>> \o t) = Len(t) + 1 /\ (<<x>> \o t)[1] = x
           /\ \A j \in 1..Len(t) : (<<x>> \o t)[j + 1] = t[j]
<1> DEFINE front == <<x>>
<1>1. front \in Seq(S) /\ Len(front) = 1 /\ front[1] = x
  OBVIOUS
<1> HIDE DEF front
<1>2a. /\ Len(front \o t) = Len(front) + Len(t)
       /\ \A j \in 1..(Len(front) + Len(t)) :
            (front \o t)[j] = IF j <= Len(front) THEN front[j] ELSE t[j - Len(front)]
  BY <1>1, ConcatProperties
<1>2. /\ Len(front \o t) = 1 + Len(t)
      /\ \A j \in 1..(1 + Len(t)) : (front \o t)[j] = IF j <= 1 THEN front[j] ELSE t[j - 1]
  BY <1>1, <1>2a
<1>3. Len(t) \in Nat
  OBVIOUS
<1>4. (front \o t)[1] = x
  <2>1. 1 \in 1..(1 + Len(t)) /\ 1 <= 1
    BY <1>3
  <2>2. QED
    BY <1>1, <1>2, <2>1
<1>5. \A j \in 1..Len(t) : (front \o t)[j + 1] = t[j]
  <2> TAKE j \in 1..Len(t)
  <2>1. j + 1 \in 1..(1 + Len(t)) /\ ~(j + 1 <= 1) /\ (j + 1) - 1 = j
    BY <1>3
  <2>2. QED
    BY <1>2, <2>1
<1>6. QED
  BY <1>2, <1>3, <1>4, <1>5 DEF front

\* No key's outcome is changed by writing.
LEMMA WriteKeyHolds ==
    ASSUME Inv, WriteKey, NEW k \in AllKeys, NEW v, WillHold(job.writes, nvs, k, v)
    PROVE  WillHold(job'.writes, nvs', k, v)
<1> DEFINE w == Head(job.writes)
<1>1. pc = "saving" /\ job.writes # <<>>
  BY DEF WriteKey
<1>2. PICK key \in w.keys :
        /\ nvs' = [nvs EXCEPT ![key] = w.value]
        /\ job' = [job EXCEPT !.writes =
              (IF w.keys = {key} THEN <<>> ELSE <<Write(w.keys \ {key}, w.value)>>)
                 \o Tail(@)]
  BY DEF WriteKey
<1>3. /\ w.keys = {key} => job'.writes = Tail(job.writes)
      /\ w.keys # {key} => job'.writes = <<Write(w.keys \ {key}, w.value)>> \o Tail(job.writes)
      /\ w \in Writes
  BY <1>1, <1>2, JobAfterKey
<1>4. job.writes \in Seq(Writes) /\ k \in DOMAIN nvs
  BY DEF Inv, TypeOK, JobOK
<1>5. CASE w.keys = {key}
  <2>1. WillHold(Tail(job.writes), [nvs EXCEPT ![key] = w.value], k, v)
    BY <1>1, <1>4, <1>5, HoldLastKey
  <2>2. QED
    BY <1>2, <1>3, <1>5, <2>1
<1>6. CASE w.keys # {key}
  <2> DEFINE x == Write(w.keys \ {key}, w.value)
  <2>1. x.keys = w.keys \ {key} /\ x.value = w.value
    BY DEF Write
  <2>2. x \in Writes
    BY <1>3 DEF Writes, Write
  <2>3. /\ Tail(job.writes) \in Seq(Writes) /\ Len(Tail(job.writes)) = Len(job.writes) - 1
        /\ \A j \in 1..Len(Tail(job.writes)) : Tail(job.writes)[j] = job.writes[j + 1]
        /\ Len(job.writes) \in Nat /\ Len(job.writes) >= 1
    BY <1>1, <1>4, HeadAndTail
  <2>4. job'.writes = <<x>> \o Tail(job.writes)
    BY <1>3, <1>6
  <2> HIDE DEF x, w
  <2>5. /\ Len(job'.writes) = Len(Tail(job.writes)) + 1 /\ job'.writes[1] = x
        /\ \A j \in 1..Len(Tail(job.writes)) : job'.writes[j + 1] = Tail(job.writes)[j]
    BY <2>2, <2>3, <2>4, PutInFront
  <2>6. ASSUME NEW j \in 2..Len(job.writes)
        PROVE  job'.writes[j] = job.writes[j]
    <3>1. j - 1 \in 1..Len(Tail(job.writes)) /\ (j - 1) + 1 = j
      BY <2>3
    <3>2. QED
      BY <2>3, <2>5, <3>1
  <2>7. Len(job'.writes) = Len(job.writes)
    BY <2>3, <2>5
  <2>8. WillHold(job'.writes, [nvs EXCEPT ![key] = Head(job.writes).value], k, v)
    <3>1. /\ key \in Head(job.writes).keys /\ x.keys = Head(job.writes).keys \ {key}
          /\ x.value = Head(job.writes).value
      BY <1>2, <2>1 DEF w
    <3> DEFINE rest == job'.writes
    <3>2. /\ Len(rest) = Len(job.writes) /\ rest[1] = x
          /\ \A j \in 2..Len(job.writes) : rest[j] = job.writes[j]
      BY <2>5, <2>6, <2>7
    <3> HIDE DEF rest
    <3>3. WillHold(rest, [nvs EXCEPT ![key] = Head(job.writes).value], k, v)
      BY <1>1, <1>4, <3>1, <3>2, HoldOneOfKeys
    <3>4. QED
      BY <3>3 DEF rest
  <2>9. QED
    BY <1>2, <2>8 DEF w
<1>7. QED
  BY <1>5, <1>6

---------------------------------------------------------------------------
(* What a restart makes of flash.                                          *)

LEMMA FoundOf ==
    ASSUME NEW n
    PROVE  /\ \A s \in {"region", "community", "node"} :
                s \in Found(n) <=> \A k \in {"region", "community", "node"} : Has(n, k)
           /\ "ap_password" \in Found(n) <=> Has(n, "ap_password")
           /\ \A s \in {"gateway_type", "gateway_ip", "gateway_port", "gw_pass"} :
                s \in Found(n) <=> s \in GatewayFound(n)
<1>1. WiFiFound(n) \subseteq {"ssid", "wifi_password"}
  BY DEF WiFiFound
<1>2. GatewayFound(n) \subseteq GatewaySettings
  BY DEF GatewayFound
<1>3. LoRaFound(n) \subseteq {"region", "community", "node"}
  BY KeyNames DEF LoRaFound
<1>4. \A s \in {"region", "community", "node"} :
        s \in Found(n) <=> s \in LoRaFound(n)
  BY <1>1, <1>2 DEF Found, GatewaySettings
<1>5. "ap_password" \in Found(n) <=> Has(n, "ap_password")
  BY <1>1, <1>2, <1>3 DEF Found, GatewaySettings
<1>6. \A s \in {"gateway_type", "gateway_ip", "gateway_port", "gw_pass"} :
        s \in Found(n) <=> s \in GatewayFound(n)
  BY <1>1, <1>3 DEF Found
<1>7. \A s \in {"region", "community", "node"} :
        s \in LoRaFound(n) <=> \A k \in {"region", "community", "node"} : Has(n, k)
  BY KeyNames DEF LoRaFound
<1>8. QED
  BY <1>4, <1>5, <1>6, <1>7

LEMMA LastingNames ==
    ASSUME NEW f
    PROVE  /\ Lasting("lora_config", f) = {"region", "community", "node"}
           /\ Lasting("ap_config", f) = {"ap_password"}
           /\ Lasting("gateway_config", f) \subseteq
                {"gateway_type", "gateway_ip", "gateway_port", "gw_pass"}
           /\ \A ns \in Kept : Lasting(ns, f) \subseteq Settings
<1>1. /\ Lasting("lora_config", f) = {"region", "community", "node"}
      /\ Lasting("ap_config", f) = {"ap_password"}
      /\ Lasting("gateway_config", f) =
            IF f["gateway_ip"] \in LongNames THEN {}
            ELSE {"gateway_type", "gateway_ip", "gateway_port", "gw_pass"}
  BY KeyNames DEF Lasting
<1>2. /\ {"region", "community", "node"} \subseteq Settings
      /\ {"ap_password"} \subseteq Settings
      /\ {"gateway_type", "gateway_ip", "gateway_port", "gw_pass"} \subseteq Settings
  BY KeyNames
<1>3. QED
  BY <1>1, <1>2 DEF Kept

\* A restart reads a namespace's settings from its own keys.
LEMMA RestoredSame ==
    ASSUME NEW ns \in Kept, NEW n, NEW m,
           \A k \in Keys(ns) \ {"gateway_user"} : n[k] = m[k],
           NEW f, NEW s \in Lasting(ns, f)
    PROVE  Restored(n)[s] = Restored(m)[s]
<1>0. s \in Settings
  BY LastingNames
<1>1. CASE ns = "lora_config"
  <2>1. \A k \in {"region", "community", "node"} : n[k] = m[k]
    BY <1>1, KeyNames
  <2>2. s \in {"region", "community", "node"}
    BY <1>1, LastingNames
  <2>3. s \in Found(n) <=> s \in Found(m)
    BY <2>1, <2>2, FoundOf DEF Has
  <2>4. QED
    BY <1>0, <2>1, <2>2, <2>3 DEF Restored
<1>2. CASE ns = "ap_config"
  <2>1. n["ap_password"] = m["ap_password"] /\ s = "ap_password"
    BY <1>2, KeyNames, LastingNames
  <2>2. s \in Found(n) <=> s \in Found(m)
    BY <2>1, FoundOf DEF Has
  <2>3. QED
    BY <1>0, <2>1, <2>2 DEF Restored
<1>3. CASE ns = "gateway_config"
  <2>1. \A k \in {"gateway_type", "gateway_ip", "gateway_port", "gw_pass", "gateway_pass"} :
          n[k] = m[k]
    BY <1>3, KeyNames
  <2>2. s \in {"gateway_type", "gateway_ip", "gateway_port", "gw_pass"}
    BY <1>3, LastingNames
  <2>3. s \in GatewayFound(n) <=> s \in GatewayFound(m)
    BY <2>1, <2>2 DEF GatewayFound, GatewaySettings, Has
  <2>4. s \in Found(n) <=> s \in Found(m)
    BY <2>2, <2>3, FoundOf
  <2>5. QED
    BY <1>0, <2>1, <2>2, <2>4 DEF Restored, Has
<1>4. QED
  BY <1>1, <1>2, <1>3 DEF Kept

LEMMA SurvivesSame ==
    ASSUME NEW ns \in Kept, NEW n, NEW m, NEW f, Survives(ns, m, f),
           \A k \in Keys(ns) \ {"gateway_user"} : n[k] = m[k]
    PROVE  Survives(ns, n, f)
  BY RestoredSame DEF Survives

\* Only the settings of the namespace matter.
LEMMA SurvivesWith ==
    ASSUME NEW ns \in Kept, NEW n, NEW f, NEW h, Survives(ns, n, f),
           \A s \in Keys(ns) \cap Settings : f[s] = h[s]
    PROVE  Survives(ns, n, h)
<1>1. Lasting(ns, f) = Lasting(ns, h)
  <2>1. CASE ns = "gateway_config"
    <3>1. f["gateway_ip"] = h["gateway_ip"]
      BY <2>1, KeyNames
    <3>2. QED
      BY <2>1, <3>1 DEF Lasting
  <2>2. CASE ns # "gateway_config"
    BY <2>2, LastingNames DEF Kept
  <2>3. QED
    BY <2>1, <2>2
<1>2. Lasting(ns, f) \subseteq Keys(ns) \cap Settings
  BY LastingNames, KeyNames DEF Kept
<1>3. QED
  BY <1>1, <1>2 DEF Survives

---------------------------------------------------------------------------
(* What the writes of the requests come to.                                *)

\* An erased namespace comes back as the defaults.
LEMMA ErasedHolds ==
    ASSUME NEW ns \in Namespaces, NEW n, NEW m, \A k \in AllKeys : m[k] = Absent
    PROVE  WillBe(<<EraseAll(ns)>>, n, ns, m)
<1> DEFINE W == <<EraseAll(ns)>>
<1>1. Len(W) = 1 /\ W[1].keys = Keys(ns) /\ W[1].value = Absent
  BY DEF EraseAll, Write
<1> HIDE DEF W
<1>2. \A k \in Keys(ns) : WillHold(W, n, k, Absent)
  BY <1>1 DEF WillHold
<1>3. QED
  BY <1>2, NamespaceKeys DEF WillBe, W

LEMMA ErasedSurvives ==
    ASSUME NEW ns \in Kept, NEW m, \A k \in AllKeys : m[k] = Absent,
           NEW f, \A s \in Keys(ns) \cap Settings : f[s] = Default[s]
    PROVE  Survives(ns, m, f)
<1>1. Found(m) = {}
  BY FoundIsThere, KeyNames DEF Has
<1>2. \A s \in Settings : Restored(m)[s] = Default[s]
  BY <1>1 DEF Restored
<1>3. Survives(ns, m, Default)
  BY <1>2, LastingNames DEF Survives
<1>4. QED
  BY <1>3, SurvivesWith

\* Writes of one key each.
LEMMA OneWrite ==
    ASSUME NEW key, NEW v, NEW n
    PROVE  WillHold(<<Write({key}, v)>>, n, key, v)
<1> DEFINE W == <<Write({key}, v)>>
<1>1. Len(W) = 1 /\ W[1].keys = {key} /\ W[1].value = v
  BY DEF Write
<1> HIDE DEF W
<1>2. WillHold(W, n, key, v)
  BY <1>1 DEF WillHold
<1>3. QED
  BY <1>2 DEF W

\* The j-th of the writes is the last one of its key.
LEMMA LastWrite ==
    ASSUME NEW W, NEW key, NEW v, NEW n, NEW j \in 1..Len(W), W[j] = Write({key}, v),
           \A i \in (j + 1)..Len(W) : key \notin W[i].keys
    PROVE  WillHold(W, n, key, v)
  BY DEF WillHold, Write

LEMMA AddressHolds ==
    ASSUME NEW a \in Addresses, NEW n, NEW f
    PROVE  \E m : /\ WillBe(<<Put(a, "region"), Put(a, "community"), Put(a, "node")>>,
                            n, "lora_config", m)
                  /\ Survives("lora_config", m, With(f, a))
<1> DEFINE W == <<Put(a, "region"), Put(a, "community"), Put(a, "node")>>
<1>1. /\ Len(W) = 3 /\ W[1] = Write({"region"}, a["region"])
      /\ W[2] = Write({"community"}, a["community"]) /\ W[3] = Write({"node"}, a["node"])
  BY DEF Put
<1> HIDE DEF W
<1>2. WillHold(W, n, "region", a["region"])
  <2>1. 1 \in 1..Len(W) /\ \A i \in (1 + 1)..Len(W) : i = 2 \/ i = 3
    BY <1>1
  <2>2. \A i \in (1 + 1)..Len(W) : "region" \notin W[i].keys
    BY <1>1, <2>1 DEF Write
  <2>3. QED
    BY <1>1, <2>1, <2>2, LastWrite
<1>3. WillHold(W, n, "community", a["community"])
  <2>1. 2 \in 1..Len(W) /\ \A i \in (2 + 1)..Len(W) : i = 3
    BY <1>1
  <2>2. \A i \in (2 + 1)..Len(W) : "community" \notin W[i].keys
    BY <1>1, <2>1 DEF Write
  <2>3. QED
    BY <1>1, <2>1, <2>2, LastWrite
<1>4. WillHold(W, n, "node", a["node"])
  <2>1. 3 \in 1..Len(W) /\ \A i \in (3 + 1)..Len(W) : FALSE
    BY <1>1
  <2>2. QED
    BY <1>1, <2>1, LastWrite
<1>5. WillBe(W, n, "lora_config", a)
  BY <1>2, <1>3, <1>4, KeyNames DEF WillBe
<1>6. \A k \in {"region", "community", "node"} : Has(a, k)
  BY AddressesAssumption, AbsentAssumption DEF Has
<1>7. Survives("lora_config", a, With(f, a))
  <2>1. ASSUME NEW s \in {"region", "community", "node"}
        PROVE  Restored(a)[s] = With(f, a)[s]
    <3>1. s \in Found(a) /\ s \in Settings /\ s # "gw_pass"
      BY <1>6, FoundOf, KeyNames
    <3>2. Restored(a)[s] = a[s]
      BY <3>1 DEF Restored
    <3>3. With(f, a)[s] = a[s]
      BY <3>1, AddressesAssumption DEF With
    <3>4. QED
      BY <3>2, <3>3
  <2>2. QED
    BY <2>1, LastingNames DEF Survives
<1>8. QED
  BY <1>5, <1>7 DEF W

LEMMA ApPasswordHolds ==
    ASSUME NEW p \in ApPasswords, NEW n, NEW f, f["ap_password"] = p
    PROVE  \E m : /\ WillBe(<<Put(f, "ap_password")>>, n, "ap_config", m)
                  /\ Survives("ap_config", m, f)
<1> DEFINE m == [k \in {"ap_password"} |-> p]
<1>1. m["ap_password"] = p /\ Has(m, "ap_password")
  BY AbsentAssumption DEF Has
<1> HIDE DEF m
<1>2. WillBe(<<Put(f, "ap_password")>>, n, "ap_config", m)
  BY <1>1, OneWrite, KeyNames DEF WillBe, Put
<1>3. Restored(m)["ap_password"] = p
  <2>1. "ap_password" \in Found(m) /\ "ap_password" \in Settings
    BY <1>1, FoundOf, KeyNames
  <2>2. QED
    BY <1>1, <2>1 DEF Restored
<1>4. Survives("ap_config", m, f)
  BY <1>3, LastingNames DEF Survives
<1>5. QED
  BY <1>2, <1>4

\* A gateway without a password leaves none in flash, or a blank one.
LEMMA GatewayHolds ==
    ASSUME NEW g \in Gateways, NEW n, NEW f
    PROVE  \E m : /\ WillBe(GatewayWrites(g), n, "gateway_config", m)
                  /\ Survives("gateway_config", m, With(f, g))
<1> DEFINE W == GatewayWrites(g)
           written == \E j \in 6..Len(W) : W[j] = Write({"gw_pass"}, g["gw_pass"])
           m == [k \in GatewaySettings \cup {"gateway_pass"} |->
                   IF k = "gateway_pass" \/ (k = "gw_pass" /\ ~written) THEN Absent
                   ELSE g[k]]
<1>1. /\ Len(W) \in 5..7
      /\ W[1] = Write({"gw_pass"}, Absent)
      /\ W[2] = Write({"gateway_pass"}, Absent)
      /\ W[3] = Write({"gateway_type"}, g["gateway_type"])
      /\ W[4] = Write({"gateway_ip"}, g["gateway_ip"])
      /\ W[5] = Write({"gateway_port"}, g["gateway_port"])
      /\ \A j \in 6..Len(W) :
           \/ W[j] = Write({"gateway_user"}, g["gateway_user"])
           \/ j = Len(W) /\ W[j] = Write({"gw_pass"}, g["gw_pass"])
      /\ g["gw_pass"] # Blank => W[Len(W)] = Write({"gw_pass"}, g["gw_pass"])
  BY WritesOfGateway
<1>2. /\ m["gateway_type"] = g["gateway_type"] /\ m["gateway_ip"] = g["gateway_ip"]
      /\ m["gateway_port"] = g["gateway_port"] /\ m["gateway_pass"] = Absent
      /\ m["gw_pass"] = IF written THEN g["gw_pass"] ELSE Absent
  BY DEF GatewaySettings
<1> HIDE DEF W, written, m
<1>3. g["gw_pass"] # Blank => written
  <2> SUFFICES ASSUME g["gw_pass"] # Blank
               PROVE  written
    OBVIOUS
  <2>1. W[Len(W)] = Write({"gw_pass"}, g["gw_pass"])
    BY <1>1
  <2>2. Len(W) # 5
    <3>1. Write({"gw_pass"}, g["gw_pass"]) # Write({"gateway_port"}, g["gateway_port"])
      BY WriteEqual
    <3>2. QED
      BY <1>1, <2>1, <3>1
  <2>3. Len(W) \in 6..Len(W)
    <3>1. Len(W) \in 5..7
      BY <1>1
    <3>2. QED
      BY <2>2, <3>1
  <2>4. QED
    BY <2>1, <2>3 DEF written
<1>4. \A s \in {"gateway_type", "gateway_ip", "gateway_port", "gw_pass"} : g[s] # Absent
  BY GatewaysAssumption, AbsentAssumption DEF GatewaySettings
<1>5. ASSUME NEW j \in 1..5, NEW key, NEW v, W[j] = Write({key}, v),
             key \notin {"gateway_user", "gw_pass"},
             \A i \in (j + 1)..5 : key \notin W[i].keys
      PROVE  WillHold(W, n, key, v)
  <2>1. j \in 1..Len(W)
    BY <1>1
  <2>2. ASSUME NEW i \in (j + 1)..Len(W)
        PROVE  key \notin W[i].keys
    <3>1. i \in (j + 1)..5 \/ i \in 6..Len(W)
      BY <1>1
    <3>2. CASE i \in 6..Len(W)
      BY <1>1, <1>5, <3>2 DEF Write
    <3>3. QED
      BY <1>5, <3>1, <3>2
  <2>3. QED
    BY <1>5, <2>1, <2>2, LastWrite
<1>6. /\ WillHold(W, n, "gateway_pass", Absent)
      /\ WillHold(W, n, "gateway_type", g["gateway_type"])
      /\ WillHold(W, n, "gateway_ip", g["gateway_ip"])
      /\ WillHold(W, n, "gateway_port", g["gateway_port"])
  <2>1. /\ W[1].keys = {"gw_pass"} /\ W[2].keys = {"gateway_pass"}
        /\ W[3].keys = {"gateway_type"} /\ W[4].keys = {"gateway_ip"}
        /\ W[5].keys = {"gateway_port"}
    BY <1>1 DEF Write
  <2>2. /\ \A i \in (2 + 1)..5 : i = 3 \/ i = 4 \/ i = 5
        /\ \A i \in (3 + 1)..5 : i = 4 \/ i = 5
        /\ \A i \in (4 + 1)..5 : i = 5
        /\ \A i \in (5 + 1)..5 : FALSE
        /\ 2 \in 1..5 /\ 3 \in 1..5 /\ 4 \in 1..5 /\ 5 \in 1..5
    OBVIOUS
  <2>3. \A i \in (2 + 1)..5 : "gateway_pass" \notin W[i].keys
    BY <2>1, <2>2
  <2>4. \A i \in (3 + 1)..5 : "gateway_type" \notin W[i].keys
    BY <2>1, <2>2
  <2>5. \A i \in (4 + 1)..5 : "gateway_ip" \notin W[i].keys
    BY <2>1, <2>2
  <2>6. WillHold(W, n, "gateway_pass", Absent)
    BY <1>1, <1>5, <2>2, <2>3
  <2>7. WillHold(W, n, "gateway_type", g["gateway_type"])
    BY <1>1, <1>5, <2>2, <2>4
  <2>8. WillHold(W, n, "gateway_ip", g["gateway_ip"])
    BY <1>1, <1>5, <2>2, <2>5
  <2>9. WillHold(W, n, "gateway_port", g["gateway_port"])
    BY <1>1, <1>5, <2>2
  <2>10. QED
    BY <2>6, <2>7, <2>8, <2>9
<1>7. WillHold(W, n, "gw_pass", m["gw_pass"])
  <2>1. CASE written
    <3>1. PICK j \in 6..Len(W) : W[j] = Write({"gw_pass"}, g["gw_pass"])
      BY <2>1 DEF written
    <3>2. j = Len(W)
      <4>1. W[j] # Write({"gateway_user"}, g["gateway_user"])
        BY <3>1, WriteEqual
      <4>2. QED
        BY <1>1, <4>1
    <3>3. j \in 1..Len(W) /\ \A i \in (j + 1)..Len(W) : FALSE
      BY <1>1, <3>2
    <3>4. WillHold(W, n, "gw_pass", g["gw_pass"])
      BY <3>1, <3>3, LastWrite
    <3>5. QED
      BY <1>2, <2>1, <3>4
  <2>2. CASE ~written
    <3>1. 1 \in 1..Len(W)
      BY <1>1
    <3>2. ASSUME NEW i \in (1 + 1)..Len(W)
          PROVE  "gw_pass" \notin W[i].keys
      <4>1. i = 2 \/ i = 3 \/ i = 4 \/ i = 5 \/ i \in 6..Len(W)
        BY <1>1
      <4>2. CASE i \in 6..Len(W)
        <5>1. W[i] # Write({"gw_pass"}, g["gw_pass"])
          BY <2>2, <4>2 DEF written
        <5>2. W[i] = Write({"gateway_user"}, g["gateway_user"])
          BY <1>1, <4>2, <5>1
        <5>3. QED
          BY <5>2 DEF Write
      <4>3. QED
        BY <1>1, <4>1, <4>2 DEF Write
    <3>3. WillHold(W, n, "gw_pass", Absent)
      BY <1>1, <3>1, <3>2, LastWrite
    <3>4. QED
      BY <1>2, <2>2, <3>3
  <2>3. QED
    BY <2>1, <2>2
<1>8. WillBe(W, n, "gateway_config", m)
  BY <1>2, <1>6, <1>7, KeyNames DEF WillBe
<1>9. Survives("gateway_config", m, With(f, g))
  <2>1. \A s \in {"gateway_type", "gateway_ip", "gateway_port", "gw_pass"} :
          s \in Settings /\ With(f, g)[s] = g[s]
    BY KeyNames, GatewaysAssumption DEF With, GatewaySettings
  <2>2. CASE g["gateway_ip"] \in LongNames
    BY <2>1, <2>2 DEF Lasting, Survives
  <2>3. CASE g["gateway_ip"] \notin LongNames
    <3>1. Has(m, "gateway_type") /\ Has(m, "gateway_ip") /\ Has(m, "gateway_port")
      BY <1>2, <1>4 DEF Has
    <3>2. /\ {"gateway_type", "gateway_ip", "gateway_port"} \subseteq GatewayFound(m)
          /\ "gw_pass" \in GatewayFound(m) <=> written
      BY <1>2, <1>4, <2>3, <3>1 DEF GatewayFound, GatewaySettings, Has
    <3>3. \A s \in {"gateway_type", "gateway_ip", "gateway_port"} : s \in Found(m)
      BY <3>2, FoundOf
    <3>4. \A s \in {"gateway_type", "gateway_ip", "gateway_port"} : Restored(m)[s] = g[s]
      BY <1>2, <2>1, <3>3 DEF Restored
    <3>5. Restored(m)["gw_pass"] = g["gw_pass"]
      <4>1. CASE written
        <5>1. "gw_pass" \in Found(m) /\ Has(m, "gw_pass")
          BY <1>2, <1>4, <3>2, <4>1, FoundOf DEF Has
        <5>2. QED
          BY <1>2, <2>1, <4>1, <5>1 DEF Restored
      <4>2. CASE ~written
        <5>1. "gw_pass" \notin Found(m)
          BY <3>2, <4>2, FoundOf
        <5>2. QED
          BY <1>3, <2>1, <4>2, <5>1, DefaultOK DEF Restored
      <4>3. QED
        BY <4>1, <4>2
    <3>6. QED
      BY <2>1, <3>4, <3>5, LastingNames DEF Survives
  <2>4. QED
    BY <2>2, <2>3
<1>10. QED
  BY <1>8, <1>9 DEF W

---------------------------------------------------------------------------
(* Settings survive a restart.                                             *)

LEMMA SaveKept ==
    ASSUME SettingsKept, pc \in {"loop", "connecting"},
           NEW ns \in Namespaces, NEW writes, NEW now, NEW then,
           Save(ns, writes, now, then),
           \A j \in 1..Len(writes) : writes[j].keys \subseteq Keys(ns),
           \A s \in (AllKeys \cap Settings) \ Keys(ns) : then[s] = ram[s],
           ns \in Kept => \E m : WillBe(writes, nvs, ns, m) /\ Survives(ns, m, then)
    PROVE  SettingsKept' /\ OwnKeys'
<1>1. /\ pc' = "saving" /\ nvs' = nvs /\ failed' = failed
      /\ job'.namespace = ns /\ job'.writes = writes /\ job'.then = then
  BY DEF Save
<1>2. OwnKeys'
  BY <1>1 DEF OwnKeys
<1>3. ASSUME NEW n \in Kept, Intact(n)'
      PROVE  EndsWell(n)'
  <2>1. CASE n = ns
    <3>1. PICK m : WillBe(writes, nvs, ns, m) /\ Survives(ns, m, then)
      BY <2>1
    <3>2. QED
      BY <1>1, <2>1, <3>1 DEF EndsWell, WillBe, WillHold
  <2>2. CASE n # ns
    <3>1. n \notin failed
      BY <1>1, <1>3, <2>2 DEF Intact
    <3>2. Survives(n, nvs, ram)
      BY <3>1 DEF SettingsKept, Intact
    <3>3. n \in Namespaces /\ Keys(n) \subseteq AllKeys /\ Keys(n) \cap Keys(ns) = {}
      BY <2>2, NamespaceKeys
    <3>4. \A s \in Keys(n) \cap Settings : ram[s] = then[s]
      BY <3>3
    <3>5. Survives(n, nvs, then)
      BY <3>2, <3>4, SurvivesWith
    <3>6. WillBe(writes, nvs, n, nvs)
      BY <3>3 DEF WillBe, WillHold
    <3>7. QED
      BY <1>1, <3>5, <3>6 DEF EndsWell, WillBe, WillHold
  <2>3. QED
    BY <2>1, <2>2
<1>4. SettingsKept'
  BY <1>1, <1>3 DEF SettingsKept
<1>5. QED
  BY <1>2, <1>4

LEMMA CannotOpenKept ==
    ASSUME SettingsKept, pc \in {"loop", "connecting"},
           NEW ns \in Namespaces, NEW then, CannotOpen(ns, then),
           \A s \in (AllKeys \cap Settings) \ Keys(ns) : then[s] = ram[s]
    PROVE  SettingsKept' /\ OwnKeys'
<1>1. /\ pc' = "loop" /\ nvs' = nvs /\ failed' = failed \cup {ns} /\ ram' = then
  BY DEF CannotOpen
<1>2. ASSUME NEW n \in Kept, Intact(n)'
      PROVE  Survives(n, nvs, then)
  <2>1. n \notin failed /\ n # ns
    BY <1>1, <1>2 DEF Intact
  <2>2. Survives(n, nvs, ram)
    BY <2>1 DEF SettingsKept, Intact
  <2>3. n \in Namespaces /\ Keys(n) \subseteq AllKeys /\ Keys(n) \cap Keys(ns) = {}
    BY <2>1, NamespaceKeys
  <2>4. \A s \in Keys(n) \cap Settings : ram[s] = then[s]
    BY <2>3
  <2>5. QED
    BY <2>2, <2>4, SurvivesWith
<1>3. ASSUME NEW n \in Kept, Intact(n)'
      PROVE  Survives(n, nvs', ram')
  BY <1>1, <1>2, <1>3
<1>4. SettingsKept'
  BY <1>1, <1>3 DEF SettingsKept, Survives
<1>5. QED
  BY <1>1, <1>4 DEF OwnKeys

\* A step that saves nothing and changes no setting but those of the WiFi.
LEMMA QuietKept ==
    ASSUME SettingsKept, pc \in {"loop", "connecting"},
           pc' \in {"off", "loop", "connecting"}, UNCHANGED <<nvs, failed>>,
           \A s \in (AllKeys \cap Settings) \ Keys("wifi_config") : ram'[s] = ram[s]
    PROVE  SettingsKept' /\ OwnKeys'
<1>1. ASSUME NEW n \in Kept, Intact(n)'
      PROVE  Survives(n, nvs', ram')
  <2>1. Survives(n, nvs, ram)
    BY <1>1 DEF SettingsKept, Intact
  <2>2. n \in Namespaces /\ n # "wifi_config" /\ "wifi_config" \in Namespaces
    BY NamespaceKeys
  <2>3. Keys(n) \subseteq AllKeys /\ Keys(n) \cap Keys("wifi_config") = {}
    BY <2>2, NamespaceKeys
  <2>4. \A s \in Keys(n) \cap Settings : ram[s] = ram'[s]
    BY <2>3
  <2>5. Survives(n, nvs, ram')
    BY <2>1, <2>4, SurvivesWith
  <2>6. QED
    BY <2>5
<1>2. SettingsKept'
  BY <1>1 DEF SettingsKept, Survives
<1>3. QED
  BY <1>2 DEF OwnKeys

LEMMA RequestKept ==
    ASSUME TypeOK, SettingsKept, LoRaRequest \/ ApRequest \/ GatewayRequest \/ WiFiRequest
    PROVE  SettingsKept' /\ OwnKeys'
<1>1. DOMAIN ram = Settings
  BY DEF TypeOK
<1>2. \A ns \in Namespaces : \A j \in 1..Len(<<EraseAll(ns)>>) :
        <<EraseAll(ns)>>[j].keys \subseteq Keys(ns)
  BY DEF EraseAll, Write
<1>3. ASSUME NEW ns \in Kept
      PROVE  \E m : /\ WillBe(<<EraseAll(ns)>>, nvs, ns, m)
                    /\ \A f : (\A s \in Keys(ns) \cap Settings : f[s] = Default[s])
                                => Survives(ns, m, f)
  <2> DEFINE m == [k \in AllKeys |-> Absent]
  <2>1. \A k \in AllKeys : m[k] = Absent
    OBVIOUS
  <2> HIDE DEF m
  <2>2. WillBe(<<EraseAll(ns)>>, nvs, ns, m)
    BY <2>1, ErasedHolds, NamespaceKeys
  <2>3. \A f : (\A s \in Keys(ns) \cap Settings : f[s] = Default[s]) => Survives(ns, m, f)
    BY <2>1, ErasedSurvives
  <2>4. QED
    BY <2>2, <2>3
<1>4. /\ {"lora_config", "ap_config", "gateway_config", "wifi_config"} \subseteq Namespaces
      /\ {"lora_config", "ap_config", "gateway_config"} \subseteq Kept
      /\ "wifi_config" \notin Kept
  BY NamespaceKeys DEF Kept, Namespaces
<1>5. ASSUME NEW a \in Addresses, SetAddress(a)
      PROVE  SettingsKept' /\ OwnKeys'
  <2> DEFINE new == With(ram, a)
             writes == <<Put(a, "region"), Put(a, "community"), Put(a, "node")>>
  <2>1. \E m : WillBe(writes, nvs, "lora_config", m) /\ Survives("lora_config", m, new)
    BY AddressHolds
  <2>2. \A s \in (AllKeys \cap Settings) \ Keys("lora_config") : new[s] = ram[s]
    BY AddressesAssumption, KeyNames DEF With
  <2>3. \A j \in 1..Len(writes) : writes[j].keys \subseteq Keys("lora_config")
    BY KeyNames DEF Put, Write
  <2>4. /\ pc \in {"loop", "connecting"}
        /\ Save("lora_config", writes, new, new) \/ CannotOpen("lora_config", new)
    BY <1>5 DEF SetAddress
  <2> HIDE DEF new, writes
  <2>5. QED
    BY <1>4, <2>1, <2>2, <2>3, <2>4, SaveKept, CannotOpenKept
<1>6. ASSUME handleApiLoRaClear
      PROVE  SettingsKept' /\ OwnKeys'
  <2> DEFINE new == Cleared(ram, Keys("lora_config"))
             writes == <<EraseAll("lora_config")>>
  <2>1. \E m : WillBe(writes, nvs, "lora_config", m) /\ Survives("lora_config", m, new)
    <3>1. \A s \in Keys("lora_config") \cap Settings : new[s] = Default[s]
      BY DEF Cleared
    <3> HIDE DEF new
    <3>2. QED
      BY <1>3, <1>4, <3>1
  <2>2. \A s \in (AllKeys \cap Settings) \ Keys("lora_config") : new[s] = ram[s]
    BY DEF Cleared
  <2>3. \A j \in 1..Len(writes) : writes[j].keys \subseteq Keys("lora_config")
    BY <1>2, <1>4
  <2>4. /\ pc \in {"loop", "connecting"}
        /\ Save("lora_config", writes, ram, new) \/ CannotOpen("lora_config", ram)
    BY <1>6 DEF handleApiLoRaClear
  <2> HIDE DEF new, writes
  <2>5. QED
    BY <1>4, <2>1, <2>2, <2>3, <2>4, SaveKept, CannotOpenKept
<1>7. ASSUME NEW p \in ApPasswords, handleApiPasswordChange(p)
      PROVE  SettingsKept' /\ OwnKeys'
  <2> DEFINE new == [ram EXCEPT !["ap_password"] = p]
             writes == <<Put(new, "ap_password")>>
  <2>0. new["ap_password"] = p
    BY <1>1, KeyNames
  <2>2. \A s \in (AllKeys \cap Settings) \ Keys("ap_config") : new[s] = ram[s]
    BY <1>1, KeyNames
  <2>3. \A j \in 1..Len(writes) : writes[j].keys \subseteq Keys("ap_config")
    BY KeyNames DEF Put, Write
  <2>4. /\ pc \in {"loop", "connecting"}
        /\ Save("ap_config", writes, new, new) \/ CannotOpen("ap_config", new)
    BY <1>7 DEF handleApiPasswordChange
  <2> HIDE DEF new
  <2>1. \E m : WillBe(writes, nvs, "ap_config", m) /\ Survives("ap_config", m, new)
    BY <2>0, ApPasswordHolds
  <2> HIDE DEF writes
  <2>5. QED
    BY <1>4, <2>1, <2>2, <2>3, <2>4, SaveKept, CannotOpenKept
<1>8. ASSUME handleApiPasswordReset
      PROVE  SettingsKept' /\ OwnKeys'
  <2> DEFINE new == Cleared(ram, {"ap_password"})
             writes == <<EraseAll("ap_config")>>
  <2>1. \E m : WillBe(writes, nvs, "ap_config", m) /\ Survives("ap_config", m, new)
    <3>1. \A s \in Keys("ap_config") \cap Settings : new[s] = Default[s]
      BY KeyNames DEF Cleared
    <3> HIDE DEF new
    <3>2. QED
      BY <1>3, <1>4, <3>1
  <2>2. \A s \in (AllKeys \cap Settings) \ Keys("ap_config") : new[s] = ram[s]
    BY KeyNames DEF Cleared
  <2>3. \A j \in 1..Len(writes) : writes[j].keys \subseteq Keys("ap_config")
    BY <1>2, <1>4
  <2>4. /\ pc \in {"loop", "connecting"}
        /\ Save("ap_config", writes, ram, new) \/ CannotOpen("ap_config", ram)
    BY <1>8 DEF handleApiPasswordReset
  <2> HIDE DEF new, writes
  <2>5. QED
    BY <1>4, <2>1, <2>2, <2>3, <2>4, SaveKept, CannotOpenKept
<1>9. ASSUME NEW g \in Gateways, SaveGateway(g)
      PROVE  SettingsKept' /\ OwnKeys'
  <2> DEFINE new == With(ram, g)
             writes == GatewayWrites(g)
  <2>1. \E m : WillBe(writes, nvs, "gateway_config", m) /\ Survives("gateway_config", m, new)
    BY GatewayHolds
  <2>2. \A s \in (AllKeys \cap Settings) \ Keys("gateway_config") : new[s] = ram[s]
    BY GatewaysAssumption, KeyNames DEF With, GatewaySettings
  <2>3. ASSUME NEW j \in 1..Len(writes)
        PROVE  writes[j].keys \subseteq Keys("gateway_config")
    <3>1. Len(writes) \in 5..7
      BY WritesOfGateway
    <3>2. j - 1 \in Nat /\ j - 1 < Len(GatewayWrites(g)) /\ (j - 1) + 1 = j
      BY <3>1
    <3>3. PICK key \in GatewayKeys : \E v : writes[j] = Write({key}, v)
      BY <3>2, OneKeyEach
    <3>4. QED
      BY <3>3 DEF Write, GatewayKeys
  <2>4. /\ pc \in {"loop", "connecting"}
        /\ Save("gateway_config", writes, ram, new) \/ CannotOpen("gateway_config", new)
    BY <1>9 DEF SaveGateway
  <2> HIDE DEF new, writes
  <2>5. QED
    BY <1>4, <2>1, <2>2, <2>3, <2>4, SaveKept, CannotOpenKept
<1>10. ASSUME handleApiGatewayClear
       PROVE  SettingsKept' /\ OwnKeys'
  <2> DEFINE new == Cleared(ram, GatewaySettings)
             writes == <<EraseAll("gateway_config")>>
  <2>1. \E m : WillBe(writes, nvs, "gateway_config", m) /\ Survives("gateway_config", m, new)
    <3>1. \A s \in Keys("gateway_config") \cap Settings : new[s] = Default[s]
      BY KeyNames DEF Cleared, GatewaySettings
    <3> HIDE DEF new
    <3>2. QED
      BY <1>3, <1>4, <3>1
  <2>2. \A s \in (AllKeys \cap Settings) \ Keys("gateway_config") : new[s] = ram[s]
    BY KeyNames DEF Cleared, GatewaySettings
  <2>3. \A j \in 1..Len(writes) : writes[j].keys \subseteq Keys("gateway_config")
    BY <1>2, <1>4
  <2>4. /\ pc \in {"loop", "connecting"}
        /\ Save("gateway_config", writes, ram, new) \/ CannotOpen("gateway_config", new)
    BY <1>10 DEF handleApiGatewayClear
  <2> HIDE DEF new, writes
  <2>5. QED
    BY <1>4, <2>1, <2>2, <2>3, <2>4, SaveKept, CannotOpenKept
<1>11. ASSUME NEW ssid, NEW password, handleApiWifiConnect(ssid, password)
       PROVE  SettingsKept' /\ OwnKeys'
  <2>1. \A s \in (AllKeys \cap Settings) \ Keys("wifi_config") : ram'[s] = ram[s]
    BY <1>1, <1>11, KeyNames DEF handleApiWifiConnect
  <2>2. /\ pc \in {"loop", "connecting"} /\ pc' \in {"off", "loop", "connecting"}
        /\ UNCHANGED <<nvs, failed>>
    BY <1>11 DEF handleApiWifiConnect
  <2>3. QED
    BY <2>1, <2>2, QuietKept
<1>12. ASSUME handleApiWifiDisconnect
       PROVE  SettingsKept' /\ OwnKeys'
  BY <1>12, QuietKept DEF handleApiWifiDisconnect
<1>13. ASSUME handleApiWifiClear
       PROVE  SettingsKept' /\ OwnKeys'
  <2> DEFINE new == Cleared(ram, Keys("wifi_config"))
             writes == <<EraseAll("wifi_config")>>
  <2>1. \A s \in (AllKeys \cap Settings) \ Keys("wifi_config") : new[s] = ram[s]
    BY DEF Cleared
  <2>2. \A j \in 1..Len(writes) : writes[j].keys \subseteq Keys("wifi_config")
    BY <1>2, <1>4
  <2>3. /\ pc \in {"loop", "connecting"}
        /\ Save("wifi_config", writes, ram, new) \/ CannotOpen("wifi_config", ram)
    BY <1>13 DEF handleApiWifiClear
  <2> HIDE DEF new, writes
  <2>4. QED
    BY <1>4, <2>1, <2>2, <2>3, SaveKept, CannotOpenKept
<1>14. QED
  BY <1>5, <1>6, <1>7, <1>8, <1>9, <1>10, <1>11, <1>12, <1>13
  DEF LoRaRequest, ApRequest, GatewayRequest, WiFiRequest

\* What is held without writes is there.
LEMMA AllHeld ==
    ASSUME NEW n, NEW k, NEW v, WillHold(<<>>, n, k, v)
    PROVE  n[k] = v
  BY DEF WillHold

LEMMA WriteKeyKept ==
    ASSUME Inv, OwnKeys, SettingsKept, WriteKey
    PROVE  OwnKeys' /\ SettingsKept'
<1>1. /\ pc = "saving" /\ pc' = "saving" /\ job.writes # <<>>
      /\ UNCHANGED <<ram, failed>>
  BY DEF WriteKey
<1>2. PICK key \in Head(job.writes).keys :
        job' = [job EXCEPT !.writes =
              (IF Head(job.writes).keys = {key} THEN <<>>
               ELSE <<Write(Head(job.writes).keys \ {key}, Head(job.writes).value)>>)
                 \o Tail(@)]
  BY DEF WriteKey
<1>3. /\ job'.namespace = job.namespace /\ job'.then = job.then /\ job'.ok = job.ok
      /\ Head(job.writes).keys = {key} => job'.writes = Tail(job.writes)
      /\ Head(job.writes).keys # {key} =>
           job'.writes = <<Write(Head(job.writes).keys \ {key}, Head(job.writes).value)>>
                           \o Tail(job.writes)
      /\ Head(job.writes) \in Writes
  BY <1>1, <1>2, JobAfterKey
<1>4. /\ job.writes \in Seq(Writes) /\ Len(job.writes) \in Nat
      /\ Tail(job.writes) \in Seq(Writes) /\ Head(job.writes) = job.writes[1]
      /\ Len(job.writes) >= 1 /\ Len(Tail(job.writes)) = Len(job.writes) - 1
      /\ \A j \in 1..Len(Tail(job.writes)) : Tail(job.writes)[j] = job.writes[j + 1]
  BY <1>1, HeadAndTail DEF Inv, JobOK
<1>5. /\ Head(job.writes).keys \subseteq Keys(job.namespace)
      /\ \A j \in 1..Len(Tail(job.writes)) :
           Tail(job.writes)[j].keys \subseteq Keys(job.namespace)
  <2>1. 1 \in 1..Len(job.writes)
        /\ \A j \in 1..Len(Tail(job.writes)) : j + 1 \in 1..Len(job.writes)
    BY <1>4
  <2>2. QED
    BY <1>1, <1>4, <2>1 DEF OwnKeys
<1>6. ASSUME NEW j \in 1..Len(job'.writes)
      PROVE  job'.writes[j].keys \subseteq Keys(job.namespace)
  <2>1. CASE Head(job.writes).keys = {key}
    BY <1>3, <1>5, <2>1
  <2>2. CASE Head(job.writes).keys # {key}
    <3> DEFINE x == Write(Head(job.writes).keys \ {key}, Head(job.writes).value)
    <3>1. x \in Writes /\ x.keys \subseteq Keys(job.namespace)
      BY <1>3, <1>5 DEF Writes, Write
    <3>2. job'.writes = <<x>> \o Tail(job.writes)
      BY <1>3, <2>2
    <3> HIDE DEF x
    <3>3. /\ Len(job'.writes) = Len(Tail(job.writes)) + 1 /\ job'.writes[1] = x
          /\ \A i \in 1..Len(Tail(job.writes)) : job'.writes[i + 1] = Tail(job.writes)[i]
      BY <1>4, <3>1, <3>2, PutInFront
    <3>4. j = 1 \/ (j - 1 \in 1..Len(Tail(job.writes)) /\ (j - 1) + 1 = j)
      BY <1>4, <3>3
    <3>5. QED
      BY <1>5, <3>1, <3>3, <3>4
  <2>3. QED
    BY <2>1, <2>2
<1>7. OwnKeys'
  BY <1>3, <1>6 DEF OwnKeys
<1>8. ASSUME NEW ns \in Kept, Intact(ns)'
      PROVE  EndsWell(ns)'
  <2>1. Intact(ns)
    BY <1>1, <1>3, <1>8 DEF Intact
  <2>2. PICK m : WillBe(job.writes, nvs, ns, m) /\ Survives(ns, m, job.then)
    BY <1>1, <2>1 DEF SettingsKept, EndsWell
  <2>3. Keys(ns) \subseteq AllKeys
    BY NamespaceKeys
  <2>4. \A k \in Keys(ns) \ {"gateway_user"} : WillHold(job'.writes, nvs', k, m[k])
    BY <2>2, <2>3, WriteKeyHolds DEF WillBe
  <2>5. WillBe(job'.writes, nvs', ns, m) /\ Survives(ns, m, job'.then)
    BY <1>3, <2>2, <2>4 DEF WillBe
  <2>6. QED
    BY <2>5 DEF EndsWell, WillBe, WillHold, Survives
<1>9. QED
  BY <1>1, <1>7, <1>8 DEF SettingsKept

LEMMA WriteFailsKept ==
    ASSUME Inv, OwnKeys, SettingsKept, WriteFails
    PROVE  OwnKeys' /\ SettingsKept'
<1>1. /\ pc = "saving" /\ pc' = "saving" /\ job.writes # <<>>
      /\ job' = [job EXCEPT !.writes = Tail(@), !.ok = FALSE]
      /\ failed' = failed \cup {job.namespace}
      /\ UNCHANGED <<ram, nvs>>
  BY DEF WriteFails
<1>2. /\ job.writes \in Seq(Writes) /\ Len(job.writes) \in Nat /\ Len(job.writes) >= 1
      /\ Head(job.writes) = job.writes[1] /\ Len(Tail(job.writes)) = Len(job.writes) - 1
      /\ \A j \in 1..Len(Tail(job.writes)) : Tail(job.writes)[j] = job.writes[j + 1]
      /\ job.namespace \in Namespaces
  BY <1>1, HeadAndTail DEF Inv, JobOK
<1>3. /\ job'.writes = Tail(job.writes) /\ job'.namespace = job.namespace
      /\ job'.then = job.then /\ job'.ok = FALSE
  BY <1>1 DEF Inv, JobOK
<1>4. OwnKeys'
  <2>1. ASSUME NEW j \in 1..Len(Tail(job.writes))
        PROVE  Tail(job.writes)[j].keys \subseteq Keys(job.namespace)
    <3>1. j + 1 \in 1..Len(job.writes)
      BY <1>2
    <3>2. QED
      BY <1>1, <1>2, <3>1 DEF OwnKeys
  <2>2. QED
    BY <1>3, <2>1 DEF OwnKeys
<1>5. ASSUME NEW ns \in Kept, Intact(ns)'
      PROVE  EndsWell(ns)'
  <2>1. ns # job.namespace /\ ns \notin failed
    BY <1>1, <1>3, <1>5 DEF Intact
  <2>2. PICK m : WillBe(job.writes, nvs, ns, m) /\ Survives(ns, m, job.then)
    BY <1>1, <2>1 DEF SettingsKept, Intact, EndsWell
  <2>3. Keys(ns) \cap Keys(job.namespace) = {}
    BY <1>2, <2>1, NamespaceKeys
  <2>4. Head(job.writes).keys \subseteq Keys(job.namespace)
    <3>1. 1 \in 1..Len(job.writes)
      BY <1>2
    <3>2. QED
      BY <1>1, <1>2, <3>1 DEF OwnKeys
  <2>5. \A k \in Keys(ns) \ {"gateway_user"} : WillHold(Tail(job.writes), nvs, k, m[k])
    BY <1>1, <1>2, <2>2, <2>3, <2>4, HoldTail DEF WillBe
  <2>6. WillBe(job'.writes, nvs', ns, m) /\ Survives(ns, m, job'.then)
    BY <1>1, <1>3, <2>2, <2>5 DEF WillBe
  <2>7. QED
    BY <2>6 DEF EndsWell, WillBe, WillHold, Survives
<1>6. QED
  BY <1>1, <1>4, <1>5 DEF SettingsKept

LEMMA FinishKept ==
    ASSUME Inv, SettingsKept, Finish
    PROVE  OwnKeys' /\ SettingsKept'
<1>1. /\ pc = "saving" /\ pc' = "loop" /\ job.writes = <<>>
      /\ ram' = job.then /\ nvs' = nvs
      /\ IF job.ok THEN failed' = failed \ {job.namespace} ELSE failed' = failed
  BY DEF Finish
<1>2. ~job.ok => job.namespace \in failed
  BY <1>1 DEF Inv, FailureKnown
<1>3. ASSUME NEW ns \in Kept, Intact(ns)'
      PROVE  Survives(ns, nvs, job.then)
  <2>1. ns \notin failed'
    BY <1>1, <1>3 DEF Intact
  <2>2. Intact(ns)
    BY <1>1, <1>2, <2>1 DEF Intact
  <2>3. PICK m : WillBe(job.writes, nvs, ns, m) /\ Survives(ns, m, job.then)
    BY <1>1, <2>2 DEF SettingsKept, EndsWell
  <2>4. \A k \in Keys(ns) \ {"gateway_user"} : nvs[k] = m[k]
    BY <1>1, <2>3, AllHeld DEF WillBe
  <2>5. QED
    BY <2>3, <2>4, SurvivesSame
<1>4. ASSUME NEW ns \in Kept, Intact(ns)'
      PROVE  Survives(ns, nvs', ram')
  BY <1>1, <1>3, <1>4
<1>5. QED
  BY <1>1, <1>4 DEF SettingsKept, Survives, OwnKeys

LEMMA ConnectedKept ==
    ASSUME SettingsKept, Connected
    PROVE  OwnKeys' /\ SettingsKept'
<1> DEFINE writes == <<Put(ram, "ssid"), Put(ram, "wifi_password")>>
<1>1. \A j \in 1..Len(writes) : writes[j].keys \subseteq Keys("wifi_config")
  BY KeyNames DEF Put, Write
<1>2. /\ pc \in {"loop", "connecting"}
      /\ Save("wifi_config", writes, ram, ram) \/ CannotOpen("wifi_config", ram)
  BY DEF Connected, SaveWiFi
<1>3. "wifi_config" \in Namespaces \ Kept
  BY NamespaceKeys
<1> HIDE DEF writes
<1>4. QED
  BY <1>1, <1>2, <1>3, SaveKept, CannotOpenKept

LEMMA NextKept ==
    ASSUME Inv, OwnKeys, SettingsKept, [Next]_vars
    PROVE  OwnKeys' /\ SettingsKept'
<1>1. CASE LoRaRequest \/ ApRequest \/ GatewayRequest \/ WiFiRequest
  BY <1>1, RequestKept DEF Inv
<1>2. CASE WriteKey
  BY <1>2, WriteKeyKept
<1>3. CASE WriteFails
  BY <1>3, WriteFailsKept
<1>4. CASE Finish
  BY <1>4, FinishKept
<1>5. CASE Connected
  BY <1>5, ConnectedKept
<1>6. CASE NotConnected
  BY <1>6, QuietKept DEF NotConnected
<1>7. CASE setup
  <2>1. pc' # "saving" /\ ram' = Restored(nvs')
    BY <1>7 DEF setup
  <2>2. QED
    BY <2>1 DEF OwnKeys, SettingsKept, Survives
<1>8. CASE PowerLoss
  BY <1>8 DEF PowerLoss, OwnKeys, SettingsKept
<1>9. CASE UNCHANGED vars
  <2>1. OwnKeys'
    BY <1>9 DEF vars, OwnKeys
  <2>2. SettingsKept'
    BY <1>9 DEF vars, SettingsKept, Intact, Survives, EndsWell, WillBe, WillHold
  <2>3. QED
    BY <2>1, <2>2
<1>10. QED
  BY <1>1, <1>2, <1>3, <1>4, <1>5, <1>6, <1>7, <1>8, <1>9 DEF Next, Node

\* README line 35, "All configurations survive reboots": after any sequence of
\* saves, clears, failed writes and power losses, a restart now would bring back
\* the settings of every namespace whose last save did not fail, the gateway's
\* unless its host name does not fit.
THEOREM SettingsAreKept == Spec => []SettingsSurviveRestart
<1>1. Init => OwnKeys /\ SettingsKept
  BY DEF Init, OwnKeys, SettingsKept
<1>2. Inv /\ OwnKeys /\ SettingsKept /\ [Next]_vars => (OwnKeys /\ SettingsKept)'
  BY NextKept
<1>3. OwnKeys /\ SettingsKept => SettingsSurviveRestart
  BY DEF SettingsKept, SettingsSurviveRestart, Survives, Intact, Kept
<1>4. QED
  BY <1>1, <1>2, <1>3, InvHolds, PTL DEF Spec

---------------------------------------------------------------------------
(* The WiFi's credentials in flash have worked.                            *)

LEMMA TriedSame ==
    ASSUME NEW n, NEW m, Tried(m), \A k \in {"ssid", "wifi_password"} : n[k] = m[k]
    PROVE  Tried(n)
  BY KeyNames DEF Tried, Has

\* A step that leaves flash and what has worked alone, and takes up no save of
\* the WiFi's credentials.
LEMMA UntouchedTried ==
    ASSUME WiFiTried, ~(pc = "saving" /\ job.namespace = "wifi_config"),
           ~(pc' = "saving" /\ job'.namespace = "wifi_config"),
           "wifi_config" \notin failed' \cup torn' => "wifi_config" \notin failed \cup torn,
           UNCHANGED <<nvs, worked>>
    PROVE  WiFiTried'
  BY DEF WiFiTried, Tried, Has

LEMMA SaveTried ==
    ASSUME WiFiTried, pc \in {"loop", "connecting"},
           NEW ns \in Namespaces, ns # "wifi_config", NEW writes, NEW now, NEW then,
           Save(ns, writes, now, then) \/ CannotOpen(ns, then), worked' = worked
    PROVE  WiFiTried'
  BY UntouchedTried DEF Save, CannotOpen

LEMMA ErasedTried ==
    ASSUME WiFiTried, handleApiWifiClear
    PROVE  WiFiTried'
<1>1. CASE Save("wifi_config", <<EraseAll("wifi_config")>>,
                ram, Cleared(ram, Keys("wifi_config")))
  <2> DEFINE m == [k \in AllKeys |-> Absent]
  <2>1. (\A k \in AllKeys : m[k] = Absent) /\ "ssid" \in AllKeys
    BY KeyNames
  <2> HIDE DEF m
  <2>2. WillBe(<<EraseAll("wifi_config")>>, nvs, "wifi_config", m)
    BY <2>1, ErasedHolds, NamespaceKeys
  <2>3. Tried(m)'
    BY <2>1, KeyNames DEF Tried, Has
  <2>4. /\ pc' = "saving" /\ job'.namespace = "wifi_config" /\ nvs' = nvs
        /\ job'.writes = <<EraseAll("wifi_config")>>
    BY <1>1 DEF Save
  <2>5. (WillBe(job.writes, nvs, "wifi_config", m) /\ Tried(m))'
    BY <2>2, <2>3, <2>4 DEF WillBe, WillHold
  <2>6. QED
    BY <2>4, <2>5 DEF WiFiTried
<1>2. CASE CannotOpen("wifi_config", ram)
  BY <1>2 DEF CannotOpen, WiFiTried
<1>3. QED
  BY <1>1, <1>2 DEF handleApiWifiClear

LEMMA ConnectedTried ==
    ASSUME WiFiTried, Connected
    PROVE  WiFiTried'
<1> DEFINE W == <<Put(ram, "ssid"), Put(ram, "wifi_password")>>
<1>1. CASE Save("wifi_config", W, ram, ram)
  <2>1. /\ pc' = "saving" /\ job'.namespace = "wifi_config" /\ nvs' = nvs /\ job'.writes = W
    BY <1>1 DEF Save
  <2>2. /\ Len(W) = 2 /\ W[1] = Write({"ssid"}, ram["ssid"])
        /\ W[2] = Write({"wifi_password"}, ram["wifi_password"])
    BY DEF Put
  <2> HIDE DEF W
  <2> DEFINE m == [k \in {"ssid", "wifi_password"} |-> ram[k]]
  <2>3. m["ssid"] = ram["ssid"] /\ m["wifi_password"] = ram["wifi_password"]
    OBVIOUS
  <2> HIDE DEF m
  <2>4. WillHold(W, nvs, "ssid", m["ssid"])
    <3>1. 1 \in 1..Len(W) /\ \A i \in (1 + 1)..Len(W) : i = 2
      BY <2>2
    <3>2. \A i \in (1 + 1)..Len(W) : "ssid" \notin W[i].keys
      BY <2>2, <3>1 DEF Write
    <3>3. QED
      BY <2>2, <2>3, <3>1, <3>2, LastWrite
  <2>5. WillHold(W, nvs, "wifi_password", m["wifi_password"])
    <3>1. 2 \in 1..Len(W) /\ \A i \in (2 + 1)..Len(W) : FALSE
      BY <2>2
    <3>2. QED
      BY <2>2, <2>3, <3>1, LastWrite
  <2>6. WillBe(W, nvs, "wifi_config", m)
    BY <2>4, <2>5, KeyNames DEF WillBe
  <2>7. <<m["ssid"], m["wifi_password"]>> \in worked'
    BY <2>3 DEF Connected
  <2>8. QED
    BY <2>1, <2>6, <2>7 DEF WiFiTried, WillBe, WillHold, Tried
<1>2. CASE CannotOpen("wifi_config", ram)
  BY <1>2 DEF CannotOpen, WiFiTried
<1>3. QED
  BY <1>1, <1>2 DEF Connected, SaveWiFi

LEMMA WriteKeyTried ==
    ASSUME Inv, OwnKeys, WiFiTried, WriteKey
    PROVE  WiFiTried'
<1>1. /\ pc = "saving" /\ pc' = "saving" /\ job.writes # <<>>
      /\ UNCHANGED <<failed, torn, worked>>
      /\ job'.namespace = job.namespace /\ job'.ok = job.ok
  BY DEF WriteKey, Inv, JobOK
<1>2. {"ssid", "wifi_password"} \subseteq AllKeys
  BY KeyNames
<1>3. CASE job.namespace = "wifi_config"
  <2> SUFFICES ASSUME job.ok
               PROVE  WiFiTried'
    BY <1>1, <1>3 DEF WiFiTried
  <2>1. PICK m : WillBe(job.writes, nvs, "wifi_config", m) /\ Tried(m)
    BY <1>1, <1>3 DEF WiFiTried
  <2>2. \A k \in {"ssid", "wifi_password"} : WillHold(job'.writes, nvs', k, m[k])
    BY <1>2, <2>1, KeyNames, WriteKeyHolds DEF WillBe
  <2>3. WillBe(job'.writes, nvs', "wifi_config", m)
    BY <2>2, KeyNames DEF WillBe
  <2>4. (WillBe(job.writes, nvs, "wifi_config", m) /\ Tried(m))'
    BY <1>1, <2>1, <2>3 DEF WillBe, WillHold, Tried, Has
  <2>5. QED
    BY <1>1, <1>3, <2>4 DEF WiFiTried
<1>4. CASE job.namespace # "wifi_config"
  <2>1. /\ job.writes \in Seq(Writes) /\ job.namespace \in Namespaces /\ DOMAIN nvs = AllKeys
        /\ Len(job.writes) \in Nat /\ Len(job.writes) >= 1 /\ Head(job.writes) = job.writes[1]
    BY <1>1, HeadAndTail DEF Inv, JobOK, TypeOK
  <2>2. Head(job.writes).keys \cap {"ssid", "wifi_password"} = {}
    <3>1. 1 \in 1..Len(job.writes)
      BY <2>1
    <3>2. Head(job.writes).keys \subseteq Keys(job.namespace)
      BY <1>1, <2>1, <3>1 DEF OwnKeys
    <3>3. Keys(job.namespace) \cap Keys("wifi_config") = {}
      BY <1>4, <2>1, NamespaceKeys
    <3>4. QED
      BY <3>2, <3>3, KeyNames
  <2>3. PICK key \in Head(job.writes).keys :
          nvs' = [nvs EXCEPT ![key] = Head(job.writes).value]
    BY DEF WriteKey
  <2>4. \A k \in {"ssid", "wifi_password"} : nvs'[k] = nvs[k]
    BY <1>2, <2>1, <2>2, <2>3
  <2>5. QED
    BY <1>1, <1>4, <2>4, KeyNames DEF WiFiTried, Tried, Has
<1>5. QED
  BY <1>3, <1>4

LEMMA FinishTried ==
    ASSUME Inv, WiFiTried, Finish
    PROVE  WiFiTried'
<1>1. /\ pc = "saving" /\ pc' = "loop" /\ job.writes = <<>> /\ UNCHANGED <<nvs, worked>>
      /\ IF job.ok THEN failed' = failed \ {job.namespace} /\ torn' = torn \ {job.namespace}
                   ELSE failed' = failed /\ torn' = torn
  BY DEF Finish
<1>2. ~job.ok => job.namespace \in failed
  BY <1>1 DEF Inv, FailureKnown
<1>3. CASE job.namespace # "wifi_config"
  BY <1>1, <1>3, UntouchedTried
<1>4. CASE job.namespace = "wifi_config" /\ ~job.ok
  BY <1>1, <1>2, <1>4 DEF WiFiTried
<1>5. CASE job.namespace = "wifi_config" /\ job.ok
  <2>1. PICK m : WillBe(<<>>, nvs, "wifi_config", m) /\ Tried(m)
    BY <1>1, <1>5 DEF WiFiTried
  <2>2. \A k \in {"ssid", "wifi_password"} : nvs[k] = m[k]
    BY <2>1, AllHeld, KeyNames DEF WillBe
  <2>3. Tried(nvs)
    BY <2>1, <2>2, TriedSame
  <2>4. QED
    BY <1>1, <2>3 DEF WiFiTried, Tried, Has
<1>6. QED
  BY <1>3, <1>4, <1>5

LEMMA NextTried ==
    ASSUME Inv, OwnKeys, WiFiTried, [Next]_vars
    PROVE  WiFiTried'
<1>1. /\ {"lora_config", "ap_config", "gateway_config"} \subseteq Namespaces
      /\ "wifi_config" \notin {"lora_config", "ap_config", "gateway_config"}
  BY DEF Namespaces
<1>2. CASE LoRaRequest
  BY <1>1, <1>2, SaveTried DEF LoRaRequest, SetAddress, handleApiLoRaClear
<1>3. CASE ApRequest
  BY <1>1, <1>3, SaveTried DEF ApRequest, handleApiPasswordChange, handleApiPasswordReset
<1>4. CASE GatewayRequest
  BY <1>1, <1>4, SaveTried DEF GatewayRequest, SaveGateway, handleApiGatewayClear
<1>5. CASE WiFiRequest
  <2>1. ASSUME NEW ssid, NEW password, handleApiWifiConnect(ssid, password)
        PROVE  WiFiTried'
    BY <2>1, UntouchedTried DEF handleApiWifiConnect
  <2>2. ASSUME handleApiWifiDisconnect
        PROVE  WiFiTried'
    BY <2>2, UntouchedTried DEF handleApiWifiDisconnect
  <2>3. QED
    BY <1>5, <2>1, <2>2, ErasedTried DEF WiFiRequest
<1>6. CASE WriteKey
  BY <1>6, WriteKeyTried
<1>7. CASE WriteFails
  <2>1. /\ pc = "saving" /\ pc' = "saving" /\ UNCHANGED <<nvs, torn, worked>>
        /\ job'.namespace = job.namespace /\ job'.ok = FALSE
        /\ failed' = failed \cup {job.namespace}
    BY <1>7 DEF WriteFails, Inv, JobOK
  <2>2. CASE job.namespace = "wifi_config"
    BY <2>1, <2>2 DEF WiFiTried
  <2>3. CASE job.namespace # "wifi_config"
    BY <2>1, <2>3, UntouchedTried
  <2>4. QED
    BY <2>2, <2>3
<1>8. CASE Finish
  BY <1>8, FinishTried
<1>9. CASE Connected
  BY <1>9, ConnectedTried
<1>10. CASE NotConnected
  BY <1>10, UntouchedTried DEF NotConnected
<1>11. CASE setup
  BY <1>11, UntouchedTried DEF setup
<1>12. CASE PowerLoss
  <2>1. CASE pc = "saving" /\ job.namespace = "wifi_config"
    BY <1>12, <2>1 DEF PowerLoss, WiFiTried
  <2>2. CASE ~(pc = "saving" /\ job.namespace = "wifi_config")
    BY <1>12, <2>2, UntouchedTried DEF PowerLoss
  <2>3. QED
    BY <2>1, <2>2
<1>13. CASE UNCHANGED vars
  BY <1>13 DEF vars, WiFiTried, WillBe, WillHold, Tried, Has
<1>14. QED
  BY <1>2, <1>3, <1>4, <1>5, <1>6, <1>7, <1>8, <1>9, <1>10, <1>11, <1>12, <1>13
  DEF Next, Node

\* connectToInternetWiFi stores credentials only when they have connected: a
\* complete pair in flash has worked, whatever was mistyped since, unless the
\* last save of the two failed or was cut off.
THEOREM StoredCredentialsWorked == Spec => []StoredWiFiWorked
<1>1. Init => OwnKeys /\ SettingsKept /\ WiFiTried
  <2> SUFFICES ASSUME Init
               PROVE  OwnKeys /\ SettingsKept /\ WiFiTried
    OBVIOUS
  <2>1. OwnKeys /\ SettingsKept
    BY DEF Init, OwnKeys, SettingsKept
  <2>2. nvs["ssid"] = Absent
    BY KeyNames, GatewaysAssumption DEF Init, GatewaySettings
  <2>3. QED
    BY <2>1, <2>2, KeyNames DEF Init, WiFiTried, Tried, Has
<1>2. Inv /\ OwnKeys /\ SettingsKept /\ WiFiTried /\ [Next]_vars
        => (OwnKeys /\ SettingsKept /\ WiFiTried)'
  BY NextKept, NextTried
<1>3. WiFiTried => StoredWiFiWorked
  BY DEF WiFiTried, StoredWiFiWorked, Tried
<1>4. QED
  BY <1>1, <1>2, <1>3, InvHolds, PTL DEF Spec
=============================================================================
