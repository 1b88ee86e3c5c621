------------------------------ MODULE Settings ------------------------------
(***************************************************************************)
(* The configuration of the gateway: what the REST handlers of             *)
(* main/http_server.c store in NVS and apply, what main/main.c makes of it *)
(* at the next boot, and the WiFi events in between. A save of the         *)
(* credentials is two commits; power may fail between any two steps.       *)
(*                                                                         *)
(* A string is a name and a length: its first n characters have the same   *)
(* name and length n.                                                      *)
(***************************************************************************)
EXTENDS Naturals, Sequences

CONSTANTS
  Ssids, Pwds, Speeds,        \* the strings clients send
  DefaultSsid, DefaultPwd,    \* CONFIG_GW_WIFI_SSID_DEFAULT, .._PASSWORD_DEFAULT
  DefaultSpeed,               \* kconfig_default of read_can_bitrate
  QEvents,                    \* depth of the default event loop's queue (32)
  Absent                      \* a key that NVS does not have

Strings == [name : STRING, len : Nat]
Empty == [name |-> "", len |-> 0]

\* The last conjunct is for the provers, which know nothing of STRING.
ASSUME SettingsConstants ==
  /\ Ssids \cup Pwds \cup Speeds \cup {DefaultSsid, DefaultPwd, DefaultSpeed} \subseteq Strings
  /\ QEvents \in Nat \ {0} /\ Absent \notin Strings
  /\ Empty \in Strings

Keys == {"wifi_ssid", "wifi_pwd", "can_speed"}

VARIABLES
  on,          \* powered and booted
  nvs,         \* the namespace gw_cfg
  wifi,        \* the WiFi driver: its configuration and link
  events,      \* the default event loop
  wifiBit,     \* EVT_WIFI_CONNECTED
  server,      \* httpd is started
  can,         \* the bitrate TWAI was installed with
  httpd,       \* the handler in progress: pc, ssid and pwd; ok is history, that its
               \* first write succeeded
  saved,       \* history: what the last complete save stored under each key
  torn         \* history: keys whose last save failed or was cut short

vars == <<on, nvs, wifi, events, wifiBit, server, can, httpd, saved, torn>>

Handling == [pc |-> "idle", ssid |-> Empty, pwd |-> Empty, ok |-> FALSE]
NoWifi == [ssid |-> Empty, pwd |-> Empty, link |-> "down"]

Init ==
  /\ on = FALSE
  /\ nvs = [k \in Keys |-> Absent]
  /\ wifi = NoWifi /\ events = <<>> /\ wifiBit = FALSE /\ server = FALSE
  /\ can = "500k"
  /\ httpd = Handling
  /\ saved = nvs /\ torn = {}

-----------------------------------------------------------------------------
(* Strings and NVS *)

CutMutant(s, n) == s           \* mutant: strcpy
Cut(s, n) == IF s.len > n THEN [s EXCEPT !.len = n] ELSE s

\* gw_nvs_get_str into a buffer of size bytes: a string that does not fit counts as absent.
NvsGet(map, key, size, default) ==
  IF map[key] = Absent \/ map[key].len >= size THEN Cut(default, size - 1) ELSE map[key]

Ssid(s) == Cut(s, 31)      \* strncpy into sta.ssid[32]
Pwd(p) == Cut(p, 63)       \* and into sta.password[64]

Bitrate(s) == CASE s = [name |-> "250k", len |-> 4] -> "250k"
                [] s \in {[name |-> n, len |-> 2] : n \in {"1m", "1M"}} -> "1m"
                [] OTHER -> "500k"

Without(map, keys) == [k \in Keys |-> IF k \in keys THEN Absent ELSE map[k]]

\* The keys are gone, and with them what was saved under them. Half of the credentials
\* is a torn save.
Erase(keys) ==
  /\ nvs' = Without(nvs, keys) /\ saved' = Without(saved, keys)
  /\ torn' = IF keys = Keys THEN {}
             ELSE IF "wifi_ssid" \in keys <=> "wifi_pwd" \in keys THEN torn
             ELSE torn \cup {"wifi_ssid"}

-----------------------------------------------------------------------------
(* The WiFi driver *)

Connecting(w) ==             \* esp_wifi_connect
  IF w.link = "down" /\ w.ssid.len > 0 THEN [w EXCEPT !.link = "connecting"] ELSE w

Post(e) == Len(events) < QEvents /\ events' = Append(events, e)

Drop ==                      \* the link goes down and the event is posted
  /\ Post("DISCONNECTED")
  /\ wifi' = [wifi EXCEPT !.link = "down"]

Joined ==
  /\ wifi.link = "connecting"
  /\ wifi' = [wifi EXCEPT !.link = "up"] /\ Post("GOT_IP")
  /\ UNCHANGED <<on, nvs, wifiBit, server, can, httpd, saved, torn>>

LinkLost ==
  /\ wifi.link # "down" /\ Drop
  /\ UNCHANGED <<on, nvs, wifiBit, server, can, httpd, saved, torn>>

-----------------------------------------------------------------------------
(* Boot, and the end of everything that is not in NVS *)

\* What wifi_init_sta makes of the strings in NVS.
BootSsid(map) == Ssid(NvsGet(map, "wifi_ssid", 33, DefaultSsid))
BootPwdMutant(map) == Pwd(NvsGet(map, "wifi_pwd", 33, DefaultPwd))   \* mutant: the ssid's size
BootPwd(map) == Pwd(NvsGet(map, "wifi_pwd", 65, DefaultPwd))

\* app_main as far as it depends on the configuration: nvs_flash_init, wifi_init_sta,
\* read_can_bitrate. When NVS has no free page or another format, all of it is erased first.
Boot ==
  \E erased \in {{}, Keys} :
    /\ ~on /\ on' = TRUE
    /\ Erase(erased)
    /\ wifi' = Connecting([NoWifi EXCEPT !.ssid = BootSsid(nvs'), !.pwd = BootPwd(nvs')])
    /\ can' = Bitrate(NvsGet(nvs', "can_speed", 8, DefaultSpeed))
    /\ UNCHANGED <<events, wifiBit, server, httpd>>

\* Power fails in the middle of that erase.
EraseCutShort ==
  \E erased \in SUBSET Keys :
    /\ ~on /\ Erase(erased)
    /\ UNCHANGED <<on, wifi, events, wifiBit, server, can, httpd>>

\* Loss of power, esp_restart or a crash.
Restart ==
  /\ on /\ on' = FALSE
  /\ wifi' = NoWifi /\ events' = <<>> /\ wifiBit' = FALSE /\ server' = FALSE
  /\ can' = "500k" /\ httpd' = Handling
  /\ UNCHANGED <<nvs, saved, torn>>

-----------------------------------------------------------------------------
(* wifi_event_handler *)

RetryMutant(w) == w                 \* mutant: reconnecting is left to the driver
Retry(w) == Connecting(w)

HandleEvent ==
  /\ events # <<>> /\ events' = Tail(events)
  /\ IF Head(events) = "GOT_IP"
     THEN /\ wifiBit' = TRUE
          /\ server' \in {server, TRUE}        \* http_server_start may fail
          /\ UNCHANGED wifi
     ELSE wifiBit' = FALSE /\ wifi' = Retry(wifi) /\ UNCHANGED server
  /\ UNCHANGED <<on, nvs, can, httpd, saved, torn>>

-----------------------------------------------------------------------------
(* The REST handlers. No result of NVS or of the driver is looked at.      *)

Request == server /\ wifi.link = "up" /\ httpd.pc = "idle"

\* A write of value under key; stored says whether it worked.
Store(key, value, stored) == nvs' = IF stored THEN [nvs EXCEPT ![key] = value] ELSE nvs

At(pc, next) == httpd.pc = pc /\ httpd' = [httpd EXCEPT !.pc = next]

\* POST /api/wifi; an empty ssid is refused before.
SaveWifi(s, p) ==
  /\ Request /\ s.len > 0
  /\ httpd' = [pc |-> "ssid", ssid |-> s, pwd |-> p, ok |-> FALSE]
  /\ UNCHANGED <<on, nvs, wifi, events, wifiBit, server, can, saved, torn>>

StoreSsid ==
  \E stored \in BOOLEAN :
    /\ httpd.pc = "ssid" /\ httpd' = [httpd EXCEPT !.pc = "pwd", !.ok = stored]
    /\ Store("wifi_ssid", httpd.ssid, stored)
    /\ torn' = torn \cup {"wifi_ssid"}
    /\ UNCHANGED <<on, wifi, events, wifiBit, server, can, saved>>

StorePwd ==
  \E stored \in BOOLEAN :
    /\ At("pwd", "disconnect")
    /\ Store("wifi_pwd", httpd.pwd, stored)
    /\ IF stored /\ httpd.ok
       THEN /\ saved' = [saved EXCEPT !["wifi_ssid"] = httpd.ssid, !["wifi_pwd"] = httpd.pwd]
            /\ torn' = torn \ {"wifi_ssid"}
       ELSE UNCHANGED <<saved, torn>>
    /\ UNCHANGED <<on, wifi, events, wifiBit, server, can>>

\* esp_wifi_disconnect: the driver drops the link now or later (LinkLost); the event
\* handler may connect before the new configuration is set.
Disconnect ==
  /\ At("disconnect", "config")
  /\ \/ UNCHANGED <<wifi, events>>
     \/ wifi.link # "down" /\ Drop
  /\ UNCHANGED <<on, nvs, wifiBit, server, can, saved, torn>>

\* esp_wifi_set_config, which the driver may refuse while it is connecting.
SetConfig ==
  /\ At("config", "connect")
  /\ \/ wifi' = [wifi EXCEPT !.ssid = Ssid(httpd.ssid), !.pwd = Pwd(httpd.pwd)]
     \/ wifi.link = "connecting" /\ UNCHANGED wifi
  /\ UNCHANGED <<on, nvs, events, wifiBit, server, can, saved, torn>>

ConnectNew ==
  /\ httpd.pc = "connect" /\ httpd' = Handling /\ wifi' = Connecting(wifi)
  /\ UNCHANGED <<on, nvs, events, wifiBit, server, can, saved, torn>>

\* POST /api/config, as far as boot reads it again.
SaveConfig(v) ==
  \E stored \in BOOLEAN :
    /\ Request /\ Store("can_speed", v, stored)
    /\ saved' = IF stored THEN [saved EXCEPT !["can_speed"] = v] ELSE saved
    /\ torn' = IF stored THEN torn \ {"can_speed"} ELSE torn \cup {"can_speed"}
    /\ UNCHANGED <<on, wifi, events, wifiBit, server, can, httpd>>

\* POST /api/factory-reset; a Restart follows, which may cut it short too.
FactoryReset ==
  \E erased \in SUBSET Keys :
    /\ Request /\ httpd' = [httpd EXCEPT !.pc = "wiped"]
    /\ Erase(erased)
    /\ UNCHANGED <<on, wifi, events, wifiBit, server, can>>

-----------------------------------------------------------------------------

Httpd == \/ \E s \in Ssids, p \in Pwds : SaveWifi(s, p)
         \/ StoreSsid \/ StorePwd \/ Disconnect \/ SetConfig \/ ConnectNew
         \/ \E v \in Speeds : SaveConfig(v)
         \/ FactoryReset

Next == Boot \/ EraseCutShort \/ Restart \/ Joined \/ LinkLost \/ HandleEvent \/ Httpd

Spec == Init /\ [][Next]_vars

-----------------------------------------------------------------------------
(* Properties *)

TypeOK ==
  /\ on \in BOOLEAN
  /\ nvs \in [Keys -> Strings \cup {Absent}] /\ saved \in [Keys -> Strings \cup {Absent}]
  /\ wifi \in [ssid : Strings, pwd : Strings, link : {"down", "connecting", "up"}]
  /\ wifi.ssid.len <= 31 /\ wifi.pwd.len <= 63
  /\ events \in Seq({"DISCONNECTED", "GOT_IP"}) /\ Len(events) <= QEvents
  /\ wifiBit \in BOOLEAN /\ server \in BOOLEAN /\ can \in {"250k", "500k", "1m"}
  /\ httpd \in [pc : {"idle", "ssid", "pwd", "disconnect", "config", "connect", "wiped"},
                ssid : Strings, pwd : Strings, ok : BOOLEAN]
  /\ torn \subseteq Keys

\* A gateway that has a network to join is never left alone with a link that is down:
\* somebody is still to call esp_wifi_connect; and once the events are handled
\* EVT_WIFI_CONNECTED tells the link (wifi_event_handler against wifi_save_handler).
LinkWatched ==
  /\ on /\ wifi.ssid.len > 0 /\ wifi.link = "down"
     => "DISCONNECTED" \in {events[i] : i \in DOMAIN events} \/ httpd.pc \in {"config", "connect"}
  /\ events = <<>> => (wifiBit <=> wifi.link = "up")

\* The strings s, but for the torn keys t, as wifi_init_sta and twai_driver_init get them.
BootsWith(s, t) ==
  /\ "wifi_ssid" \notin t =>
       /\ s["wifi_ssid"] # Absent /\ s["wifi_ssid"].len <= 31 => wifi'.ssid = s["wifi_ssid"]
       /\ s["wifi_pwd"] # Absent /\ s["wifi_pwd"].len <= 63 => wifi'.pwd = s["wifi_pwd"]
       /\ s["wifi_ssid"] = Absent
          => wifi'.ssid = Ssid(DefaultSsid) /\ wifi'.pwd = Pwd(DefaultPwd)
  /\ "can_speed" \notin t =>
       can' = Bitrate(IF s["can_speed"] = Absent \/ s["can_speed"].len >= 8
                      THEN DefaultSpeed ELSE s["can_speed"])

AllAbsent == [k \in Keys |-> Absent]

\* The gateway boots with what the last save stored: the network, if the save was not cut
\* short and its strings fit the driver's fields, and the bitrate the page offers; and
\* with the defaults when nothing was saved or all was erased. app_main itself may erase
\* everything, and then boots with nothing but the defaults, never with a mix.
BootUsesSaved ==
  [][~on /\ on' => BootsWith(saved, torn) \/ (nvs' = AllAbsent /\ BootsWith(AllAbsent, {}))]_vars

=============================================================================
