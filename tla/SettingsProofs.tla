-------------------------- MODULE SettingsProofs --------------------------
(***************************************************************************)
(* The configuration of the gateway survives restarts, and its link is     *)
(* watched: for any strings of any length and an event queue of any depth. *)
(***************************************************************************)
EXTENDS Settings, SequenceTheorems, TLAPS

LEMMA Consts ==
  /\ \A s \in Ssids \cup Pwds \cup Speeds : s \in Strings
  /\ DefaultSsid \in Strings /\ DefaultPwd \in Strings /\ DefaultSpeed \in Strings
  /\ QEvents \in Nat /\ QEvents >= 1 /\ Absent \notin Strings
  /\ Empty \in Strings /\ Empty.len = 0
<1>1. Empty.len = 0
  BY DEF Empty
<1> QED
  BY <1>1, SettingsConstants

-----------------------------------------------------------------------------
(* Strings *)

LEMMA CutType ==
  ASSUME NEW s \in Strings, NEW n \in Nat
  PROVE  /\ Cut(s, n) \in Strings /\ Cut(s, n).len <= n
         /\ (s.len <= n => Cut(s, n) = s)
BY DEF Cut, Strings

LEMMA CutTwice ==
  ASSUME NEW s \in Strings, NEW m \in Nat, NEW n \in Nat, n <= m
  PROVE  Cut(Cut(s, m), n) = Cut(s, n)
<1>1. CASE s.len <= m
  <2>1. Cut(s, m) = s
    BY <1>1, CutType
  <2> QED
    BY <2>1
<1>2. CASE s.len > m
  <2>1. Cut(s, m) = [s EXCEPT !.len = m]
    BY <1>2 DEF Cut, Strings
  <2>2. s.len > n
    BY <1>2 DEF Strings
  <2>3. Cut(s, n) = [s EXCEPT !.len = n]
    BY <2>2 DEF Cut, Strings
  <2>4. CASE m = n
    BY <2>1, <2>3, <2>4, CutType
  <2>5. CASE m > n
    BY <2>1, <2>3, <2>5 DEF Cut, Strings
  <2> QED
    BY <2>4, <2>5
<1> QED
  BY <1>1, <1>2 DEF Strings

LEMMA BitrateType == ASSUME NEW s PROVE Bitrate(s) \in {"250k", "500k", "1m"}
BY DEF Bitrate

\* The default of the bitrate does not fit the buffer only if it is no bitrate at all.
LEMMA BitrateOfCut == ASSUME NEW s \in Strings PROVE Bitrate(Cut(s, 7)) = Bitrate(s)
<1>1. CASE s.len <= 7
  BY <1>1, CutType
<1>2. CASE s.len > 7
  BY <1>2 DEF Cut, Strings, Bitrate
<1> QED
  BY <1>1, <1>2 DEF Strings

Link == {"down", "connecting", "up"}
WifiType == [ssid : Strings, pwd : Strings, link : Link]

LEMMA ConnectingType ==
  ASSUME NEW w \in WifiType
  PROVE  /\ Connecting(w) \in WifiType
         /\ Connecting(w).ssid = w.ssid /\ Connecting(w).pwd = w.pwd
         /\ (Connecting(w).link = "up" <=> w.link = "up")
         /\ (Connecting(w).link = "down" => w.ssid.len = 0)
BY DEF Connecting, WifiType, Strings, Link

Stored == Strings \cup {Absent}

\* What the driver is given at boot.
LEMMA BootStrings ==
  ASSUME NEW map \in [Keys -> Stored]
  PROVE  /\ BootSsid(map) \in Strings /\ BootSsid(map).len <= 31
         /\ BootPwd(map) \in Strings /\ BootPwd(map).len <= 63
<1>1. NvsGet(map, "wifi_ssid", 33, DefaultSsid) \in Strings
  <2>1. map["wifi_ssid"] \in Strings \cup {Absent}
    BY DEF Stored, Keys
  <2>2. Cut(DefaultSsid, 33 - 1) \in Strings
    BY Consts, CutType
  <2> QED
    BY <2>1, <2>2 DEF NvsGet
<1>2. NvsGet(map, "wifi_pwd", 65, DefaultPwd) \in Strings
  <2>1. map["wifi_pwd"] \in Strings \cup {Absent}
    BY DEF Stored, Keys
  <2>2. Cut(DefaultPwd, 65 - 1) \in Strings
    BY Consts, CutType
  <2> QED
    BY <2>1, <2>2 DEF NvsGet
<1> QED
  BY <1>1, <1>2, CutType DEF BootSsid, BootPwd, Ssid, Pwd

\* An erase leaves nothing but what was there.
LEMMA EraseType ==
  ASSUME TypeOK, NEW keys \in SUBSET Keys, Erase(keys)
  PROVE  nvs' \in [Keys -> Stored] /\ saved' \in [Keys -> Stored] /\ torn' \subseteq Keys
<1>1. /\ nvs \in [Keys -> Stored] /\ saved \in [Keys -> Stored] /\ torn \subseteq Keys
      /\ "wifi_ssid" \in Keys /\ Absent \in Stored
  BY DEF TypeOK, Stored, Keys
<1>2. \A map \in [Keys -> Stored] : Without(map, keys) \in [Keys -> Stored]
  BY <1>1 DEF Without
<1> HIDE DEF Keys, Stored
<1>3. nvs' \in [Keys -> Stored] /\ saved' \in [Keys -> Stored]
  BY <1>1, <1>2 DEF Erase
<1>4. torn' \subseteq Keys
  BY <1>1 DEF Erase
<1> QED
  BY <1>3, <1>4

LEMMA BootWifi ==
  ASSUME TypeOK, Boot
  PROVE  /\ wifi' \in WifiType /\ wifi'.ssid = BootSsid(nvs') /\ wifi'.pwd = BootPwd(nvs')
         /\ wifi'.link # "up" /\ (wifi'.link = "down" => wifi'.ssid.len = 0)
         /\ wifi'.ssid.len <= 31 /\ wifi'.pwd.len <= 63
<1> DEFINE w == [NoWifi EXCEPT !.ssid = BootSsid(nvs'), !.pwd = BootPwd(nvs')]
<1>0. PICK erased \in {{}, Keys} :
        Erase(erased) /\ wifi' = Connecting(w)
  BY DEF Boot
<1>1. nvs' \in [Keys -> Stored]
  BY <1>0, EraseType
<1>2. /\ BootSsid(nvs') \in Strings /\ BootSsid(nvs').len <= 31
      /\ BootPwd(nvs') \in Strings /\ BootPwd(nvs').len <= 63
  BY <1>1, BootStrings
<1>3. /\ w \in WifiType /\ w.ssid = BootSsid(nvs') /\ w.pwd = BootPwd(nvs')
      /\ w.link = "down"
  BY <1>2 DEF NoWifi, WifiType, Link
<1> HIDE DEF w
<1> QED
  BY <1>0, <1>2, <1>3, ConnectingType

-----------------------------------------------------------------------------
(* Types *)

Events == {"DISCONNECTED", "GOT_IP"}
Pcs == {"idle", "ssid", "pwd", "disconnect", "config", "connect", "wiped"}
HttpdType == [pc : Pcs, ssid : Strings, pwd : Strings, ok : BOOLEAN]

WifiOK == wifi \in WifiType /\ wifi.ssid.len <= 31 /\ wifi.pwd.len <= 63
EventsOK == events \in Seq(Events) /\ Len(events) <= QEvents
NvsOK == nvs \in [Keys -> Stored] /\ saved \in [Keys -> Stored] /\ torn \subseteq Keys
HttpdOK == httpd \in HttpdType
RestOK == on \in BOOLEAN /\ wifiBit \in BOOLEAN /\ server \in BOOLEAN
          /\ can \in {"250k", "500k", "1m"}

LEMMA TypeParts == TypeOK <=> WifiOK /\ EventsOK /\ NvsOK /\ HttpdOK /\ RestOK
BY DEF TypeOK, WifiOK, EventsOK, NvsOK, HttpdOK, RestOK, WifiType, Link, Events, Pcs, HttpdType,
       Stored

LEMMA TypeInit == Init => TypeOK
<1> SUFFICES ASSUME Init PROVE TypeOK
  OBVIOUS
<1>1. Empty \in Strings /\ Empty.len = 0
  BY Consts
<1>2. WifiOK
  BY <1>1 DEF Init, NoWifi, WifiOK, WifiType, Link
<1>3. EventsOK
  BY EmptySeq, Consts DEF Init, EventsOK
<1>4. HttpdOK
  BY <1>1 DEF Init, HttpdOK, HttpdType, Handling, Pcs
<1>5. NvsOK
  BY DEF Init, NvsOK, Stored
<1>6. RestOK
  BY DEF Init, RestOK
<1> QED
  BY <1>2, <1>3, <1>4, <1>5, <1>6, TypeParts

LEMMA PostType ==
  ASSUME EventsOK, NEW e \in Events, Post(e)
  PROVE  /\ EventsOK' /\ Len(events') = Len(events) + 1 /\ events' # <<>>
         /\ events'[Len(events')] = e
         /\ \A i \in DOMAIN events : i \in DOMAIN events' /\ events'[i] = events[i]
         /\ Len(events') \in DOMAIN events'
<1>1. Len(events) \in Nat /\ DOMAIN events = 1..Len(events)
  BY LenProperties DEF EventsOK
<1>2. /\ events' \in Seq(Events) /\ Len(events') = Len(events) + 1 /\ events' # <<>>
      /\ events'[Len(events) + 1] = e
      /\ \A i \in 1..Len(events) : events'[i] = events[i]
  BY AppendProperties DEF Post, EventsOK
<1>3. DOMAIN events' = 1..Len(events) + 1
  BY <1>2, LenProperties
<1> QED
  BY <1>1, <1>2, <1>3, Consts DEF Post, EventsOK

LEMMA TailType ==
  ASSUME EventsOK, events # <<>>, events' = Tail(events)
  PROVE  /\ EventsOK' /\ Head(events) \in Events /\ Head(events) = events[1]
         /\ Len(events') = Len(events) - 1 /\ Len(events) \in Nat \ {0}
         /\ (events' = <<>> <=> Len(events) = 1)
         /\ \A i \in 1..Len(events') : events'[i] = events[i + 1]
         /\ DOMAIN events = 1..Len(events) /\ DOMAIN events' = 1..Len(events')
<1>1. /\ Head(events) \in Events /\ Head(events) = events[1]
      /\ events' \in Seq(Events) /\ Len(events') = Len(events) - 1
      /\ Len(events) \in Nat \ {0}
      /\ \A i \in 1..Len(events') : events'[i] = events[i + 1]
  BY HeadTailProperties, EmptySeq DEF EventsOK
<1>2. DOMAIN events = 1..Len(events) /\ DOMAIN events' = 1..Len(events')
  BY <1>1, LenProperties DEF EventsOK
<1>3. events' = <<>> <=> Len(events') = 0
  BY <1>1, EmptySeq
<1> QED
  BY <1>1, <1>2, <1>3, Consts DEF EventsOK

LEMMA WifiStep ==
  ASSUME TypeOK, Next PROVE WifiOK'
<1> USE TypeParts
<1>1. CASE Boot
  BY <1>1, BootWifi DEF WifiOK
<1>2. CASE Restart
  <2>1. Empty \in Strings /\ Empty.len = 0
    BY Consts
  <2> QED
    BY <1>2, <2>1 DEF Restart, NoWifi, WifiOK, WifiType, Link
<1>3. CASE Joined
  BY <1>3 DEF Joined, WifiOK, WifiType, Link
<1>4. CASE LinkLost \/ Disconnect
  BY <1>4 DEF LinkLost, Disconnect, Drop, WifiOK, WifiType, Link
<1>5. CASE HandleEvent
  BY <1>5, ConnectingType DEF HandleEvent, Retry, WifiOK
<1>6. CASE SetConfig
  <2>1. /\ Ssid(httpd.ssid) \in Strings /\ Ssid(httpd.ssid).len <= 31
        /\ Pwd(httpd.pwd) \in Strings /\ Pwd(httpd.pwd).len <= 63
    BY CutType DEF Ssid, Pwd, HttpdOK, HttpdType
  <2> QED
    BY <1>6, <2>1 DEF SetConfig, WifiOK, WifiType
<1>7. CASE ConnectNew
  BY <1>7, ConnectingType DEF ConnectNew, WifiOK
<1>8. CASE UNCHANGED wifi
  BY <1>8 DEF WifiOK
<1> QED
  BY <1>1, <1>2, <1>3, <1>4, <1>5, <1>6, <1>7, <1>8
     DEF Next, Httpd, EraseCutShort, SaveWifi, StoreSsid, StorePwd, SaveConfig, FactoryReset

LEMMA EventsStep ==
  ASSUME TypeOK, Next PROVE EventsOK'
<1> USE TypeParts
<1>1. CASE Joined \/ LinkLost \/ Disconnect
  <2>1. CASE \E e \in Events : Post(e)
    BY <2>1, PostType
  <2> QED
    BY <1>1, <2>1 DEF Joined, LinkLost, Disconnect, Drop, Events, EventsOK
<1>2. CASE HandleEvent
  BY <1>2, TailType DEF HandleEvent
<1>3. CASE Restart
  BY <1>3, EmptySeq, Consts DEF Restart, EventsOK
<1>4. CASE UNCHANGED events
  BY <1>4 DEF EventsOK
<1> QED
  BY <1>1, <1>2, <1>3, <1>4 DEF Next, Httpd, Boot, EraseCutShort, SaveWifi, StoreSsid, StorePwd,
     SetConfig, ConnectNew, SaveConfig, FactoryReset

LEMMA NvsStep ==
  ASSUME TypeOK, Next PROVE NvsOK'
<1> USE TypeParts
<1>0. httpd.ssid \in Stored /\ httpd.pwd \in Stored
  BY DEF HttpdOK, HttpdType, Stored
<1>1. CASE StoreSsid
  BY <1>0, <1>1 DEF StoreSsid, Store, NvsOK, Keys
<1>2. CASE StorePwd
  <2>1. nvs' \in [Keys -> Stored]
    BY <1>0, <1>2 DEF StorePwd, Store, NvsOK, Keys
  <2>2. saved' \in [Keys -> Stored] /\ torn' \subseteq Keys
    BY <1>0, <1>2 DEF StorePwd, NvsOK, Keys
  <2> QED
    BY <2>1, <2>2 DEF NvsOK
<1>3. CASE \E v \in Speeds : SaveConfig(v)
  <2>1. PICK v \in Speeds : SaveConfig(v)
    BY <1>3
  <2>2. v \in Stored
    BY Consts DEF Stored
  <2> QED
    BY <2>1, <2>2 DEF SaveConfig, Store, NvsOK, Keys
<1>4. CASE FactoryReset \/ Boot \/ EraseCutShort
  BY <1>4, EraseType DEF FactoryReset, Boot, EraseCutShort, NvsOK
<1>5. CASE UNCHANGED <<nvs, saved, torn>>
  BY <1>5 DEF NvsOK
<1> QED
  BY <1>1, <1>2, <1>3, <1>4, <1>5 DEF Next, Httpd, Restart, Joined, LinkLost, HandleEvent,
     SaveWifi, Disconnect, SetConfig, ConnectNew

LEMMA HttpdStep ==
  ASSUME TypeOK, Next PROVE HttpdOK'
<1> USE TypeParts
<1>0. Handling \in HttpdType
  BY Consts DEF Handling, HttpdType, Pcs
<1>1. CASE Restart \/ ConnectNew
  BY <1>0, <1>1 DEF Restart, ConnectNew, HttpdOK
<1>2. CASE \E s \in Ssids, p \in Pwds : SaveWifi(s, p)
  <2>1. PICK s \in Ssids, p \in Pwds : SaveWifi(s, p)
    BY <1>2
  <2>2. s \in Strings /\ p \in Strings
    BY Consts
  <2> QED
    BY <2>1, <2>2 DEF SaveWifi, HttpdOK, HttpdType, Pcs
<1>3. CASE StoreSsid \/ StorePwd \/ Disconnect \/ SetConfig \/ FactoryReset
  BY <1>3 DEF StoreSsid, StorePwd, Disconnect, SetConfig, FactoryReset, At, HttpdOK, HttpdType,
              Pcs
<1>4. CASE UNCHANGED httpd
  BY <1>4 DEF HttpdOK
<1> QED
  BY <1>1, <1>2, <1>3, <1>4
     DEF Next, Httpd, Boot, EraseCutShort, Joined, LinkLost, HandleEvent, SaveConfig

LEMMA RestStep ==
  ASSUME TypeOK, Next PROVE RestOK'
<1> USE TypeParts
<1>1. CASE Boot
  BY <1>1, BitrateType DEF Boot, RestOK
<1>2. CASE Restart
  BY <1>2 DEF Restart, RestOK
<1>3. CASE HandleEvent
  BY <1>3 DEF HandleEvent, RestOK
<1>4. CASE UNCHANGED <<on, wifiBit, server, can>>
  BY <1>4 DEF RestOK
<1> QED
  BY <1>1, <1>2, <1>3, <1>4 DEF Next, Httpd, EraseCutShort, Joined, LinkLost, SaveWifi,
     StoreSsid, StorePwd, Disconnect, SetConfig, ConnectNew, SaveConfig, FactoryReset

LEMMA TypeStep == TypeOK /\ [Next]_vars => TypeOK'
<1>1. ASSUME TypeOK, Next PROVE TypeOK'
  BY <1>1, WifiStep, EventsStep, NvsStep, HttpdStep, RestStep
     DEF TypeOK, WifiOK, EventsOK, NvsOK, HttpdOK, RestOK, WifiType, Link, Events, Pcs,
         HttpdType, Stored
<1>2. ASSUME TypeOK, UNCHANGED vars PROVE TypeOK'
  BY <1>2 DEF vars, TypeOK
<1> QED
  BY <1>1, <1>2

-----------------------------------------------------------------------------
(* The link. LinkWatched is kept because the last event waiting tells the link; and   *)
(* a gateway that is off has nothing of this left.                                     *)

OffInv ==
  ~on => /\ wifi.link = "down" /\ events = <<>> /\ ~wifiBit /\ ~server
         /\ httpd.pc = "idle"

LastTells == events # <<>> => (events[Len(events)] = "GOT_IP" <=> wifi.link = "up")

LinkInv == OffInv /\ LastTells /\ LinkWatched

LEMMA LinkInit == Init => LinkInv
BY DEF Init, NoWifi, Handling, LinkInv, OffInv, LastTells, LinkWatched

\* An event is posted, and tells the link.
LEMMA LinkPosts ==
  ASSUME TypeOK, LinkInv, on, on', NEW e \in Events, Post(e),
         e = "GOT_IP" <=> wifi'.link = "up",
         wifi'.link = "down" => e = "DISCONNECTED"
  PROVE  LinkInv'
<1>1. /\ Len(events') \in DOMAIN events' /\ events' # <<>> /\ events'[Len(events')] = e
  BY TypeParts, PostType
<1>2. wifi'.link = "down" => "DISCONNECTED" \in {events'[i] : i \in DOMAIN events'}
  BY <1>1
<1>3. OffInv' /\ LastTells'
  BY <1>1 DEF OffInv, LastTells
<1>4. LinkWatched'
  BY <1>1, <1>2 DEF LinkWatched
<1> QED
  BY <1>3, <1>4 DEF LinkInv

\* No event moves, and the link goes neither up nor down.
LEMMA LinkQuiet ==
  ASSUME LinkInv, on, on', events' = events, wifiBit' = wifiBit,
         wifi'.link = "up" <=> wifi.link = "up",
         wifi'.link = "down" /\ wifi'.ssid.len > 0 =>
            \/ httpd'.pc \in {"config", "connect"}
            \/ /\ wifi.link = "down" /\ wifi.ssid.len > 0
               /\ httpd.pc \notin {"config", "connect"}
  PROVE  LinkInv'
<1>1. OffInv' /\ LastTells'
  BY DEF LinkInv, OffInv, LastTells
<1>2. LinkWatched'
  BY DEF LinkInv, LinkWatched
<1> QED
  BY <1>1, <1>2 DEF LinkInv

LEMMA LinkHandles ==
  ASSUME TypeOK, LinkInv, HandleEvent PROVE LinkInv'
<1>0. /\ events # <<>> /\ events' = Tail(events) /\ on' = on /\ httpd' = httpd
      /\ wifi \in WifiType
  BY TypeParts DEF HandleEvent, WifiOK
<1>1. on
  BY <1>0 DEF LinkInv, OffInv
<1>2. /\ Head(events) \in Events /\ Head(events) = events[1]
      /\ Len(events') = Len(events) - 1 /\ Len(events) \in Nat \ {0}
      /\ (events' = <<>> <=> Len(events) = 1)
      /\ \A i \in 1..Len(events') : events'[i] = events[i + 1]
      /\ DOMAIN events = 1..Len(events) /\ DOMAIN events' = 1..Len(events')
  BY <1>0, TypeParts, TailType
<1>3. events[Len(events)] = "GOT_IP" <=> wifi.link = "up"
  BY <1>0 DEF LinkInv, LastTells
<1>4. CASE Head(events) = "GOT_IP"
  <2>1. wifi' = wifi /\ wifiBit'
    BY <1>4 DEF HandleEvent
  <2>2. OffInv' /\ LastTells'
    <3>1. events' # <<>> => events'[Len(events')] = events[Len(events)]
      BY <1>2
    <3> QED
      BY <1>0, <1>1, <1>3, <2>1, <3>1 DEF OffInv, LastTells
  <2>3. events' = <<>> => (wifiBit' <=> wifi'.link = "up")
    BY <1>2, <1>3, <1>4, <2>1
  <2>4. "DISCONNECTED" \in {events[i] : i \in DOMAIN events}
          => "DISCONNECTED" \in {events'[i] : i \in DOMAIN events'}
    <3> SUFFICES ASSUME NEW i \in DOMAIN events, events[i] = "DISCONNECTED"
                 PROVE  \E j \in DOMAIN events' : events'[j] = "DISCONNECTED"
      OBVIOUS
    <3>1. i # 1
      BY <1>2, <1>4
    <3>2. i - 1 \in DOMAIN events' /\ events'[i - 1] = events[i]
      BY <1>2, <3>1
    <3> QED
      BY <3>2
  <2>5. LinkWatched'
    BY <1>0, <2>1, <2>3, <2>4 DEF LinkInv, LinkWatched
  <2> QED
    BY <2>2, <2>5 DEF LinkInv
<1>5. CASE Head(events) # "GOT_IP"
  <2>1. /\ ~wifiBit' /\ (wifi'.link = "up" <=> wifi.link = "up")
        /\ (wifi'.link = "down" => wifi'.ssid.len = 0)
    <3>1. wifi' = Connecting(wifi) /\ wifiBit' = FALSE
      BY <1>5 DEF HandleEvent, Retry
    <3> QED
      BY <1>0, <3>1, ConnectingType
  <2>2. OffInv' /\ LastTells'
    <3>1. events' # <<>> => events'[Len(events')] = events[Len(events)]
      BY <1>2
    <3> QED
      BY <1>0, <1>1, <1>3, <2>1, <3>1 DEF OffInv, LastTells
  <2>3. events' = <<>> => (wifiBit' <=> wifi'.link = "up")
    BY <1>2, <1>3, <1>5, <2>1
  <2>4. LinkWatched'
    BY <2>1, <2>3 DEF LinkWatched
  <2> QED
    BY <2>2, <2>4 DEF LinkInv
<1> QED
  BY <1>4, <1>5

LEMMA LinkStep ==
  ASSUME TypeOK, LinkInv, Next PROVE LinkInv'
<1> USE TypeParts
<1>0. /\ wifi \in WifiType /\ httpd \in HttpdType /\ on \in BOOLEAN
      /\ (httpd.pc # "idle" \/ server => on)
  BY DEF WifiOK, HttpdOK, RestOK, LinkInv, OffInv
<1>1. CASE Boot
  <2>1. /\ on' /\ ~on /\ events' = <<>> /\ ~wifiBit' /\ wifi'.link # "up"
        /\ (wifi'.link = "down" => wifi'.ssid.len = 0)
    <3>1. wifi'.link # "up" /\ (wifi'.link = "down" => wifi'.ssid.len = 0)
      BY <1>1, BootWifi
    <3>2. ~on /\ on' /\ events' = events /\ wifiBit' = wifiBit
      BY <1>1 DEF Boot
    <3>3. events = <<>> /\ ~wifiBit
      BY <3>2 DEF LinkInv, OffInv
    <3> QED
      BY <3>1, <3>2, <3>3
  <2> QED
    BY <2>1 DEF LinkInv, OffInv, LastTells, LinkWatched
<1>2. CASE Restart
  BY <1>2 DEF Restart, NoWifi, Handling, LinkInv, OffInv, LastTells, LinkWatched
<1>3. CASE Joined
  <2>1. on /\ on' /\ Post("GOT_IP") /\ wifi'.link = "up"
    BY <1>0, <1>3 DEF Joined, LinkInv, OffInv, WifiType
  <2> QED
    BY <2>1, LinkPosts DEF Events
<1>4. CASE (LinkLost \/ Disconnect) /\ Drop
  <2>1. on /\ on' = on /\ Post("DISCONNECTED") /\ wifi'.link = "down"
    BY <1>0, <1>4 DEF LinkLost, Disconnect, At, Drop, LinkInv, OffInv, WifiType
  <2> QED
    BY <2>1, LinkPosts DEF Events
<1>5. CASE HandleEvent
  BY <1>5, LinkHandles
<1>6. CASE Disconnect /\ UNCHANGED <<wifi, events>>
  <2>1. on /\ on' /\ httpd'.pc = "config" /\ wifiBit' = wifiBit
    BY <1>0, <1>6 DEF Disconnect, At, HttpdType
  <2> QED
    BY <1>6, <2>1, LinkQuiet
<1>7. CASE SetConfig
  <2>1. /\ on /\ on' /\ httpd'.pc = "connect" /\ wifiBit' = wifiBit /\ events' = events
        /\ wifi'.link = wifi.link
    BY <1>0, <1>7 DEF SetConfig, At, HttpdType, WifiType
  <2> QED
    BY <2>1, LinkQuiet
<1>8. CASE ConnectNew
  <2>1. /\ on /\ on' /\ wifiBit' = wifiBit /\ events' = events
    BY <1>0, <1>8 DEF ConnectNew
  <2>2. /\ (wifi'.link = "up" <=> wifi.link = "up") /\ wifi'.ssid = wifi.ssid
        /\ (wifi'.link = "down" => wifi.ssid.len = 0)
    BY <1>0, <1>8, ConnectingType DEF ConnectNew
  <2>3. ~(wifi'.link = "down" /\ wifi'.ssid.len > 0)
    BY <2>2
  <2> QED
    BY <2>1, <2>2, <2>3, LinkQuiet
<1>9. CASE \/ \E s \in Ssids, p \in Pwds : SaveWifi(s, p)
           \/ StoreSsid \/ StorePwd \/ FactoryReset \/ \E v \in Speeds : SaveConfig(v)
  <2>1. /\ on /\ on' /\ wifiBit' = wifiBit /\ events' = events /\ wifi' = wifi
        /\ httpd.pc \notin {"config", "connect"}
    BY <1>0, <1>9 DEF SaveWifi, StoreSsid, StorePwd, FactoryReset, SaveConfig, Request, At
  <2> QED
    BY <2>1, LinkQuiet
<1>10. CASE EraseCutShort
  <2>1. /\ on' = on /\ wifi' = wifi /\ events' = events /\ wifiBit' = wifiBit
        /\ server' = server /\ httpd' = httpd
    BY <1>10 DEF EraseCutShort
  <2>2. OffInv' /\ LastTells'
    BY <2>1 DEF LinkInv, OffInv, LastTells
  <2>3. LinkWatched'
    BY <2>1 DEF LinkInv, LinkWatched
  <2> QED
    BY <2>2, <2>3 DEF LinkInv
<1> QED
  BY <1>1, <1>2, <1>3, <1>4, <1>5, <1>6, <1>7, <1>8, <1>9, <1>10
     DEF Next, Httpd, LinkLost, Disconnect

-----------------------------------------------------------------------------
(* What is saved. A key that is not torn holds what was saved under it; torn is       *)
(* entered before the first of the two commits and left after the second.             *)

WifiKeys == {"wifi_ssid", "wifi_pwd"}

WifiSaved ==
  "wifi_ssid" \notin torn =>
     /\ \A k \in WifiKeys : nvs[k] = saved[k]
     /\ saved["wifi_ssid"] = Absent <=> saved["wifi_pwd"] = Absent

SpeedSaved == "can_speed" \notin torn => nvs["can_speed"] = saved["can_speed"]

Saving ==
  httpd.pc = "pwd" => /\ "wifi_ssid" \in torn
                      /\ httpd.ok => nvs["wifi_ssid"] = httpd.ssid

SavedInv == WifiSaved /\ SpeedSaved /\ Saving

LEMMA SavedInit == Init => SavedInv
BY DEF Init, Handling, Keys, WifiKeys, SavedInv, WifiSaved, SpeedSaved, Saving

LEMMA EraseSaved ==
  ASSUME TypeOK, SavedInv, NEW erased \in SUBSET Keys, Erase(erased)
  PROVE  WifiSaved' /\ SpeedSaved'
<1>0. /\ torn \subseteq Keys
      /\ "wifi_ssid" \in Keys /\ "wifi_pwd" \in Keys /\ "can_speed" \in Keys
  BY DEF TypeOK, Keys
<1>1. /\ nvs' = Without(nvs, erased) /\ saved' = Without(saved, erased)
      /\ torn' = IF erased = Keys THEN {}
                 ELSE IF "wifi_ssid" \in erased <=> "wifi_pwd" \in erased THEN torn
                 ELSE torn \cup {"wifi_ssid"}
  BY DEF Erase
<1>2. \A k \in Keys : /\ k \in erased => nvs'[k] = Absent /\ saved'[k] = Absent
                      /\ k \notin erased => nvs'[k] = nvs[k] /\ saved'[k] = saved[k]
  BY <1>1 DEF Without
<1>3. WifiSaved'
  <2>1. CASE "wifi_ssid" \in erased /\ "wifi_pwd" \in erased
    BY <1>0, <1>2, <2>1 DEF WifiSaved, WifiKeys
  <2>2. CASE "wifi_ssid" \notin erased /\ "wifi_pwd" \notin erased
    BY <1>0, <1>1, <1>2, <2>2 DEF SavedInv, WifiSaved, WifiKeys
  <2>3. CASE ~("wifi_ssid" \in erased <=> "wifi_pwd" \in erased)
    BY <1>0, <1>1, <2>3 DEF WifiSaved
  <2> QED
    BY <2>1, <2>2, <2>3
<1>4. SpeedSaved'
  <2>1. CASE "can_speed" \in erased
    BY <1>0, <1>2, <2>1 DEF SpeedSaved
  <2>2. CASE "can_speed" \notin erased
    <3>1. "can_speed" \notin torn' => "can_speed" \notin torn
      BY <1>0, <1>1, <2>2
    <3> QED
      BY <1>0, <1>2, <2>2, <3>1 DEF SavedInv, SpeedSaved
  <2> QED
    BY <2>1, <2>2
<1> QED
  BY <1>3, <1>4

LEMMA SavedStep ==
  ASSUME TypeOK, LinkInv, SavedInv, Next PROVE SavedInv'
<1> USE TypeParts DEF SavedInv
<1>0. /\ httpd \in HttpdType /\ nvs \in [Keys -> Stored] /\ saved \in [Keys -> Stored]
      /\ torn \subseteq Keys
      /\ "wifi_ssid" \in Keys /\ "wifi_pwd" \in Keys /\ "can_speed" \in Keys
      /\ httpd.ssid # Absent /\ httpd.pwd # Absent
  BY Consts DEF HttpdOK, NvsOK, Keys, HttpdType
<1>1. CASE StoreSsid
  <2>1. PICK stored \in BOOLEAN :
          /\ httpd' = [httpd EXCEPT !.pc = "pwd", !.ok = stored]
          /\ Store("wifi_ssid", httpd.ssid, stored)
          /\ torn' = torn \cup {"wifi_ssid"} /\ saved' = saved
    BY <1>1 DEF StoreSsid
  <2>2. /\ httpd'.ssid = httpd.ssid /\ (httpd'.ok <=> stored)
    BY <1>0, <2>1 DEF HttpdType
  <2>3. stored => nvs'["wifi_ssid"] = httpd.ssid
    BY <1>0, <2>1 DEF Store
  <2>4. nvs'["can_speed"] = nvs["can_speed"]
    BY <1>0, <2>1 DEF Store
  <2> QED
    BY <2>1, <2>2, <2>3, <2>4 DEF WifiSaved, SpeedSaved, Saving
<1>2. CASE StorePwd
  <2>1. PICK stored \in BOOLEAN :
          /\ Store("wifi_pwd", httpd.pwd, stored)
          /\ IF stored /\ httpd.ok
             THEN /\ saved' = [saved EXCEPT !["wifi_ssid"] = httpd.ssid,
                                            !["wifi_pwd"] = httpd.pwd]
                  /\ torn' = torn \ {"wifi_ssid"}
             ELSE UNCHANGED <<saved, torn>>
    BY <1>2 DEF StorePwd
  <2>2. httpd.pc = "pwd" /\ httpd'.pc = "disconnect"
    BY <1>0, <1>2 DEF StorePwd, At, HttpdType
  <2>3. nvs'["can_speed"] = nvs["can_speed"] /\ nvs'["wifi_ssid"] = nvs["wifi_ssid"]
    BY <1>0, <2>1 DEF Store
  <2>4. CASE stored /\ httpd.ok
    <3>1. nvs'["wifi_pwd"] = httpd.pwd
      BY <1>0, <2>1, <2>4 DEF Store
    <3>2. /\ saved'["wifi_ssid"] = httpd.ssid /\ saved'["wifi_pwd"] = httpd.pwd
          /\ saved'["can_speed"] = saved["can_speed"]
      BY <1>0, <2>1, <2>4
    <3>3. nvs'["wifi_ssid"] = httpd.ssid
      BY <2>2, <2>3, <2>4 DEF Saving
    <3>4. "can_speed" \notin torn' => "can_speed" \notin torn
      BY <2>1, <2>4
    <3> QED
      BY <1>0, <2>2, <2>3, <3>1, <3>2, <3>3, <3>4 DEF WifiSaved, WifiKeys, SpeedSaved, Saving
  <2>5. CASE ~(stored /\ httpd.ok)
    BY <2>1, <2>2, <2>3, <2>5 DEF WifiSaved, SpeedSaved, Saving
  <2> QED
    BY <2>4, <2>5
<1>3. CASE \E v \in Speeds : SaveConfig(v)
  <2>1. PICK v \in Speeds, stored \in BOOLEAN :
          /\ httpd.pc = "idle" /\ httpd' = httpd /\ Store("can_speed", v, stored)
          /\ saved' = IF stored THEN [saved EXCEPT !["can_speed"] = v] ELSE saved
          /\ torn' = IF stored THEN torn \ {"can_speed"} ELSE torn \cup {"can_speed"}
    BY <1>3 DEF SaveConfig, Request
  <2>2. \A k \in WifiKeys : nvs'[k] = nvs[k] /\ saved'[k] = saved[k]
    BY <1>0, <2>1 DEF Store, WifiKeys
  <2>3. "wifi_ssid" \notin torn' => "wifi_ssid" \notin torn
    BY <2>1
  <2>4. WifiSaved'
    BY <2>2, <2>3 DEF WifiSaved, WifiKeys
  <2>5. SpeedSaved'
    BY <1>0, <2>1 DEF Store, SpeedSaved
  <2> QED
    BY <2>1, <2>4, <2>5 DEF Saving
<1>4. CASE FactoryReset \/ Boot \/ EraseCutShort
  <2>1. PICK erased \in SUBSET Keys : Erase(erased)
    BY <1>4 DEF FactoryReset, Boot, EraseCutShort
  <2>2. httpd'.pc # "pwd"
    <3>1. CASE FactoryReset
      BY <1>0, <3>1 DEF FactoryReset, HttpdType
    <3>2. CASE Boot \/ EraseCutShort
      BY <3>2 DEF Boot, EraseCutShort, LinkInv, OffInv
    <3> QED
      BY <1>4, <3>1, <3>2
  <2>3. WifiSaved' /\ SpeedSaved'
    BY <2>1, EraseSaved
  <2> QED
    BY <2>2, <2>3 DEF Saving
<1>5. CASE UNCHANGED <<nvs, saved, torn>> /\ (httpd'.pc # "pwd" \/ httpd' = httpd)
  BY <1>5 DEF WifiSaved, SpeedSaved, Saving
<1>6. CASE \/ Restart \/ ConnectNew \/ Disconnect \/ SetConfig
           \/ \E s \in Ssids, p \in Pwds : SaveWifi(s, p)
  <2>1. UNCHANGED <<nvs, saved, torn>>
    BY <1>6 DEF Restart, ConnectNew, Disconnect, SetConfig, SaveWifi
  <2>2. httpd'.pc # "pwd"
    BY <1>0, <1>6 DEF Restart, ConnectNew, Disconnect, SetConfig, SaveWifi, At, Handling,
                      HttpdType
  <2> QED
    BY <1>5, <2>1, <2>2
<1> QED
  BY <1>1, <1>2, <1>3, <1>4, <1>5, <1>6 DEF Next, Httpd, Joined, LinkLost, HandleEvent

-----------------------------------------------------------------------------
(* The theorems. *)

IInv == TypeOK /\ LinkInv /\ SavedInv

\* The types, the watch over the link and the bookkeeping of saves are inductive together.
THEOREM InductiveInv == Spec => []IInv
<1>1. Init => IInv
  BY TypeInit, LinkInit, SavedInit DEF IInv
<1>2. IInv /\ [Next]_vars => IInv'
  <2>1. ASSUME IInv, Next PROVE IInv'
    BY <2>1, TypeStep, LinkStep, SavedStep DEF IInv
  <2>2. ASSUME IInv, UNCHANGED vars PROVE IInv'
    <3>1. TypeOK'
      BY <2>2, TypeStep DEF IInv
    <3>2. LinkInv'
      BY <2>2 DEF vars, IInv, LinkInv, OffInv, LastTells, LinkWatched
    <3>3. SavedInv'
      BY <2>2 DEF vars, IInv, SavedInv, WifiSaved, SpeedSaved, Saving
    <3> QED
      BY <3>1, <3>2, <3>3 DEF IInv
  <2> QED
    BY <2>1, <2>2
<1> QED
  BY <1>1, <1>2, PTL DEF Spec

\* Every variable of the configuration keeps its type; the driver never gets a string
\* that does not fit its fields.
THEOREM TypeCorrect == Spec => []TypeOK
<1>1. IInv => TypeOK
  BY DEF IInv
<1> QED
  BY InductiveInv, <1>1, PTL

\* A link that is down is always somebody's to connect, and EVT_WIFI_CONNECTED tells the
\* link once the events are handled (wifi_event_handler against wifi_save_handler).
THEOREM LinkIsWatched == Spec => []LinkWatched
<1>1. IInv => LinkWatched
  BY DEF IInv, LinkInv
<1> QED
  BY InductiveInv, <1>1, PTL

\* What boot makes of a map that holds the strings s, but for the torn keys t.
LEMMA BootReads ==
  ASSUME NEW map \in [Keys -> Stored], NEW s \in [Keys -> Stored], NEW t,
         wifi'.ssid = BootSsid(map), wifi'.pwd = BootPwd(map),
         can' = Bitrate(NvsGet(map, "can_speed", 8, DefaultSpeed)),
         "wifi_ssid" \notin t =>
           /\ map["wifi_ssid"] = s["wifi_ssid"] /\ map["wifi_pwd"] = s["wifi_pwd"]
           /\ s["wifi_ssid"] = Absent => s["wifi_pwd"] = Absent,
         "can_speed" \notin t => map["can_speed"] = s["can_speed"]
  PROVE  BootsWith(s, t)
<1>0. s["wifi_ssid"] \in Stored /\ s["wifi_pwd"] \in Stored /\ s["can_speed"] \in Stored
  BY DEF Keys
<1>1. ASSUME "wifi_ssid" \notin t, s["wifi_ssid"] # Absent, s["wifi_ssid"].len <= 31
      PROVE  wifi'.ssid = s["wifi_ssid"]
  <2>1. map["wifi_ssid"] = s["wifi_ssid"] /\ s["wifi_ssid"] \in Strings
    BY <1>0, <1>1 DEF Stored
  <2>2. NvsGet(map, "wifi_ssid", 33, DefaultSsid) = s["wifi_ssid"]
    BY <1>1, <2>1 DEF NvsGet, Strings
  <2> QED
    BY <1>1, <2>1, <2>2, CutType DEF BootSsid, Ssid
<1>2. ASSUME "wifi_ssid" \notin t, s["wifi_pwd"] # Absent, s["wifi_pwd"].len <= 63
      PROVE  wifi'.pwd = s["wifi_pwd"]
  <2>1. map["wifi_pwd"] = s["wifi_pwd"] /\ s["wifi_pwd"] \in Strings
    BY <1>0, <1>2 DEF Stored
  <2>2. NvsGet(map, "wifi_pwd", 65, DefaultPwd) = s["wifi_pwd"]
    BY <1>2, <2>1 DEF NvsGet, Strings
  <2> QED
    BY <1>2, <2>1, <2>2, CutType DEF BootPwd, Pwd
<1>3. ASSUME "wifi_ssid" \notin t, s["wifi_ssid"] = Absent
      PROVE  wifi'.ssid = Ssid(DefaultSsid) /\ wifi'.pwd = Pwd(DefaultPwd)
  <2>1. map["wifi_ssid"] = Absent /\ map["wifi_pwd"] = Absent
    BY <1>3
  <2>2. /\ NvsGet(map, "wifi_ssid", 33, DefaultSsid) = Cut(DefaultSsid, 32)
        /\ NvsGet(map, "wifi_pwd", 65, DefaultPwd) = Cut(DefaultPwd, 64)
    BY <2>1 DEF NvsGet
  <2>3. /\ Cut(Cut(DefaultSsid, 32), 31) = Cut(DefaultSsid, 31)
        /\ Cut(Cut(DefaultPwd, 64), 63) = Cut(DefaultPwd, 63)
    BY Consts, CutTwice
  <2> QED
    BY <2>2, <2>3 DEF BootSsid, BootPwd, Ssid, Pwd
<1>4. ASSUME "can_speed" \notin t
      PROVE  can' = Bitrate(IF s["can_speed"] = Absent \/ s["can_speed"].len >= 8
                            THEN DefaultSpeed ELSE s["can_speed"])
  <2>1. map["can_speed"] = s["can_speed"]
    BY <1>4
  <2>2. CASE s["can_speed"] = Absent \/ s["can_speed"].len >= 8
    <3>1. NvsGet(map, "can_speed", 8, DefaultSpeed) = Cut(DefaultSpeed, 7)
      BY <2>1, <2>2 DEF NvsGet
    <3>2. Bitrate(Cut(DefaultSpeed, 7)) = Bitrate(DefaultSpeed)
      BY Consts, BitrateOfCut
    <3> QED
      BY <2>2, <3>1, <3>2
  <2>3. CASE ~(s["can_speed"] = Absent \/ s["can_speed"].len >= 8)
    <3>1. NvsGet(map, "can_speed", 8, DefaultSpeed) = s["can_speed"]
      BY <2>1, <2>3 DEF NvsGet
    <3> QED
      BY <2>3, <3>1
  <2> QED
    BY <2>2, <2>3
<1> QED
  BY <1>1, <1>2, <1>3, <1>4 DEF BootsWith

\* It reads what was saved, or it erased it all and reads nothing.
LEMMA BootStep ==
  ASSUME TypeOK, SavedInv, Boot
  PROVE  BootsWith(saved, torn) \/ (nvs' = AllAbsent /\ BootsWith(AllAbsent, {}))
<1>0. /\ nvs \in [Keys -> Stored] /\ saved \in [Keys -> Stored]
      /\ AllAbsent \in [Keys -> Stored]
      /\ "wifi_ssid" \in Keys /\ "wifi_pwd" \in Keys /\ "can_speed" \in Keys
  BY DEF TypeOK, Stored, AllAbsent, Keys
<1>1. PICK erased \in {{}, Keys} :
        Erase(erased) /\ can' = Bitrate(NvsGet(nvs', "can_speed", 8, DefaultSpeed))
  BY DEF Boot
<1>2. wifi'.ssid = BootSsid(nvs') /\ wifi'.pwd = BootPwd(nvs')
  BY BootWifi
<1>3. CASE erased = {}
  <2>1. nvs' = nvs
    BY <1>0, <1>1, <1>3 DEF Erase, Without
  <2>2. "wifi_ssid" \notin torn =>
           /\ nvs["wifi_ssid"] = saved["wifi_ssid"] /\ nvs["wifi_pwd"] = saved["wifi_pwd"]
           /\ saved["wifi_ssid"] = Absent => saved["wifi_pwd"] = Absent
    BY DEF SavedInv, WifiSaved, WifiKeys
  <2>3. "can_speed" \notin torn => nvs["can_speed"] = saved["can_speed"]
    BY DEF SavedInv, SpeedSaved
  <2>4. BootsWith(saved, torn)
    BY <1>0, <1>1, <1>2, <2>1, <2>2, <2>3, BootReads
  <2> QED
    BY <2>4
<1>4. CASE erased = Keys
  <2>1. nvs' = AllAbsent
    BY <1>1, <1>4 DEF Erase, Without, AllAbsent
  <2>2. AllAbsent["wifi_ssid"] = Absent => AllAbsent["wifi_pwd"] = Absent
    BY <1>0 DEF AllAbsent
  <2>3. BootsWith(AllAbsent, {})
    BY <1>0, <1>1, <1>2, <2>1, <2>2, BootReads
  <2> QED
    BY <2>1, <2>3
<1> QED
  BY <1>1, <1>3, <1>4

\* The gateway boots with what the last complete save stored, and with the defaults when
\* there is nothing, or when app_main erased it all (app_main against wifi_save_handler,
\* config_save_handler and factory_handler, with power failing anywhere between).
THEOREM BootsWithSaved == Spec => BootUsesSaved
<1>1. ASSUME IInv, Next, ~on, on' PROVE Boot
  <2>1. httpd.pc = "idle" /\ ~server /\ events = <<>> /\ wifi.link = "down"
    BY <1>1 DEF IInv, LinkInv, OffInv
  <2> QED
    BY <1>1, <2>1 DEF Next, Httpd, EraseCutShort, Restart, Joined, LinkLost, HandleEvent, SaveWifi,
       StoreSsid, StorePwd, Disconnect, SetConfig, ConnectNew, SaveConfig, FactoryReset, Request, At
<1>2. ASSUME IInv, Next, ~on, on'
      PROVE  BootsWith(saved, torn) \/ (nvs' = AllAbsent /\ BootsWith(AllAbsent, {}))
  BY <1>1, <1>2, BootStep DEF IInv
<1>3. ASSUME IInv, UNCHANGED vars PROVE on' = on
  BY <1>3 DEF vars
<1>4. IInv /\ [Next]_vars =>
        [~on /\ on' => BootsWith(saved, torn) \/ (nvs' = AllAbsent /\ BootsWith(AllAbsent, {}))]_vars
  BY <1>2, <1>3
<1> QED
  BY <1>4, InductiveInv, PTL DEF Spec, BootUsesSaved
=============================================================================
