------------------------------ MODULE RootZone ------------------------------
(***************************************************************************)
(* The root zone manager (src/root_zone.rs): what it loads at startup,     *)
(* downloads and refreshes, how it installs the TLD delegations into the   *)
(* delegation cache that resolutions learn into and purge (src/recursor),  *)
(* and the two files it keeps, across crashes and restarts.                *)
(*                                                                         *)
(* A zone file is a sequence of lines, of which the NS and the address     *)
(* records matter.  Time is in days.  The first download is over (its      *)
(* client gives up after a minute) before the refresh loop's first turn    *)
(* comes (after hours), so one download or install runs at a time.         *)
(***************************************************************************)
EXTENDS Integers, Sequences, FiniteSets, Functions

CONSTANTS
  Tlds,            \* top-level domains
  Published,       \* Published[n]: the zone file with serial n
  MinDelegations,  \* 100
  MaxAgeDays,      \* ROOT_ZONE_MAX_AGE_DAYS
  RefreshDays,     \* ROOT_ZONE_REFRESH_HOURS
  MaxDays,         \* bound on the clock
  MaxCrashes,      \* bound on the crashes
  MaxRefreshFailures,     \* bound on the failed refreshes that are counted
  NoDelegation, NoFile

Serials == 1..Len(Published)

ASSUME PublishedAssumption ==
  /\ Published \in Seq(Seq(
       [rtype : {"NS"}, owner : Tlds, ns : STRING] \cup [rtype : {"A"}, owner : STRING]))
ASSUME RootBoundsAssumption ==
  /\ MinDelegations \in Nat /\ MaxAgeDays \in Nat /\ RefreshDays \in Nat \ {0}
  /\ MaxDays \in Nat /\ MaxCrashes \in Nat /\ MaxRefreshFailures \in Nat

VARIABLES
  today,
  tld_cache,  \* the delegation cache, at the top-level domains
  status,     \* RootZoneStatus
  phase,      \* where the manager is
  data,       \* the RootZoneData in hand
  todo,       \* top-level domains still to be dropped, or inserted
  due,        \* when the refresh loop's next turn comes
  text,       \* the text file: [serial, lines]
  json,       \* the JSON file
  purged,     \* top-level domains purged since they were last inserted (history)
  crashes     \* crashes so far

rootVars == <<today, tld_cache, status, phase, data, todo, due, text, json, purged, crashes>>

\* What an entry holds, and when it expires, is in Recursor; here it matters
\* where it came from.
DelegationEntry == [source : {"Dynamic", "RootZone"}, serial : {0} \cup Serials]
ASSUME NoDelegationAssumption == NoDelegation \notin DelegationEntry

RootZoneData ==
  [serial : {0} \cup Serials, delegations : SUBSET Tlds, loaded_at : 0..MaxDays]
States == {"Valid", "StaleButUsable", "TooOld", "Missing"}

RootTypeOK ==
  /\ today \in 0..MaxDays
  /\ tld_cache \in [Tlds -> DelegationEntry \cup {NoDelegation}]
  /\ status \in [state : States, serial : {0} \cup Serials, tlds : SUBSET Tlds,
                failures : 0..MaxRefreshFailures]
  /\ phase \in {"down", "first", "idle", "refresh", "retain", "insert", "cut", "json", "status",
             "load_retain", "load_insert"}
  /\ data \in RootZoneData
  /\ todo \in SUBSET Tlds
  /\ due \in Nat
  /\ text = NoFile \/ (text.serial \in Serials /\ \E i \in 0..Len(Published[text.serial]) :
                         text.lines = SubSeq(Published[text.serial], 1, i))
  /\ json \in RootZoneData \cup {NoFile}
  /\ purged \in SUBSET Tlds
  /\ crashes \in 0..MaxCrashes

NoData == [serial |-> 0, delegations |-> {}, loaded_at |-> 0]
NoStatus == [state |-> "Missing", serial |-> 0, tlds |-> {}, failures |-> 0]

RootInit ==
  /\ today = 0
  /\ tld_cache = [z \in Tlds |-> NoDelegation]
  /\ status = NoStatus
  /\ phase = "down"
  /\ data = NoData
  /\ todo = {}
  /\ due = 0
  /\ text = NoFile /\ json = NoFile
  /\ purged = {}
  /\ crashes = 0

(***************************************************************************)
(* Pure parts                                                              *)
(***************************************************************************)
\* The delegations with an address for one of their nameservers.
parse_root_zone(lines) ==
  LET R == Range(lines)
      glue == {l.owner : l \in {k \in R : k.rtype = "A"}}
  IN  {l.owner : l \in {k \in R : k.rtype = "NS" /\ k.ns \in glue}}

classify_age(days) ==
  IF days > MaxAgeDays THEN "TooOld"
  ELSE IF days > MaxAgeDays \div 2 THEN "StaleButUsable" ELSE "Valid"

MinOf(a, b) == IF a < b THEN a ELSE b

(***************************************************************************)
(* RootZoneManager::start                                                  *)
(***************************************************************************)
try_load_json ==
  IF json # NoFile /\ Cardinality(json.delegations) >= MinDelegations
  THEN {json} ELSE {}

\* The text file, however few delegations it holds, is as of now.
try_load_text ==
  IF text # NoFile /\ parse_root_zone(text.lines) # {}
  THEN {[serial |-> text.serial, delegations |-> parse_root_zone(text.lines),
         loaded_at |-> today]}
  ELSE {}

\* The JSON file, or else the text file, or else a download.
Start ==
  /\ phase = "down"
  /\ due' = today + RefreshDays
  /\ LET local == IF try_load_json # {} THEN try_load_json ELSE try_load_text IN
     \/ /\ local = {}
        /\ phase' = "first"
        /\ UNCHANGED <<data, todo>>
     \/ /\ local # {}
        /\ data' \in local
        /\ todo' = Tlds
        /\ phase' = "load_retain"
  /\ UNCHANGED <<today, tld_cache, status, text, json, purged, crashes>>

(***************************************************************************)
(* install_to_cache: retain, then insert, entry by entry.                  *)
(***************************************************************************)
Installing(p) == phase = p \/ phase = IF p = "retain" THEN "load_retain" ELSE "load_insert"

\* Variant of Retain: the entries of the last install stay.
RetainAll(z) ==
  /\ Installing("retain") /\ z \in todo
  /\ tld_cache' = tld_cache
  /\ \/ todo # {z} /\ todo' = todo \ {z} /\ phase' = phase
     \/ /\ todo = {z} /\ todo' = data.delegations
        /\ phase' = IF phase = "retain" THEN "insert" ELSE "load_insert"
  /\ UNCHANGED <<today, status, data, due, text, json, purged, crashes>>

Retain(z) ==
  /\ Installing("retain") /\ z \in todo
  /\ tld_cache' = IF tld_cache[z] # NoDelegation /\ tld_cache[z].source = "RootZone"
              THEN [tld_cache EXCEPT ![z] = NoDelegation] ELSE tld_cache
  /\ \/ todo # {z} /\ todo' = todo \ {z} /\ phase' = phase
     \/ /\ todo = {z} /\ todo' = data.delegations
        /\ phase' = IF phase = "retain" THEN "insert" ELSE "load_insert"
  /\ UNCHANGED <<today, status, data, due, text, json, purged, crashes>>

Insert(z) ==
  /\ Installing("insert") /\ z \in todo
  /\ tld_cache' = [tld_cache EXCEPT ![z] = [source |-> "RootZone", serial |-> data.serial]]
  /\ todo' = todo \ {z}
  /\ purged' = purged \ {z}
  /\ UNCHANGED <<today, status, phase, data, due, text, json, crashes>>

\* After the install of local data: set_status_loaded.
Loaded ==
  /\ phase = "load_insert" /\ todo = {}
  /\ status' = [state |-> classify_age(today - data.loaded_at), serial |-> data.serial,
                tlds |-> data.delegations, failures |-> status.failures]
  /\ phase' = "idle"
  /\ data' = NoData
  /\ UNCHANGED <<today, tld_cache, todo, due, text, json, purged, crashes>>

(***************************************************************************)
(* download_and_refresh                                                    *)
(***************************************************************************)
\* The loop's next turn; a turn that is late moves the next one.
Refresh ==
  /\ phase = "idle" /\ today >= due
  /\ due' = due + RefreshDays
  /\ phase' = "refresh"
  /\ UNCHANGED <<today, tld_cache, status, data, todo, text, json, purged, crashes>>

Acceptable(n) == Cardinality(parse_root_zone(Published[n])) >= MinDelegations

\* Variant of Download: the number of delegations is not looked at.
DownloadAnything(n) ==
  /\ phase \in {"first", "refresh"}
  /\ parse_root_zone(Published[n]) # {}
  /\ data' = [serial |-> n, delegations |-> parse_root_zone(Published[n]), loaded_at |-> today]
  /\ todo' = Tlds
  /\ phase' = "retain"
  /\ UNCHANGED <<today, tld_cache, status, due, text, json, purged, crashes>>

Download(n) ==
  /\ phase \in {"first", "refresh"}
  /\ Acceptable(n)
  /\ data' = [serial |-> n, delegations |-> parse_root_zone(Published[n]), loaded_at |-> today]
  /\ todo' = Tlds
  /\ phase' = "retain"
  /\ UNCHANGED <<today, tld_cache, status, due, text, json, purged, crashes>>

\* The network, the parse or the check on the size fails.  Only the loop
\* counts the failure.
DownloadFails ==
  /\ phase \in {"first", "refresh"}
  /\ status' = IF phase = "refresh"
               THEN [status EXCEPT !.failures = MinOf(status.failures + 1, MaxRefreshFailures)]
               ELSE status
  /\ phase' = "idle"
  /\ UNCHANGED <<today, tld_cache, data, todo, due, text, json, purged, crashes>>

\* Variant of CutText: the install is not awaited.
CutTextEarly ==
  /\ phase = "insert"
  /\ \E i \in 0..Len(Published[data.serial]) :
       text' = [serial |-> data.serial, lines |-> SubSeq(Published[data.serial], 1, i)]
  /\ phase' = "cut"
  /\ UNCHANGED <<today, tld_cache, status, data, todo, due, json, purged, crashes>>

\* The text file is truncated and then written, in place.
CutText ==
  /\ phase = "insert" /\ todo = {}
  /\ \E i \in 0..Len(Published[data.serial]) :
       text' = [serial |-> data.serial, lines |-> SubSeq(Published[data.serial], 1, i)]
  /\ phase' = "cut"
  /\ UNCHANGED <<today, tld_cache, status, data, todo, due, json, purged, crashes>>

\* An error leaves what was written, and is only logged.
WriteText ==
  /\ phase = "cut"
  /\ \/ text' = [serial |-> data.serial, lines |-> Published[data.serial]]
     \/ UNCHANGED text
  /\ phase' = "json"
  /\ UNCHANGED <<today, tld_cache, status, data, todo, due, json, purged, crashes>>

\* save_json writes a file of its own and renames it, or fails.
SaveJson ==
  /\ phase = "json"
  /\ json' = data \/ UNCHANGED json
  /\ phase' = "status"
  /\ UNCHANGED <<today, tld_cache, status, data, todo, due, text, purged, crashes>>

\* Variant of SetStatus: the zone of the last install stays in the status.
SetStatusValid ==
  /\ phase = "status"
  /\ status' = [status EXCEPT !.state = "Valid", !.failures = 0]
  /\ phase' = "idle"
  /\ data' = NoData
  /\ UNCHANGED <<today, tld_cache, todo, due, text, json, purged, crashes>>

SetStatus ==
  /\ phase = "status"
  /\ status' = [state |-> "Valid", serial |-> data.serial, tlds |-> data.delegations,
                failures |-> 0]
  /\ phase' = "idle"
  /\ data' = NoData
  /\ UNCHANGED <<today, tld_cache, todo, due, text, json, purged, crashes>>

(***************************************************************************)
(* The environment: resolutions, crashes and time.                         *)
(***************************************************************************)
\* A resolution learns a delegation (resolve_internal), or purges one.
Learn(z) ==
  /\ phase # "down"
  /\ tld_cache' = [tld_cache EXCEPT ![z] = [source |-> "Dynamic", serial |-> 0]]
  /\ purged' = purged \ {z}
  /\ UNCHANGED <<today, status, phase, data, todo, due, text, json, crashes>>

Purge(z) ==
  /\ phase # "down" /\ tld_cache[z] # NoDelegation
  /\ tld_cache' = [tld_cache EXCEPT ![z] = NoDelegation]
  /\ purged' = purged \cup {z}
  /\ UNCHANGED <<today, status, phase, data, todo, due, text, json, crashes>>

Crash ==
  /\ phase # "down" /\ crashes < MaxCrashes
  /\ crashes' = crashes + 1
  /\ tld_cache' = [z \in Tlds |-> NoDelegation]
  /\ status' = NoStatus
  /\ phase' = "down"
  /\ data' = NoData
  /\ todo' = {}
  /\ purged' = {}
  /\ UNCHANGED <<today, due, text, json>>

NextDay ==
  /\ today < MaxDays /\ phase \in {"down", "idle"}
  /\ today' = today + 1
  /\ UNCHANGED <<tld_cache, status, phase, data, todo, due, text, json, purged, crashes>>

RootNext ==
  \/ Start \/ Loaded
  \/ Refresh \/ DownloadFails \/ \E n \in Serials : Download(n)
  \/ \E z \in Tlds : Retain(z) \/ Insert(z) \/ Learn(z) \/ Purge(z)
  \/ CutText \/ WriteText \/ SaveJson \/ SetStatus
  \/ Crash \/ NextDay

RootSpec == RootInit /\ [][RootNext]_rootVars

(***************************************************************************)
(* Properties                                                              *)
(***************************************************************************)
FromRootZone(z) == tld_cache[z] # NoDelegation /\ tld_cache[z].source = "RootZone"

\* Delegations of two versions of the root zone are never in the cache
\* together, not even half way through an install that resolutions race.
OneVersion ==
  \A y, z \in Tlds : FromRootZone(y) /\ FromRootZone(z) => tld_cache[y].serial = tld_cache[z].serial

\* Between installs the status describes what is in use: a refresh that fails
\* leaves both alone, and after a crash both start over.
StatusMatchesCache ==
  phase \in {"down", "first", "idle", "refresh"} =>
    \A z \in Tlds : FromRootZone(z) => tld_cache[z].serial = status.serial /\ z \in status.tlds

\* An install is complete: a top-level domain the status counts has an entry,
\* unless a resolution purged it since.
InstallComplete ==
  phase \in {"idle", "refresh"} => \A z \in status.tlds : tld_cache[z] # NoDelegation \/ z \in purged

\* A crash at any point leaves a JSON file that holds a whole published zone,
\* of the size that is required of a download.
JsonWhole ==
  json # NoFile =>
    /\ json.delegations = parse_root_zone(Published[json.serial])
    /\ Cardinality(json.delegations) >= MinDelegations

=============================================================================
