---------------------------- MODULE UpdateNotice ---------------------------
(***************************************************************************)
(* The update notice (update_check.py): before its command, a process that *)
(* talks to a person reads a small cache file, asks the server if what is  *)
(* there is older than a day, and replaces the file.  Processes do this at *)
(* the same time, on one clock that does not go back.  Any step can be the *)
(* last one of its process.                                                *)
(***************************************************************************)
EXTENDS Integers

CONSTANTS
    Procs,
    Interval,   \* _CHECK_INTERVAL_SECONDS in ticks
    Current,    \* this version
    Latest,     \* bound: the last version the server will announce
    MaxClock    \* bound: the end of the clock

ASSUME NoticeAssumption ==
    /\ {Interval, Current, Latest, MaxClock} \subseteq Nat
    /\ Current <= Latest

VARIABLES
    clock,
    server,     \* the version latest.json names
    cacheFile,  \* what update-check.json holds
    temps,      \* processes that have left a temporary file
    check,      \* per process: its place, its now, what it knows
    lastAsk     \* history: the time of the last ask, none at first

noticeVars == <<clock, server, cacheFile, temps, check, lastAsk>>

Unknown == 0    \* no version
NoFile == [at |-> 0, version |-> Unknown]
NoCheck == [pc |-> "idle", now |-> 0, latest |-> Unknown]

NoticeInit ==
    /\ clock = Interval /\ server = Current
    /\ cacheFile = NoFile
    /\ temps = {}
    /\ check = [p \in Procs |-> NoCheck]
    /\ lastAsk = 0

Become(p, label) == check' = [check EXCEPT ![p].pc = label]

(* maybe_print_update_notice.  A disabled check, a CI job and a stream that*)
(* is no terminal return at once.                                          *)
NoticeSkipped(p) ==
    /\ check[p].pc = "idle"
    /\ Become(p, "done")
    /\ UNCHANGED <<clock, server, cacheFile, temps, lastAsk>>

NoticeBegins(p) ==
    /\ check[p].pc = "idle"
    /\ check' = [check EXCEPT ![p] = [NoCheck EXCEPT !.pc = "read", !.now = clock]]
    /\ UNCHANGED <<clock, server, cacheFile, temps, lastAsk>>

(* newer_version: a cache file that is younger than a day answers, without *)
(* one the server is asked.                                                *)
Fresh(p) == cacheFile # NoFile /\ check[p].now - cacheFile.at < Interval

ReadCache(p) ==
    /\ check[p].pc = "read"
    /\ check' = [check EXCEPT ![p].pc = IF Fresh(p) THEN "done" ELSE "fetch",
                              ![p].latest = cacheFile.version]
    /\ lastAsk' = IF Fresh(p) THEN lastAsk ELSE clock
    /\ UNCHANGED <<clock, server, cacheFile, temps>>

(* Mutant of Fetch: without an answer nothing is known.                    *)
FetchOrNothing(p) ==
    /\ check[p].pc = "fetch"
    /\ \E observed \in {Unknown, server} :
          check' = [check EXCEPT ![p].pc = "write", ![p].latest = observed]
    /\ UNCHANGED <<clock, server, cacheFile, temps, lastAsk>>

(* _fetch_latest_version: an OSError, a timeout or a text that is no answer*)
(* is none.  Without an answer the cached version is kept, and without one *)
(* of those the current version.                                           *)
Fetch(p) ==
    /\ check[p].pc = "fetch"
    /\ \E observed \in {Unknown, server} :
          check' = [check EXCEPT ![p].pc = "write",
                       ![p].latest = IF observed # Unknown THEN observed
                                     ELSE IF @ # Unknown THEN @ ELSE Current]
    /\ UNCHANGED <<clock, server, cacheFile, temps, lastAsk>>

(* Neither here nor in maybe_print_update_notice is an HTTPException caught*)
(* (a status line or a body cut short): it ends the process.               *)
FetchRaises(p) ==
    /\ check[p].pc = "fetch"
    /\ check' = [check EXCEPT ![p] = NoCheck]
    /\ UNCHANGED <<clock, server, cacheFile, temps, lastAsk>>

(* _write_cache: a temporary file replaces the cache file, or an OSError   *)
(* leaves it as it was.                                                    *)
WriteTemporary(p) ==
    /\ check[p].pc = "write"
    /\ \/ temps' = temps \union {p} /\ Become(p, "replace")
       \/ Become(p, "done") /\ UNCHANGED temps
    /\ UNCHANGED <<clock, server, cacheFile, lastAsk>>

Stamped(p) == [at |-> check[p].now, version |-> check[p].latest]

ReplaceCache(p) ==
    /\ check[p].pc = "replace"
    /\ cacheFile' = Stamped(p)
    /\ temps' = temps \ {p}
    /\ Become(p, "done")
    /\ UNCHANGED <<clock, server, lastAsk>>

(* An interrupt removes the temporary file; a kill does not.               *)
NoticeStops(p) ==
    /\ check[p].pc \notin {"idle", "done"}
    /\ check' = [check EXCEPT ![p] = NoCheck]
    /\ \/ temps' = temps \ {p}
       \/ UNCHANGED temps
    /\ UNCHANGED <<clock, server, cacheFile, lastAsk>>

(* The command goes on; what the check knew went with its stack.           *)
NoticeEnds(p) ==
    /\ check[p].pc = "done"
    /\ check' = [check EXCEPT ![p] = NoCheck]
    /\ UNCHANGED <<clock, server, cacheFile, temps, lastAsk>>

(* The rest of the world.                                                  *)
Tick ==
    /\ clock < MaxClock
    /\ clock' = clock + 1
    /\ UNCHANGED <<server, cacheFile, temps, check, lastAsk>>

ServerReleases ==
    /\ server < Latest
    /\ server' = server + 1
    /\ UNCHANGED <<clock, cacheFile, temps, check, lastAsk>>

NoticeStep(p) ==
    ReadCache(p) \/ Fetch(p) \/ WriteTemporary(p) \/ ReplaceCache(p)

NoticeNext ==
    \/ \E p \in Procs : \/ NoticeSkipped(p) \/ NoticeBegins(p) \/ NoticeStep(p)
                        \/ FetchRaises(p) \/ NoticeStops(p) \/ NoticeEnds(p)
    \/ Tick \/ ServerReleases

NoticeSpec == NoticeInit /\ [][NoticeNext]_noticeVars

-----------------------------------------------------------------------------
(* The version the notice names at the end, if it names one.               *)
Notice(p) == IF check[p].latest > Current THEN {check[p].latest} ELSE {}

NoticeTypeOK ==
    /\ clock \in Nat /\ server \in Current .. Latest
    /\ cacheFile \in [at : 0 .. clock, version : Current .. server] \union {NoFile}
    /\ \A p \in Procs : /\ check[p].now \in 0 .. clock
                        /\ Notice(p) \subseteq Current + 1 .. server
                        /\ p \in temps \/ check[p].pc # "replace"
    /\ lastAsk \in 0 .. clock

(* "ModelBake checks https://modelbake.dev/latest.json at most once every  *)
(* 24 hours" (README.md:69): a process that turns to the server does so a  *)
(* day after the last one that did.  Processes that overlap, and an ask    *)
(* whose process or whose write fails, stand against it.                   *)
AskedOncePerDay ==
    [][\A p \in Procs : check[p].pc = "read" /\ check'[p].pc = "fetch" =>
                            lastAsk = 0 \/ clock - lastAsk >= Interval]_noticeVars
=============================================================================
