------------------------------ MODULE Collector ------------------------------
(***************************************************************************)
(* The corpus collector (collect in python/hwm_solver/corpus/collector.py  *)
(* and load_urls in urls.py): for every battle of a list of links, unless  *)
(* its payload is on disk, the links that may lead to it are tried in      *)
(* turn, the first payload found is written to disk and then described in  *)
(* a metadata file.  A run may stop at any point (a crash, an interrupt, a *)
(* full disk: nothing around the writes catches it) and be started again.  *)
(***************************************************************************)
EXTENDS Integers, Sequences, FiniteSets

CONSTANTS
    Urls,      \* the file of links: a sequence of [battle |-> identifier, links |-> number of candidates]
    Limits,    \* values of the limit option, 0 for none
    MaxRuns    \* bound: how often the collector is started

AllBattles == {Urls[i].battle : i \in 1..Len(Urls)}
Links      == [battle : AllBattles, links : Nat]

ASSUME CollectorAssumption ==
    /\ Urls \in Seq(Links)
    /\ Limits \subseteq Nat /\ MaxRuns \in Nat

VARIABLES
    data,      \* payload file of each battle: "none" (missing or empty), "cut" or "whole"
    meta,      \* metadata file of each battle: "none", "cut", "ok" or "error"
    rows,      \* the battles of the current run
    place,     \* i: the battle it is at
    link,      \* the candidate that is tried next
    phase,     \* "idle", "next", "fetch", "write", "describe" or "done"
    status,    \* what the metadata will say
    ok, failed, skipped,
    runs       \* runs started so far

disk == <<data, meta>>
counters == <<ok, failed, skipped>>
vars == <<disk, rows, place, link, phase, status, counters, runs>>

\* Faulty: a battle that is linked twice is kept twice.
LoadAllUrls(urls) == urls

\* A link is kept unless the list has its battle already.
Added(list, url) ==
    IF \E k \in 1..Len(list) : list[k].battle = url.battle THEN list ELSE Append(list, url)

LoadUrls(urls) ==
    LET load[i \in 0..Len(urls)] == IF i = 0 THEN << >> ELSE Added(load[i - 1], urls[i])
    IN  load[Len(urls)]

Limited(all, n) == IF n = 0 \/ n > Len(all) THEN all ELSE SubSeq(all, 1, n)

Battle == rows[place].battle

Init ==
    /\ data = [b \in AllBattles |-> "none"] /\ meta = [b \in AllBattles |-> "none"]
    /\ rows = << >> /\ place = 1 /\ link = 1
    /\ phase = "idle" /\ status = "none"
    /\ ok = 0 /\ failed = 0 /\ skipped = 0
    /\ runs = 0

Start ==
    /\ phase \in {"idle", "done"} /\ runs < MaxRuns
    /\ \E n \in Limits : rows' = Limited(LoadUrls(Urls), n)
    /\ place' = 1 /\ link' = 1
    /\ phase' = "next" /\ status' = "none"
    /\ ok' = 0 /\ failed' = 0 /\ skipped' = 0
    /\ runs' = runs + 1
    /\ UNCHANGED disk

\* A payload that is there and not empty is taken as it is.
Skip ==
    /\ phase = "next" /\ place <= Len(rows) /\ data[Battle] # "none"
    /\ ok' = ok + 1 /\ skipped' = skipped + 1
    /\ place' = place + 1
    /\ UNCHANGED <<disk, rows, link, phase, status, failed, runs>>

Begin ==
    /\ phase = "next" /\ place <= Len(rows) /\ data[Battle] = "none"
    /\ phase' = "fetch" /\ link' = 1
    /\ UNCHANGED <<disk, rows, place, status, counters, runs>>

\* An exception, another status than 200 or an empty body: the next candidate.
Miss ==
    /\ phase = "fetch" /\ link <= rows[place].links
    /\ link' = link + 1
    /\ UNCHANGED <<disk, rows, place, phase, status, counters, runs>>

\* Faulty: the metadata is written as soon as the payload is received.
HitDescribing ==
    /\ phase = "fetch" /\ link <= rows[place].links
    /\ phase' = "write" /\ meta' = [meta EXCEPT ![Battle] = "ok"]
    /\ UNCHANGED <<data, rows, place, link, status, counters, runs>>

Hit ==
    /\ phase = "fetch" /\ link <= rows[place].links
    /\ phase' = "write"
    /\ UNCHANGED <<disk, rows, place, link, status, counters, runs>>

GiveUp ==
    /\ phase = "fetch" /\ link > rows[place].links
    /\ phase' = "describe" /\ status' = "error"
    /\ failed' = failed + 1
    /\ UNCHANGED <<disk, rows, place, link, ok, skipped, runs>>

WriteData ==
    /\ phase = "write"
    /\ data' = [data EXCEPT ![Battle] = "whole"]
    /\ phase' = "describe" /\ status' = "ok"
    /\ ok' = ok + 1
    /\ UNCHANGED <<meta, rows, place, link, failed, skipped, runs>>

WriteMeta ==
    /\ phase = "describe"
    /\ meta' = [meta EXCEPT ![Battle] = status]
    /\ phase' = "next" /\ place' = place + 1
    /\ UNCHANGED <<data, rows, link, status, counters, runs>>

Finish ==
    /\ phase = "next" /\ place > Len(rows)
    /\ phase' = "done"
    /\ UNCHANGED <<disk, rows, place, link, status, counters, runs>>

\* The run ends early; the file being written may be empty, cut short or complete.
Stop ==
    /\ phase \in {"next", "fetch", "write", "describe"}
    /\ phase' = "idle"
    /\ IF phase = "write" THEN \E d \in {"none", "cut", "whole"} : data' = [data EXCEPT ![Battle] = d]
       ELSE UNCHANGED data
    /\ IF phase = "describe" THEN \E m \in {meta[Battle], "cut", status} : meta' = [meta EXCEPT ![Battle] = m]
       ELSE UNCHANGED meta
    /\ UNCHANGED <<rows, place, link, status, counters, runs>>

Next == Start \/ Skip \/ Begin \/ Miss \/ Hit \/ GiveUp \/ WriteData \/ WriteMeta \/ Finish \/ Stop

Spec == Init /\ [][Next]_vars

-----------------------------------------------------------------------------
\* Metadata that says "ok" describes the payload that is on disk, over any number of
\* interrupted runs (collect writes the payload first and never again once it is there).
DescribedIsWhole == \A b \in AllBattles : meta[b] = "ok" => data[b] = "whole"

\* The summary of a run that ends accounts for every battle once: those without a
\* payload are the failed ones, and each of them has metadata that says so, whatever
\* earlier runs left behind (the counters of collect, the seen set of load_urls).
RunAccountsForAll ==
    LET requested == {rows[i].battle : i \in 1..Len(rows)}
        missing   == {b \in requested : data[b] = "none"}
    IN  phase = "done" =>
          /\ ok = Cardinality(requested \ missing) /\ failed = Cardinality(missing)
          /\ ok + failed = Len(rows) /\ skipped <= ok
          /\ \A b \in missing : meta[b] = "error"
=============================================================================
