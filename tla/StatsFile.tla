------------------------------ MODULE StatsFile ------------------------------
(***************************************************************************)
(* The statistics file (src/src/stats.rs): every crebro process counts     *)
(* redactions per placeholder in one stats.json, which it reads, changes   *)
(* and writes again for every report.  A process records one report at a   *)
(* time, for it holds its registry's write guard; nothing orders the       *)
(* processes.  A write truncates the file first.                           *)
(***************************************************************************)
EXTENDS Naturals

CONSTANTS
    Processes,
    Placeholders,
    Reports(_),     \* what a process may report: how often it put in each placeholder
    MaxReports,
    NoFile, Unreadable

Counts == [Placeholders -> Nat]

Zero == [k \in Placeholders |-> 0]

ASSUME StatsAssumption ==
    /\ \A p \in Processes : Reports(p) \subseteq Counts
    /\ NoFile \notin Counts /\ Unreadable \notin Counts

VARIABLES
    statsFile,  \* stats.json: counts, Unreadable (empty, cut off, mixed up) or NoFile
    at,         \* of each process: "idle", "read", "truncated", "killed"
    stats,      \* the counts a process is about to write
    \* observed, not kept by the program:
    reported,   \* how often each placeholder has been reported
    disturbed   \* updates overlapped, or one was cut off

statsVars == <<statsFile, at, stats, reported, disturbed>>

StatsInit ==
    /\ statsFile = NoFile
    /\ at = [p \in Processes |-> "idle"]
    /\ stats = [p \in Processes |-> Zero]
    /\ reported = Zero
    /\ disturbed = FALSE

Updating(p) == at[p] \in {"read", "truncated"}

\* Mutant of ReadStatsFile: a process goes on from what it wrote last.
ReadOwnStats(p) == stats[p]

\* read_stats_file, and the default where there is nothing to read.
ReadStatsFile(p) == IF statsFile \in {NoFile, Unreadable} THEN Zero ELSE statsFile

\* record_sanitizer_report up to the write; an empty report is left alone.
Read(p) ==
    /\ at[p] = "idle"
    /\ \E redactions \in Reports(p) \ {Zero} :
        LET counted(counts) == [k \in Placeholders |-> counts[k] + redactions[k]]
        IN
        /\ \A k \in Placeholders : counted(reported)[k] <= MaxReports
        /\ stats' = [stats EXCEPT ![p] = counted(ReadStatsFile(p))]
        /\ reported' = counted(reported)
    /\ at' = [at EXCEPT ![p] = "read"]
    /\ disturbed' = (disturbed \/ \E q \in Processes : Updating(q))
    /\ UNCHANGED statsFile

\* fs::write opens the file and truncates it.
Truncate(p) ==
    /\ at[p] = "read"
    /\ statsFile' = Unreadable
    /\ at' = [at EXCEPT ![p] = "truncated"]
    /\ UNCHANGED <<stats, reported, disturbed>>

\* Its bytes replace those another process has written meanwhile, but for a longer rest.
Write(p) ==
    /\ at[p] = "truncated"
    /\ \/ statsFile' = stats[p]
       \/ statsFile # Unreadable /\ statsFile' = Unreadable
    /\ at' = [at EXCEPT ![p] = "idle"]
    /\ UNCHANGED <<stats, reported, disturbed>>

\* The disk is full, or the file cannot be opened: a warning is logged.
FailToWrite(p) ==
    /\ Updating(p)
    /\ at' = [at EXCEPT ![p] = "idle"]
    /\ disturbed' = TRUE
    /\ UNCHANGED <<statsFile, stats, reported>>

Kill(p) ==
    /\ at[p] # "killed"
    /\ at' = [at EXCEPT ![p] = "killed"]
    /\ disturbed' = (disturbed \/ Updating(p))
    /\ UNCHANGED <<statsFile, stats, reported>>

StatsNext ==
    \E p \in Processes :
        Read(p) \/ Truncate(p) \/ Write(p) \/ FailToWrite(p) \/ Kill(p)

StatsSpec == StatsInit /\ [][StatsNext]_statsVars

-----------------------------------------------------------------------------

\* The type of each variable.
StatsTypeOK ==
    /\ statsFile \in Counts \cup {NoFile, Unreadable}
    /\ at \in [Processes -> {"idle", "read", "truncated", "killed"}]
    /\ stats \in [Processes -> Counts]
    /\ reported \in Counts
    /\ disturbed \in BOOLEAN

\* Best effort has a direction: whatever updates overlap, are cut off or meet a half-written
\* file, nothing is ever counted that was not reported; and without any of that nothing is
\* lost, whichever processes took turns.
CountsAreReports ==
    /\ statsFile \in Counts => \A k \in Placeholders : statsFile[k] <= reported[k]
    /\ ~disturbed /\ (\A p \in Processes : ~Updating(p)) =>
        IF statsFile = NoFile THEN reported = Zero ELSE statsFile = reported
=============================================================================
