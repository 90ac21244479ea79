---------------------------- MODULE SanitizeFiles ----------------------------
(***************************************************************************)
(* crebro sanitize-conversations (src/src/sanitize.rs): stored agent       *)
(* conversations are rewritten in place with their secrets replaced, each  *)
(* file after a copy of it in a backup directory.  The process may be      *)
(* killed between any two steps, every step on a file may fail, an agent   *)
(* may write at any time, a file may be reached over two roots, and a      *)
(* later run may be given the same backup directory.                       *)
(*                                                                         *)
(* A file is a sequence of lines (the rows of a database); a line is what  *)
(* it spells: secrets that need to be known to be found, secrets marked by *)
(* a pattern or a <cb> directive, replacements.  A database is two files   *)
(* on disk, copied one after the other: what was committed last stands in  *)
(* its write-ahead log until a checkpoint moves it to the main file.       *)
(* SQLite is external; one that keeps no log is one that checkpoints with  *)
(* every commit, and the index of the log (-shm), which is copied as well, *)
(* holds no rows and is rebuilt from the log.  Which paths count as        *)
(* conversations is data: a walk lists the files in the order they are     *)
(* reached, roots of one canonical path having been dropped.               *)
(***************************************************************************)
EXTENDS Naturals, Sequences

CONSTANTS
    Files,
    KindOf(_),      \* "text", "binary" or "sqlite"
    Secrets,
    Discovered,     \* secrets of the environment and of the .env file
    InitialFiles,   \* what the files may hold at first: Files -> sequences of lines
    Lines,          \* what an agent may append
    Walks,          \* sequences of files that a run may go through
    Dirs,           \* backup directories
    Configs,        \* what a run may be given: [write, strict, dir]
    MaxRuns, MaxWrites,
    NoCopy          \* a file without a backup

Line == [plain: SUBSET Secrets, marked: SUBSET Secrets, replaced: SUBSET Secrets,
         malformed: BOOLEAN]

\* The copies of a file and, for a database, of the rows in its log.
Copy == [main: Seq(Line), log: SUBSET (Nat \X Line)]

ASSUME FilesAssumption ==
    /\ \A f \in Files : KindOf(f) \in {"text", "binary", "sqlite"}
    /\ Discovered \subseteq Secrets
    /\ InitialFiles \subseteq [Files -> Seq(Line)] /\ Lines \subseteq Line
    /\ Walks \subseteq Seq(Files)
    /\ Configs \subseteq [write: BOOLEAN, strict: BOOLEAN, dir: Dirs]
    /\ NoCopy \notin Copy

VARIABLES
    file,       \* what stands in each file; of a database, the rows it answers with
    main,       \* what stands in the file itself; of a database, without its log
    backup,     \* what stands in each backup directory for it
    config,     \* of the current run
    pc,         \* "idle", "walk", "copy", "copying", "log", "write", "replace"
    walk,       \* the files still to be reached
    known,      \* the registry of the run
    output,     \* what the file in hand is to become
    updates,    \* the lines of it that change
    report,     \* [targets, errors]: what the run says it changed, and what failed
    \* observed, not kept by the program:
    original,   \* what each file would hold if crebro had never run
    rewritten,  \* files the current run has rewritten
    swept,      \* files the current run is through with, as it left them
    written,    \* lines the agent has written
    raced,      \* files where a line written between reading and replacing was thrown away
    recopied,   \* files copied again, after a rewrite, to where their backup was
    torn,       \* databases whose log moved on between the copies of their two files
    runs

observed == <<original, rewritten, swept, written, raced, recopied, torn, runs>>
vars == <<file, main, backup, config, pc, walk, known, output, updates, report, observed>>

NoReport == [targets |-> {}, errors |-> {}]

Init ==
    /\ file \in InitialFiles
    /\ original = file /\ main = file
    /\ backup = [d \in Dirs |-> [f \in Files |-> NoCopy]]
    /\ config \in {c \in Configs : ~c.write}
    /\ pc = "idle" /\ walk = <<>> /\ known = {} /\ output = <<>> /\ updates = {}
    /\ report = NoReport
    /\ rewritten = {} /\ swept = {} /\ raced = {} /\ recopied = {} /\ torn = {}
    /\ written = 0
    /\ runs = 0

-----------------------------------------------------------------------------
\* What a file becomes (sanitize_text, sanitize_bytes_exact, the rows of process_sqlite).

\* The lines whose marked secrets are registered by the time line i is replaced: a text is
\* one string, a database's rows are sanitized one by one, a binary file registers nothing.
ReadBefore(f, lines, i) ==
    CASE KindOf(f) = "text" -> DOMAIN lines
      [] KindOf(f) = "sqlite" -> 1 .. i
      [] KindOf(f) = "binary" -> {}

KnownAt(f, lines, i) == known \cup UNION {lines[j].marked : j \in ReadBefore(f, lines, i)}

\* Mutant of ReplacedLine: a marked secret is registered and left as it is.
ReplacedPlainOnly(line, secrets) ==
    [line EXCEPT !.plain = @ \ secrets, !.replaced = @ \cup (line.plain \cap secrets)]

\* Every known secret becomes its replacement, a random text of the same length.
ReplacedLine(line, secrets) ==
    [line EXCEPT !.plain = @ \ secrets, !.marked = @ \ secrets,
                 !.replaced = @ \cup ((line.plain \cup line.marked) \cap secrets)]

Sanitized(f, lines) ==
    [i \in DOMAIN lines |-> ReplacedLine(lines[i], KnownAt(f, lines, i))]

\* Lines that stop the file they stand in: directives that do not parse, and in strict mode
\* a binary file's marks.
Refused(f, line) ==
    IF KindOf(f) = "binary" THEN config.strict /\ line.marked # {} ELSE line.malformed

RefusedLines(f) == {i \in DOMAIN file[f] : Refused(f, file[f][i])}

\* What is registered when a file is refused: of a database, the rows in front of that one.
KnownWhenRefused(f) ==
    IF KindOf(f) = "sqlite"
    THEN known \cup UNION {file[f][j].marked : j \in
            {j \in DOMAIN file[f] : \A i \in RefusedLines(f) : j < i}}
    ELSE known

-----------------------------------------------------------------------------
\* One run.

BeginRun ==
    /\ pc = "idle" /\ runs < MaxRuns
    /\ config' \in Configs
    /\ walk' \in Walks
    /\ known' = Discovered
    /\ report' = NoReport
    /\ pc' = "walk"
    /\ runs' = runs + 1
    /\ rewritten' = {} /\ swept' = {}
    /\ UNCHANGED <<file, main, backup, output, updates, original, written, raced, recopied, torn>>

InHand == Head(walk)

NextFile == pc' = "walk" /\ walk' = Tail(walk)

\* The file cannot be read, or holds what stops it.
Refuse ==
    /\ pc = "walk" /\ walk # <<>>
    /\ \/ known' = known
       \/ RefusedLines(InHand) # {} /\ known' = KnownWhenRefused(InHand)
    /\ report' = [report EXCEPT !.errors = @ \cup {InHand}]
    /\ NextFile
    /\ UNCHANGED <<file, main, backup, config, output, updates, observed>>

\* The file is read and sanitized; if that changes it, it is counted and, when the run
\* writes, goes on to its backup.
Scan ==
    LET lines == file[InHand]
        becomes == Sanitized(InHand, lines)
        changes == {i \in DOMAIN lines : becomes[i] # lines[i]}
    IN
    /\ pc = "walk" /\ walk # <<>>
    /\ RefusedLines(InHand) = {}
    /\ known' = KnownAt(InHand, lines, Len(lines))
    /\ report' = IF changes # {} THEN [report EXCEPT !.targets = @ \cup {InHand}] ELSE report
    /\ IF changes # {} /\ config.write
       THEN pc' = "copy" /\ output' = becomes /\ updates' = changes /\ UNCHANGED <<walk, swept>>
       ELSE /\ NextFile
            /\ swept' = IF changes # {} THEN swept ELSE swept \cup {InHand}
            /\ UNCHANGED <<output, updates>>
    /\ UNCHANGED <<file, main, backup, config,
                   original, rewritten, written, raced, recopied, torn, runs>>

Backup == backup[config.dir][InHand]

\* backup_file: the copy is written over whatever stands under its name, and grows from
\* there; the copy of a log stands under a name of its own.
BeginCopy ==
    /\ pc = "copy"
    /\ backup' = [backup EXCEPT ![config.dir][InHand] =
                    [main |-> <<>>, log |-> IF Backup = NoCopy THEN {} ELSE Backup.log]]
    /\ recopied' = IF file[InHand] # original[InHand] /\ Backup # NoCopy
                   THEN recopied \cup {InHand} ELSE recopied
    /\ pc' = "copying"
    /\ UNCHANGED <<file, main, config, walk, known, output, updates, report,
                   original, rewritten, swept, written, raced, torn, runs>>

CopyLine ==
    LET next == Len(Backup.main) + 1 IN
    /\ pc = "copying"
    /\ next <= Len(main[InHand])
    /\ backup' = [backup EXCEPT ![config.dir][InHand].main = Append(@, main[InHand][next])]
    /\ UNCHANGED <<file, main, config, pc, walk, known, output, updates, report, observed>>

\* Mutant of EndCopy: backup_sqlite copies the main file only.
EndCopyWithoutLog ==
    /\ pc = "copying"
    /\ Len(Backup.main) >= Len(main[InHand])
    /\ pc' = "write"
    /\ UNCHANGED <<file, main, backup, config, walk, known, output, updates, report, observed>>

EndCopy ==
    /\ pc = "copying"
    /\ Len(Backup.main) >= Len(main[InHand])
    /\ pc' = IF KindOf(InHand) = "sqlite" THEN "log" ELSE "write"
    /\ UNCHANGED <<file, main, backup, config, walk, known, output, updates, report, observed>>

\* The rows that only the log has.
Logged(f) ==
    {<<i, file[f][i]>> : i \in
        {i \in DOMAIN file[f] : i \in DOMAIN main[f] => main[f][i] # file[f][i]}}

\* backup_sqlite goes on with the log, which is there as long as the connection is open.
CopyLog ==
    /\ pc = "log"
    /\ backup' = [backup EXCEPT ![config.dir][InHand].log = Logged(InHand)]
    /\ pc' = "write"
    /\ UNCHANGED <<file, main, config, walk, known, output, updates, report, observed>>

\* write_file_atomic has written the temporary file; of a database, the rows are updated in
\* a transaction that is still open.
WriteOutput ==
    /\ pc = "write"
    /\ pc' = "replace"
    /\ UNCHANGED <<file, main, backup, config, walk, known, output, updates, report, observed>>

\* Mutant of Replacement: a database is replaced as a file is.
ReplacementOfAll(f) == output

\* A file is replaced as a whole, in a database the rows that changed.
Replacement(f) ==
    IF KindOf(f) = "sqlite"
    THEN [i \in DOMAIN file[f] |-> IF i \in updates THEN output[i] ELSE file[f][i]]
    ELSE output

\* The rename, or the commit, which goes to the log.
Replace ==
    /\ pc = "replace"
    /\ file' = [file EXCEPT ![InHand] = Replacement(InHand)]
    /\ main' = IF KindOf(InHand) = "sqlite" THEN main
               ELSE [main EXCEPT ![InHand] = Replacement(InHand)]
    /\ rewritten' = rewritten \cup {InHand}
    /\ swept' = IF Replacement(InHand) = output THEN swept \cup {InHand} ELSE swept
    /\ NextFile
    /\ UNCHANGED <<backup, config, known, output, updates, report,
                   original, written, raced, recopied, torn, runs>>

\* Between the reading of a file and the end of its rewrite.
Rewriting == {"copy", "copying", "log", "write", "replace"}

\* Mutant of FailToRewrite: the error is dropped.
FailSilently ==
    /\ pc \in Rewriting
    /\ NextFile
    /\ UNCHANGED <<file, main, backup, config, known, output, updates, report, observed>>

\* Any step of backup_and_write_file or of the transaction fails: the file stays as it is,
\* and stays counted.
FailToRewrite ==
    /\ pc \in Rewriting
    /\ report' = [report EXCEPT !.errors = @ \cup {InHand}]
    /\ NextFile
    /\ UNCHANGED <<file, main, backup, config, known, output, updates, observed>>

EndRun ==
    /\ pc = "walk" /\ walk = <<>>
    /\ pc' = "idle"
    /\ UNCHANGED <<file, main, backup, config, walk, known, output, updates, report, observed>>

\* The process is killed: its report is never printed.
Crash ==
    /\ pc # "idle"
    /\ pc' = "idle" /\ walk' = <<>> /\ report' = NoReport
    /\ rewritten' = {} /\ swept' = {}
    /\ UNCHANGED <<file, main, backup, config, known, output, updates,
                   original, written, raced, recopied, torn, runs>>

-----------------------------------------------------------------------------
\* The agent whose conversations these are, at any time, and its databases.

InRewrite(f) == pc \in Rewriting /\ f = InHand

\* A transaction that has updated rows keeps others from committing.
Locked(f) == pc = "replace" /\ f = InHand /\ KindOf(f) = "sqlite"

AgentAppends ==
    \E f \in Files, line \in Lines :
        /\ written < MaxWrites /\ ~Locked(f)
        /\ file' = [file EXCEPT ![f] = Append(@, line)]
        /\ main' = IF KindOf(f) = "sqlite" THEN main ELSE [main EXCEPT ![f] = Append(@, line)]
        /\ original' = [original EXCEPT ![f] = Append(@, line)]
        /\ written' = written + 1
        /\ raced' = IF InRewrite(f) /\ KindOf(f) # "sqlite" THEN raced \cup {f} ELSE raced
        /\ swept' = swept \ {f}
    /\ UNCHANGED <<backup, config, pc, walk, known, output, updates, report,
                   rewritten, recopied, torn, runs>>

\* The agent writes a row of a database anew.
AgentUpdates ==
    \E f \in Files, line \in Lines : \E i \in DOMAIN file[f] :
        /\ KindOf(f) = "sqlite"
        /\ written < MaxWrites /\ ~Locked(f)
        /\ file' = [file EXCEPT ![f][i] = line]
        /\ original' = [original EXCEPT ![f][i] = line]
        /\ written' = written + 1
        /\ raced' = IF InRewrite(f) /\ i \in updates THEN raced \cup {f} ELSE raced
        /\ swept' = swept \ {f}
    /\ UNCHANGED <<main, backup, config, pc, walk, known, output, updates, report,
                   rewritten, recopied, torn, runs>>

\* SQLite moves the log's rows to the main file and begins the log anew.
Checkpoint ==
    \E f \in Files :
        /\ KindOf(f) = "sqlite" /\ main[f] # file[f]
        /\ main' = [main EXCEPT ![f] = file[f]]
        /\ torn' = IF pc \in {"copying", "log"} /\ f = InHand THEN torn \cup {f} ELSE torn
    /\ UNCHANGED <<file, backup, config, pc, walk, known, output, updates, report,
                   original, rewritten, swept, written, raced, recopied, runs>>

Next ==
    \/ BeginRun \/ Refuse \/ Scan
    \/ BeginCopy \/ CopyLine \/ EndCopy \/ CopyLog \/ WriteOutput \/ Replace
    \/ FailToRewrite \/ EndRun \/ Crash
    \/ AgentAppends \/ AgentUpdates \/ Checkpoint

Spec == Init /\ [][Next]_vars

-----------------------------------------------------------------------------

\* The type of each variable.
TypeOK ==
    /\ file \in [Files -> Seq(Line)] /\ main \in [Files -> Seq(Line)]
    /\ original \in [Files -> Seq(Line)]
    /\ backup \in [Dirs -> [Files -> Copy \cup {NoCopy}]]
    /\ config \in Configs
    /\ pc \in {"idle", "walk"} \cup Rewriting
    /\ walk \in Seq(Files)
    /\ pc \in Rewriting => walk # <<>>
    /\ known \subseteq Secrets
    /\ output \in Seq(Line) /\ updates \subseteq DOMAIN output
    /\ report \in [targets: SUBSET Files, errors: SUBSET Files]
    /\ rewritten \subseteq Files /\ swept \subseteq Files
    /\ raced \subseteq Files /\ recopied \subseteq Files /\ torn \subseteq Files
    /\ written \in Nat /\ runs \in Nat

\* A copy shows line i as given: a database's log goes before its main file.
Shows(copy, i, line) ==
    IF \E frame \in copy.log : frame[1] = i THEN <<i, line>> \in copy.log
    ELSE i \in DOMAIN copy.main /\ copy.main[i] = line

\* Some backup of f holds line i as it was written.
KeptInBackup(f, i) ==
    \E d \in Dirs : backup[d][f] # NoCopy /\ Shows(backup[d][f], i, original[f][i])

\* Nothing is lost to a crash or a failure at any step: a line that does not stand in its
\* file as it was written stands so in a backup, whatever runs came before or after; but
\* for a file that was copied over its own backup once it had been rewritten (a second run
\* into one directory, or a second root in one run), for a database whose log was moved to
\* its main file between the copies of the two, and for lines written during a rewrite.
OriginalsAreKept ==
    \A f \in Files \ (raced \cup recopied \cup torn) : \A i \in DOMAIN original[f] :
        file[f][i] = original[f][i] \/ KeptInBackup(f, i)

\* What a line says, before and after the replacement of secrets.
Said(line) == line.plain \cup line.marked \cup line.replaced

\* What an agent writes meanwhile is not thrown away: every line is in its place and says
\* what it said.  Excepted is what it appends to a file, and a row that it writes over one
\* that is to be rewritten, in the time between being read and being replaced.
LinesSurvive ==
    \A f \in Files \ raced :
        /\ Len(file[f]) = Len(original[f])
        /\ \A i \in DOMAIN original[f] : Said(file[f][i]) = Said(original[f][i])

\* The report names every file that was changed, and has an error for every other file it
\* names: a count that is made before the backup and the write are tried stays true.
ReportIsHonest ==
    \A f \in Files :
        /\ f \in rewritten => f \in report.targets
        /\ config.write /\ f \in report.targets \ rewritten /\ ~InRewrite(f)
            => f \in report.errors

\* A file the run is through with holds no discovered secret, wherever it stands in the
\* walk and whatever kind it is, and a text or a database none of its own marked secrets.
SweptFilesAreClean ==
    \A f \in swept : \A i \in DOMAIN file[f] :
        /\ (file[f][i].plain \cup file[f][i].marked) \cap Discovered = {}
        /\ KindOf(f) # "binary" => file[f][i].marked = {}
=============================================================================
