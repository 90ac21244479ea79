----------------------------- MODULE FilesProofs -----------------------------
(***************************************************************************)
(* The two parts of crebro that keep files, each with its own theorems.    *)
(*                                                                         *)
(* The four promises of sanitize-conversations, for any number of files,   *)
(* runs, lines an agent writes and backup directories: no line is lost,    *)
(* every original is kept, the report is honest, and what a run is through *)
(* with is clean.  All four rest on what holds of the file in hand between *)
(* the step that reads it and the one that replaces it.  The output fits   *)
(* the file it was made from, unless an agent got in between; it is clean; *)
(* the copy under way is what stands in the main file as far as it goes,   *)
(* and while it grows some other copy has what the file no longer holds;   *)
(* and when it is finished, with the log of a database, every line that    *)
(* the output is about to change stands in some copy as it was written.    *)
(*                                                                         *)
(* The counts in the statistics file never run ahead of what has been      *)
(* reported, whatever the number of processes and wherever each of them    *)
(* stands; and while no two updates overlap and none is cut off, they do   *)
(* not fall behind either.  The two halves need different invariants.  The *)
(* bound holds of the file and of the counts each process is about to      *)
(* write, without regard to order.  Exactness is a statement about whose   *)
(* turn it is: an undisturbed update is the only one, it has counted all   *)
(* that was reported, and what it leaves unreadable in between is its own  *)
(* to write.                                                               *)
(***************************************************************************)
EXTENDS SanitizeFiles, StatsFile, SequenceTheorems, TLAPS

-----------------------------------------------------------------------------
\* sanitize-conversations

\* What the last of the four promises says of one line.
CleanLine(f, line) ==
    /\ (line.plain \cup line.marked) \cap Discovered = {}
    /\ KindOf(f) # "binary" => line.marked = {}

Clean(f, lines) == \A i \in DOMAIN lines : CleanLine(f, lines[i])

\* The registry of a run starts with what was discovered.
DiscoveredIsKnown == pc # "idle" => Discovered \subseteq known

OutputIsClean == pc \in Rewriting => Clean(InHand, output)

\* The output has the lines that were read and says what they said; of a database, more rows
\* may have come since, and rows may have changed that are left alone.
OutputFits ==
    \A f \in Files \ raced : InRewrite(f) =>
        /\ Len(output) <= Len(file[f])
        /\ KindOf(f) # "sqlite" =>
            /\ Len(output) = Len(file[f])
            /\ \A i \in DOMAIN output \ updates : output[i] = file[f][i]
        /\ \A i \in updates : Said(output[i]) = Said(file[f][i])

\* Databases alone have a log, and so have their copies.
FilesHaveNoLog ==
    \A f \in Files : KindOf(f) # "sqlite" =>
        /\ main[f] = file[f]
        /\ \A d \in Dirs : backup[d][f] # NoCopy => backup[d][f].log = {}

\* The copy under way is the main file as far as it goes.
CopyFollows ==
    /\ pc = "log" => KindOf(InHand) = "sqlite"
    /\ pc \in {"copying", "log"} => Backup # NoCopy
    /\ pc = "copying" /\ InHand \notin torn =>
        /\ Len(Backup.main) <= Len(main[InHand])
        /\ \A i \in 1 .. Len(Backup.main) : Backup.main[i] = main[InHand][i]
    /\ pc = "log" /\ InHand \notin torn => Backup.main = main[InHand]

Excepted == raced \cup recopied \cup torn

KeptIn(d, f, i) == backup[d][f] # NoCopy /\ Shows(backup[d][f], i, original[f][i])

\* While it grows, what the file no longer holds is kept in another.
KeptElsewhere ==
    pc \in {"copying", "log"} /\ InHand \notin Excepted =>
        \A i \in DOMAIN original[InHand] :
            \/ file[InHand][i] = original[InHand][i]
            \/ \E d \in Dirs \ {config.dir} : KeptIn(d, InHand, i)

\* Once it is finished, the file in hand can be replaced without loss.
OutputIsSafe ==
    pc \in {"write", "replace"} /\ InHand \notin Excepted =>
        \A i \in updates : KeptInBackup(InHand, i)

\* A file is counted before it is rewritten.
InHandIsCounted == pc \in Rewriting => InHand \in report.targets

-----------------------------------------------------------------------------
\* Sequences of lines.

LEMMA SequencesAreFunctions ==
    ASSUME NEW S, NEW n \in Nat, NEW s \in [1 .. n -> S]
    PROVE  s \in Seq(S) /\ Len(s) = n /\ DOMAIN s = 1 .. n
  OBVIOUS

LEMMA KnownAtIsKnown ==
    ASSUME TypeOK, NEW f \in Files, NEW lines \in Seq(Line), NEW i \in 0 .. Len(lines)
    PROVE  /\ KnownAt(f, lines, i) \subseteq Secrets
           /\ known \subseteq KnownAt(f, lines, i)
           /\ i \in DOMAIN lines /\ KindOf(f) # "binary" =>
                lines[i].marked \subseteq KnownAt(f, lines, i)
  <1>1. KindOf(f) \in {"text", "binary", "sqlite"}
    BY FilesAssumption
  <1>2. ReadBefore(f, lines, i) \subseteq DOMAIN lines
    BY <1>1 DEF ReadBefore
  <1>3. i \in DOMAIN lines /\ KindOf(f) # "binary" => i \in ReadBefore(f, lines, i)
    BY <1>1 DEF ReadBefore
  <1>4. \A j \in DOMAIN lines : lines[j] \in Line
    OBVIOUS
  <1>5. \A j \in ReadBefore(f, lines, i) : lines[j].marked \subseteq Secrets
    BY <1>2, <1>4 DEF Line
  <1>. QED
    BY <1>3, <1>5 DEF KnownAt, TypeOK

\* What replacing a line leaves of its secrets.
LEMMA ReplacedLineProperties ==
    ASSUME NEW line \in Line, NEW secrets \in SUBSET Secrets
    PROVE  /\ ReplacedLine(line, secrets) \in Line
           /\ ReplacedLine(line, secrets).plain = line.plain \ secrets
           /\ ReplacedLine(line, secrets).marked = line.marked \ secrets
           /\ Said(ReplacedLine(line, secrets)) = Said(line)
  BY DEF ReplacedLine, Line, Said

\* A sanitized file has the lines of the file, they say what they said, and none of them has a
\* secret it should not have.
LEMMA SanitizedProperties ==
    ASSUME TypeOK, NEW f \in Files, NEW lines \in Seq(Line), Discovered \subseteq known
    PROVE  /\ Sanitized(f, lines) \in Seq(Line)
           /\ Len(Sanitized(f, lines)) = Len(lines)
           /\ \A i \in 1 .. Len(lines) : Said(Sanitized(f, lines)[i]) = Said(lines[i])
           /\ Clean(f, Sanitized(f, lines))
  <1>1. ASSUME NEW i \in 1 .. Len(lines)
        PROVE  /\ lines[i] \in Line
               /\ KnownAt(f, lines, i) \subseteq Secrets
               /\ Discovered \subseteq KnownAt(f, lines, i)
               /\ KindOf(f) # "binary" => lines[i].marked \subseteq KnownAt(f, lines, i)
    BY KnownAtIsKnown
  <1>2. ASSUME NEW i \in 1 .. Len(lines)
        PROVE  /\ ReplacedLine(lines[i], KnownAt(f, lines, i)) \in Line
               /\ CleanLine(f, ReplacedLine(lines[i], KnownAt(f, lines, i)))
               /\ Said(ReplacedLine(lines[i], KnownAt(f, lines, i))) = Said(lines[i])
    BY <1>1, ReplacedLineProperties DEF CleanLine
  <1>3. Sanitized(f, lines) \in [1 .. Len(lines) -> Line]
    BY <1>2 DEF Sanitized
  <1>. QED
    BY <1>2, <1>3, SequencesAreFunctions DEF Sanitized, Clean

-----------------------------------------------------------------------------

\* Copies are copies, however far they are.
LEMMA CopyStepType ==
    ASSUME TypeOK, BeginCopy \/ (CopyLine /\ Backup # NoCopy) \/ (CopyLog /\ Backup # NoCopy)
    PROVE  /\ InHand \in Files /\ config.dir \in Dirs
           /\ \E copy \in Copy : backup' = [backup EXCEPT ![config.dir][InHand] = copy]
  <1>1. /\ InHand \in Files /\ config.dir \in Dirs
        /\ backup \in [Dirs -> [Files -> Copy \cup {NoCopy}]]
        /\ main[InHand] \in Seq(Line) /\ file[InHand] \in Seq(Line)
    <2>1. pc \in Rewriting
      BY DEF BeginCopy, CopyLine, CopyLog, Rewriting
    <2>2. InHand \in Files
      BY <2>1 DEF TypeOK, InHand
    <2>3. config \in [write: BOOLEAN, strict: BOOLEAN, dir: Dirs]
      BY FilesAssumption DEF TypeOK
    <2>. QED
      BY <2>2, <2>3 DEF TypeOK
  <1>2. Backup \in Copy \cup {NoCopy}
    BY <1>1 DEF Backup
  <1>3. CASE BeginCopy
    <2>1. [main |-> <<>>, log |-> IF Backup = NoCopy THEN {} ELSE Backup.log] \in Copy
      BY <1>2 DEF Copy
    <2>. QED
      BY <1>1, <1>3, <2>1 DEF BeginCopy
  <1>4. CASE CopyLine /\ Backup # NoCopy
    <2> DEFINE line == main[InHand][Len(Backup.main) + 1]
    <2>1. Backup \in Copy /\ Backup.main \in Seq(Line)
      BY <1>2, <1>4 DEF Copy
    <2>2. line \in Line
      <3>1. Len(Backup.main) \in Nat /\ Len(main[InHand]) \in Nat
        BY <1>1, <2>1
      <3>2. Len(Backup.main) + 1 <= Len(main[InHand])
        BY <1>4 DEF CopyLine
      <3>3. Len(Backup.main) + 1 \in 1 .. Len(main[InHand])
        BY <3>1, <3>2
      <3>. QED
        BY <1>1, <3>3
    <2>3. [Backup EXCEPT !.main = Append(Backup.main, line)] \in Copy
      <3>1. Append(Backup.main, line) \in Seq(Line)
        BY <2>1, <2>2
      <3>2. \A copy \in Copy, lines \in Seq(Line) : [copy EXCEPT !.main = lines] \in Copy
        BY DEF Copy
      <3>. QED
        BY <2>1, <3>1, <3>2
    <2>4. backup' = [backup EXCEPT ![config.dir][InHand] =
                        [Backup EXCEPT !.main = Append(Backup.main, line)]]
      BY <1>1, <1>4 DEF CopyLine, Backup
    <2>. QED
      BY <1>1, <2>3, <2>4
  <1>5. CASE CopyLog /\ Backup # NoCopy
    <2>1. Logged(InHand) \in SUBSET (Nat \X Line)
      BY <1>1 DEF Logged
    <2>2. [Backup EXCEPT !.log = Logged(InHand)] \in Copy
      BY <1>2, <1>5, <2>1 DEF Copy
    <2>3. backup' = [backup EXCEPT ![config.dir][InHand] =
                        [Backup EXCEPT !.log = Logged(InHand)]]
      BY <1>1, <1>5 DEF CopyLog, Backup
    <2>. QED
      BY <1>1, <2>2, <2>3
  <1>. QED
    BY <1>3, <1>4, <1>5

\* Files stay files when a line of one is written, at its end or anew.
LEMMA LineWritten ==
    ASSUME NEW lines \in [Files -> Seq(Line)], NEW f \in Files, NEW line \in Line, NEW i
    PROVE  /\ [lines EXCEPT ![f] = Append(@, line)] \in [Files -> Seq(Line)]
           /\ [lines EXCEPT ![f][i] = line] \in [Files -> Seq(Line)]
  <1>1. lines[f] \in Seq(Line) /\ Len(lines[f]) \in Nat
        /\ lines[f] \in [1 .. Len(lines[f]) -> Line]
    OBVIOUS
  <1>2. [lines[f] EXCEPT ![i] = line] \in [1 .. Len(lines[f]) -> Line]
    BY <1>1
  <1>3. [lines[f] EXCEPT ![i] = line] \in Seq(Line)
    BY <1>1, <1>2, SequencesAreFunctions
  <1>4. [lines EXCEPT ![f][i] = line] = [lines EXCEPT ![f] = [lines[f] EXCEPT ![i] = line]]
    OBVIOUS
  <1>. QED
    BY <1>1, <1>3, <1>4

\* A step keeps the types.
LEMMA TypeStep == ASSUME TypeOK, DiscoveredIsKnown, CopyFollows, Next PROVE TypeOK'
  <1> USE FilesAssumption DEF TypeOK, NextFile, observed, Rewriting
  <1>1. walk # <<>> => InHand \in Files /\ Tail(walk) \in Seq(Files)
    BY DEF InHand
  <1>2. CASE BeginRun
    BY <1>2 DEF BeginRun, NoReport
  <1>3. CASE Refuse
    <2>1. ASSUME NEW f \in Files PROVE KnownWhenRefused(f) \subseteq Secrets
      <3>1. file[f] \in Seq(Line)
        OBVIOUS
      <3>2. \A j \in DOMAIN file[f] : file[f][j] \in Line
        BY <3>1
      <3>3. \A j \in DOMAIN file[f] : file[f][j].marked \subseteq Secrets
        BY <3>2 DEF Line
      <3>. QED
        BY <3>3 DEF KnownWhenRefused
    <2>. QED
      BY <1>1, <1>3, <2>1 DEF Refuse
  <1>4. CASE Scan
    <2>1. walk # <<>> /\ pc = "walk" /\ InHand \in Files /\ file[InHand] \in Seq(Line)
      BY <1>1, <1>4 DEF Scan
    <2>2. /\ Sanitized(InHand, file[InHand]) \in Seq(Line)
          /\ DOMAIN Sanitized(InHand, file[InHand]) = DOMAIN file[InHand]
          /\ KnownAt(InHand, file[InHand], Len(file[InHand])) \subseteq Secrets
      <3>1. Discovered \subseteq known /\ Len(file[InHand]) \in 0 .. Len(file[InHand])
        BY <2>1 DEF DiscoveredIsKnown
      <3>2. TypeOK
        OBVIOUS
      <3> HIDE DEF TypeOK
      <3>. QED
        BY <2>1, <3>1, <3>2, SanitizedProperties, KnownAtIsKnown DEF Sanitized
    <2>3. report' \in [targets: SUBSET Files, errors: SUBSET Files]
      <3>1. report' = report \/ report' = [report EXCEPT !.targets = @ \cup {InHand}]
        BY <1>4 DEF Scan
      <3>2. report \in [targets: SUBSET Files, errors: SUBSET Files]
        OBVIOUS
      <3> HIDE DEF TypeOK
      <3>. QED
        BY <2>1, <3>1, <3>2
    <2>4. swept' \subseteq Files /\ known' \subseteq Secrets
      BY <1>4, <2>1, <2>2 DEF Scan
    <2>5. output' \in Seq(Line) /\ updates' \subseteq DOMAIN output'
      <3> DEFINE becomes == Sanitized(InHand, file[InHand])
                 changes == {i \in DOMAIN file[InHand] : becomes[i] # file[InHand][i]}
      <3>1. \/ output' = output /\ updates' = updates
            \/ output' = becomes /\ updates' = changes
        BY <1>4 DEF Scan
      <3>2. changes \subseteq DOMAIN becomes
        BY <2>2
      <3> HIDE DEF changes
      <3>. QED
        BY <2>2, <3>1, <3>2
    <2>6. /\ pc' \in {"copy", "walk"} /\ walk' \in Seq(Files)
          /\ pc' \in Rewriting => walk' # <<>>
      BY <1>1, <1>4, <2>1 DEF Scan
    <2>7. UNCHANGED <<file, main, backup, config, original, rewritten, written, raced,
                      recopied, torn, runs>>
      BY <1>4 DEF Scan
    <2>. QED
      BY <2>3, <2>4, <2>5, <2>6, <2>7
  <1>5. CASE BeginCopy \/ CopyLine \/ CopyLog
    <2>1. /\ pc \in Rewriting /\ pc' \in Rewriting /\ walk' = walk
          /\ file' = file /\ main' = main /\ original' = original
          /\ config' = config /\ known' = known /\ output' = output /\ updates' = updates
          /\ report' = report
          /\ rewritten' = rewritten /\ swept' = swept /\ raced' = raced /\ torn' = torn
          /\ written' = written /\ runs' = runs
          /\ recopied' \subseteq recopied \cup {InHand}
      BY <1>5 DEF BeginCopy, CopyLine, CopyLog, Rewriting
    <2>2. backup' \in [Dirs -> [Files -> Copy \cup {NoCopy}]]
      <3>1. CopyLine \/ CopyLog => Backup # NoCopy
        BY DEF CopyLine, CopyLog, CopyFollows
      <3>2. TypeOK
        OBVIOUS
      <3>3. PICK copy \in Copy : backup' = [backup EXCEPT ![config.dir][InHand] = copy]
        <4> HIDE DEF TypeOK
        <4>. QED
          BY <1>5, <3>1, <3>2, CopyStepType
      <3>. QED
        BY <3>3
    <2>. QED
      BY <1>1, <2>1, <2>2
  <1>6. CASE EndCopy
    BY <1>1, <1>6 DEF EndCopy, Rewriting
  <1>7. CASE WriteOutput
    BY <1>7 DEF WriteOutput
  <1>8. CASE Replace
    <2>1. pc = "replace" /\ walk # <<>> /\ InHand \in Files
      BY <1>1, <1>8 DEF Replace
    <2>2. Replacement(InHand) \in Seq(Line)
      <3>1. [i \in DOMAIN file[InHand] |->
                IF i \in updates THEN output[i] ELSE file[InHand][i]]
                \in [1 .. Len(file[InHand]) -> Line]
        BY <2>1
      <3>. QED
        BY <2>1, <3>1, SequencesAreFunctions DEF Replacement
    <2>. QED
      BY <1>1, <1>8, <2>1, <2>2 DEF Replace
  <1>9. CASE FailToRewrite
    BY <1>1, <1>9 DEF FailToRewrite
  <1>10. CASE EndRun
    BY <1>10 DEF EndRun
  <1>11. CASE Crash
    BY <1>11 DEF Crash, NoReport
  <1>12. CASE AgentAppends
    <2>1. PICK f \in Files, line \in Lines :
              /\ file' = [file EXCEPT ![f] = Append(@, line)]
              /\ main' = IF KindOf(f) = "sqlite" THEN main
                         ELSE [main EXCEPT ![f] = Append(@, line)]
              /\ original' = [original EXCEPT ![f] = Append(@, line)]
              /\ raced' \subseteq raced \cup {f} /\ swept' \subseteq swept
              /\ written' = written + 1
      BY <1>12 DEF AgentAppends
    <2>2. UNCHANGED <<backup, config, pc, walk, known, output, updates, report, rewritten,
                      recopied, torn, runs>>
      BY <1>12 DEF AgentAppends
    <2>3. /\ file' \in [Files -> Seq(Line)] /\ main' \in [Files -> Seq(Line)]
          /\ original' \in [Files -> Seq(Line)]
      BY <2>1, LineWritten
    <2>. QED
      BY <2>1, <2>2, <2>3
  <1>13. CASE AgentUpdates
    <2>1. PICK f \in Files, line \in Lines : \E i \in DOMAIN file[f] :
              /\ file' = [file EXCEPT ![f][i] = line]
              /\ original' = [original EXCEPT ![f][i] = line]
      BY <1>13 DEF AgentUpdates
    <2>2. /\ UNCHANGED <<main, backup, config, pc, walk, known, output, updates, report,
                         rewritten, recopied, torn, runs>>
          /\ raced' \subseteq raced \cup Files /\ swept' \subseteq swept
          /\ written' = written + 1
      BY <1>13 DEF AgentUpdates
    <2>3. raced' \subseteq Files /\ swept' \subseteq Files /\ written' \in Nat
      BY <2>2
    <2>4. file' \in [Files -> Seq(Line)] /\ original' \in [Files -> Seq(Line)]
      <3>1. PICK i \in DOMAIN file[f] :
                /\ file' = [file EXCEPT ![f][i] = line]
                /\ original' = [original EXCEPT ![f][i] = line]
        BY <2>1
      <3>. QED
        BY <3>1, LineWritten
    <2>. QED
      BY <2>2, <2>3, <2>4
  <1>14. CASE Checkpoint
    BY <1>14 DEF Checkpoint
  <1>. QED
    BY <1>2, <1>3, <1>4, <1>5, <1>6, <1>7, <1>8, <1>9, <1>10, <1>11, <1>12, <1>13, <1>14
       DEF Next

-----------------------------------------------------------------------------

Inv ==
    /\ TypeOK
    /\ DiscoveredIsKnown
    /\ OutputIsClean /\ SweptFilesAreClean
    /\ OutputFits /\ LinesSurvive
    /\ InHandIsCounted /\ ReportIsHonest
    /\ FilesHaveNoLog /\ CopyFollows
    /\ KeptElsewhere /\ OutputIsSafe /\ OriginalsAreKept

\* Between reading a file and being through with it the walk stands still.
LEMMA InHandStays ==
    ASSUME walk' = walk
    PROVE  InHand' = InHand
  BY DEF InHand

\* A file is rewritten only after it has been counted, and is not given up without an error.
LEMMA ReportStep == ASSUME Inv, Next PROVE InHandIsCounted' /\ ReportIsHonest'
  <1> USE FilesAssumption
      DEF Inv, TypeOK, InHandIsCounted, ReportIsHonest, InRewrite, Rewriting, NextFile,
          observed, NoReport
  <1>1. CASE BeginRun
    BY <1>1 DEF BeginRun
  <1>2. CASE Refuse
    BY <1>2 DEF Refuse
  <1>3. CASE Scan
    BY <1>3 DEF Scan, InHand
  <1>4. CASE BeginCopy \/ CopyLine \/ CopyLog
    BY <1>4, InHandStays DEF BeginCopy, CopyLine, CopyLog
  <1>5. CASE EndCopy
    BY <1>5, InHandStays DEF EndCopy
  <1>6. CASE WriteOutput
    BY <1>6, InHandStays DEF WriteOutput
  <1>7. CASE Replace
    BY <1>7 DEF Replace
  <1>8. CASE FailToRewrite
    BY <1>8 DEF FailToRewrite
  <1>9. CASE EndRun
    BY <1>9 DEF EndRun
  <1>10. CASE Crash
    BY <1>10 DEF Crash
  <1>11. CASE AgentAppends \/ AgentUpdates \/ Checkpoint
    <2>1. /\ pc' = pc /\ walk' = walk /\ report' = report /\ rewritten' = rewritten
          /\ config' = config
      BY <1>11 DEF AgentAppends, AgentUpdates, Checkpoint
    <2>. QED
      BY <2>1, InHandStays
  <1>. QED
    BY <1>1, <1>2, <1>3, <1>4, <1>5, <1>6, <1>7, <1>8, <1>9, <1>10, <1>11 DEF Next

\* What is known only grows in a run.
LEMMA KnownStep == ASSUME Inv, Next PROVE DiscoveredIsKnown'
  <1> USE DEF Inv, DiscoveredIsKnown, NextFile, observed
  <1>1. CASE Refuse
    BY <1>1 DEF Refuse, KnownWhenRefused
  <1>2. CASE Scan
    <2>1. Discovered \subseteq known /\ known \subseteq known'
      BY <1>2 DEF Scan, KnownAt
    <2>. QED
      BY <2>1
  <1>3. CASE BeginRun \/ WriteOutput \/ Replace \/ FailToRewrite \/ EndRun \/ Crash
    BY <1>3 DEF BeginRun, WriteOutput, Replace, FailToRewrite, EndRun, Crash, Rewriting
  <1>4. CASE BeginCopy \/ CopyLine \/ EndCopy \/ CopyLog
    BY <1>4 DEF BeginCopy, CopyLine, EndCopy, CopyLog
  <1>5. CASE AgentAppends \/ AgentUpdates \/ Checkpoint
    BY <1>5 DEF AgentAppends, AgentUpdates, Checkpoint
  <1>. QED
    BY <1>1, <1>2, <1>3, <1>4, <1>5 DEF Next

\* What is clean stays clean: files change by being replaced, or an agent's line takes them
\* out of what the run is through with.
LEMMA CleanStep == ASSUME Inv, Next PROVE OutputIsClean' /\ SweptFilesAreClean'
  <1>1. SweptFilesAreClean <=> \A f \in swept : Clean(f, file[f])
    BY DEF SweptFilesAreClean, Clean, CleanLine
  <1>2. SweptFilesAreClean' <=> \A f \in swept' : Clean(f, file'[f])
    BY DEF SweptFilesAreClean, Clean, CleanLine
  <1>3. OutputIsClean /\ SweptFilesAreClean /\ TypeOK /\ DiscoveredIsKnown
    BY DEF Inv
  <1>4. CASE BeginRun \/ Refuse \/ FailToRewrite \/ EndRun \/ Crash
    <2>1. pc' \notin Rewriting /\ file' = file /\ swept' \subseteq swept
      BY <1>4 DEF BeginRun, Refuse, FailToRewrite, EndRun, Crash, NextFile, observed, Rewriting
    <2>. QED
      BY <1>1, <1>2, <1>3, <2>1 DEF OutputIsClean
  <1>5. CASE Scan
    <2> DEFINE becomes == Sanitized(InHand, file[InHand])
    <2>1. /\ pc = "walk" /\ walk # <<>>
          /\ file' = file
      BY <1>5 DEF Scan
    <2>2. Clean(InHand, becomes)
      <3>1. InHand \in Files /\ file[InHand] \in Seq(Line) /\ Discovered \subseteq known
        BY <1>3, <2>1 DEF TypeOK, InHand, DiscoveredIsKnown
      <3>. QED
        BY <1>3, <3>1, SanitizedProperties
    <2>3. OutputIsClean'
      <3>1. pc' \in Rewriting => output' = becomes /\ walk' = walk
        BY <1>5 DEF Scan, NextFile, Rewriting
      <3>. QED
        BY <2>2, <3>1, InHandStays DEF OutputIsClean
    <2>4. swept' \subseteq swept \/ (becomes = file[InHand] /\ swept' = swept \cup {InHand})
      <3>1. \/ swept' = swept
            \/ /\ swept' = swept \cup {InHand}
               /\ {i \in DOMAIN file[InHand] : becomes[i] # file[InHand][i]} = {}
        BY <1>5 DEF Scan
      <3>2. InHand \in Files /\ file[InHand] \in Seq(Line)
        BY <1>3, <2>1 DEF TypeOK, InHand
      <3>3. /\ becomes = [i \in DOMAIN file[InHand] |-> becomes[i]]
            /\ file[InHand] = [i \in DOMAIN file[InHand] |-> file[InHand][i]]
        BY <3>2 DEF Sanitized
      <3> HIDE DEF becomes
      <3>. QED
        BY <3>1, <3>2, <3>3
    <2>. QED
      BY <1>1, <1>2, <1>3, <2>1, <2>2, <2>3, <2>4
  <1>6. CASE BeginCopy \/ CopyLine \/ EndCopy \/ CopyLog \/ WriteOutput
    <2>1. /\ pc \in Rewriting
          /\ output' = output /\ walk' = walk /\ file' = file /\ swept' = swept
      BY <1>6 DEF BeginCopy, CopyLine, EndCopy, CopyLog, WriteOutput, observed, Rewriting
    <2>. QED
      BY <1>1, <1>2, <1>3, <2>1, InHandStays DEF OutputIsClean
  <1>7. CASE Replace
    <2>1. /\ pc' \notin Rewriting /\ pc \in Rewriting
          /\ file' = [file EXCEPT ![InHand] = Replacement(InHand)]
          /\ swept' \subseteq swept \cup {InHand}
          /\ InHand \in swept' \ swept => Replacement(InHand) = output
      BY <1>7 DEF Replace, NextFile, Rewriting
    <2>2. InHand \in Files /\ output \in Seq(Line) /\ file[InHand] \in Seq(Line)
      BY <1>3, <2>1 DEF TypeOK, InHand, Rewriting
    <2>3. Clean(InHand, output) /\ updates \subseteq DOMAIN output
      BY <1>3, <2>1 DEF OutputIsClean, TypeOK
    <2>4. file'[InHand] = Replacement(InHand)
      BY <1>3, <2>1, <2>2 DEF TypeOK
    <2>5. CASE InHand \in swept
      <3>1. Clean(InHand, Replacement(InHand))
        BY <1>1, <1>3, <2>3, <2>5 DEF Clean, Replacement
      <3>. QED
        BY <1>1, <1>2, <1>3, <2>1, <2>2, <2>4, <3>1 DEF OutputIsClean, TypeOK
    <2>6. CASE InHand \notin swept
      <3>1. InHand \in swept' => Clean(InHand, file'[InHand])
        BY <2>1, <2>3, <2>4, <2>6
      <3>2. \A f \in swept' : f # InHand => f \in swept /\ file'[f] = file[f]
        BY <1>3, <2>1 DEF TypeOK
      <3>. QED
        BY <1>1, <1>2, <1>3, <2>1, <3>1, <3>2 DEF OutputIsClean
    <2>. QED
      BY <2>5, <2>6
  <1>8. CASE AgentAppends \/ AgentUpdates \/ Checkpoint
    <2>1. /\ pc' = pc /\ output' = output /\ walk' = walk
          /\ swept' \subseteq swept
          /\ \A f \in swept' : file'[f] = file[f]
      BY <1>3, <1>8 DEF AgentAppends, AgentUpdates, Checkpoint, TypeOK
    <2>. QED
      BY <1>1, <1>2, <1>3, <2>1, InHandStays DEF OutputIsClean
  <1>. QED
    BY <1>4, <1>5, <1>6, <1>7, <1>8 DEF Next

\* What replacing a file does to its lines, when nothing was written into it meanwhile: the
\* lines to be changed say what they said, and the others are as they were.
LEMMA ReplacementProperties ==
    ASSUME Inv, Replace, InHand \notin raced
    PROVE  /\ InHand \in Files
           /\ file' = [file EXCEPT ![InHand] = Replacement(InHand)]
           /\ Len(Replacement(InHand)) = Len(file[InHand])
           /\ \A i \in DOMAIN file[InHand] :
                /\ i \notin updates => Replacement(InHand)[i] = file[InHand][i]
                /\ Said(Replacement(InHand)[i]) = Said(file[InHand][i])
  <1>1. /\ InHand \in Files /\ output \in Seq(Line) /\ file[InHand] \in Seq(Line)
        /\ updates \subseteq DOMAIN output
    BY DEF Replace, Inv, TypeOK, InHand, Rewriting
  <1>2. /\ KindOf(InHand) # "sqlite" =>
            /\ Len(output) = Len(file[InHand])
            /\ \A i \in DOMAIN output \ updates : output[i] = file[InHand][i]
        /\ \A i \in updates : Said(output[i]) = Said(file[InHand][i])
    <2>1. InRewrite(InHand) /\ OutputFits
      BY DEF Replace, Inv, InRewrite, Rewriting
    <2>. QED
      BY <1>1, <2>1 DEF OutputFits
  <1>3. file' = [file EXCEPT ![InHand] = Replacement(InHand)]
    BY DEF Replace
  <1>4. CASE KindOf(InHand) # "sqlite"
    <2>1. DOMAIN file[InHand] = DOMAIN output
      BY <1>1, <1>2, <1>4
    <2>2. Replacement(InHand) = output
      BY <1>4 DEF Replacement
    <2>. QED
      BY <1>1, <1>2, <1>3, <1>4, <2>1, <2>2
  <1>5. CASE KindOf(InHand) = "sqlite"
    <2>1. Replacement(InHand) = [i \in DOMAIN file[InHand] |->
              IF i \in updates THEN output[i] ELSE file[InHand][i]]
      BY <1>5 DEF Replacement
    <2>2. Replacement(InHand) \in [1 .. Len(file[InHand]) -> Line]
      BY <1>1, <2>1
    <2>3. Len(Replacement(InHand)) = Len(file[InHand])
      <3>1. Len(file[InHand]) \in Nat
        BY <1>1
      <3>. HIDE DEF Replacement
      <3>. QED
        BY <2>2, <3>1, SequencesAreFunctions
    <2>. QED
      BY <1>1, <1>2, <1>3, <2>1, <2>3
  <1>. QED
    BY <1>4, <1>5

\* A line that an agent has not written anew.
Untouched(f, i) ==
    i \in DOMAIN original[f] /\ file'[f][i] = file[f][i] /\ original'[f][i] = original[f][i]

\* An agent's line goes to its file and to the file's original, and no line that a rewrite is
\* to change is written anew but in a race.
Wrote(f) ==
    /\ raced \subseteq raced'
    /\ \A g \in Files \ {f} :
        file'[g] = file[g] /\ main'[g] = main[g] /\ original'[g] = original[g]
    /\ f \notin raced' =>
        /\ Len(file'[f]) = Len(original'[f])
        /\ Len(file[f]) <= Len(file'[f])
        /\ \A i \in DOMAIN original'[f] : file'[f][i] = original'[f][i] \/ Untouched(f, i)
        /\ InRewrite(f) => KindOf(f) = "sqlite" /\ \A i \in updates : Untouched(f, i)

\* Of a database the main file stays as it is; another file grows.
WroteMain(f) ==
    /\ Len(main[f]) <= Len(main'[f])
    /\ \A i \in 1 .. Len(main[f]) : main'[f][i] = main[f][i]
    /\ IF KindOf(f) = "sqlite" THEN main'[f] = main[f] ELSE main'[f] = file'[f]

AgentsLeave ==
    UNCHANGED <<backup, config, pc, walk, output, updates, recopied, torn>>

LEMMA AppendsAreWrites ==
    ASSUME Inv, AgentAppends
    PROVE  AgentsLeave /\ \E f \in Files : Wrote(f) /\ WroteMain(f)
  <1>1. PICK f \in Files, line \in Line :
            /\ file' = [file EXCEPT ![f] = Append(@, line)]
            /\ main' = IF KindOf(f) = "sqlite" THEN main
                       ELSE [main EXCEPT ![f] = Append(@, line)]
            /\ original' = [original EXCEPT ![f] = Append(@, line)]
            /\ raced' = IF InRewrite(f) /\ KindOf(f) # "sqlite" THEN raced \cup {f} ELSE raced
    BY FilesAssumption DEF AgentAppends
  <1>2. /\ file \in [Files -> Seq(Line)] /\ original \in [Files -> Seq(Line)]
        /\ main \in [Files -> Seq(Line)] /\ output \in Seq(Line)
        /\ updates \subseteq DOMAIN output
    BY DEF Inv, TypeOK
  <1>3. /\ file'[f] = Append(file[f], line) /\ original'[f] = Append(original[f], line)
        /\ file[f] \in Seq(Line) /\ original[f] \in Seq(Line) /\ main[f] \in Seq(Line)
        /\ main'[f] = IF KindOf(f) = "sqlite" THEN main[f] ELSE Append(main[f], line)
    BY <1>1, <1>2
  <1>4. \A g \in Files \ {f} :
            file'[g] = file[g] /\ main'[g] = main[g] /\ original'[g] = original[g]
    BY <1>1, <1>2
  <1>5. AgentsLeave
    BY DEF AgentAppends, AgentsLeave
  <1>6. WroteMain(f)
    <2>1. KindOf(f) # "sqlite" => main[f] = file[f]
      BY DEF Inv, FilesHaveNoLog
    <2>. QED
      BY <1>3, <2>1 DEF WroteMain
  <1>7. ASSUME f \notin raced'
        PROVE  /\ Len(file'[f]) = Len(original'[f])
               /\ Len(file[f]) <= Len(file'[f])
               /\ \A i \in DOMAIN original'[f] :
                    file'[f][i] = original'[f][i] \/ Untouched(f, i)
               /\ InRewrite(f) => KindOf(f) = "sqlite" /\ \A i \in updates : Untouched(f, i)
    <2>1. f \notin raced /\ (InRewrite(f) => KindOf(f) = "sqlite")
      BY <1>1, <1>7
    <2>2. Len(file[f]) = Len(original[f])
      BY <2>1 DEF Inv, LinesSurvive
    <2>3. /\ Len(file'[f]) = Len(original'[f]) /\ Len(file[f]) <= Len(file'[f])
          /\ DOMAIN original'[f] = 1 .. Len(original[f]) + 1
          /\ file'[f][Len(original[f]) + 1] = original'[f][Len(original[f]) + 1]
      BY <1>3, <2>2
    <2>4. \A i \in 1 .. Len(original[f]) : Untouched(f, i)
      BY <1>3, <2>2 DEF Untouched
    <2>5. \A i \in 1 .. Len(original[f]) + 1 :
              i \in 1 .. Len(original[f]) \/ i = Len(original[f]) + 1
      BY <1>3
    <2>6. InRewrite(f) => \A i \in updates : i \in 1 .. Len(original[f])
      <3>1. InRewrite(f) => Len(output) <= Len(file[f])
        BY <2>1 DEF Inv, OutputFits
      <3>. QED
        BY <1>2, <1>3, <2>2, <3>1
    <2>. QED
      BY <2>1, <2>3, <2>4, <2>5, <2>6
  <1>8. Wrote(f)
    BY <1>1, <1>4, <1>7 DEF Wrote
  <1>. QED
    BY <1>5, <1>6, <1>8

LEMMA UpdatesAreWrites ==
    ASSUME Inv, AgentUpdates
    PROVE  AgentsLeave /\ \E f \in Files : Wrote(f) /\ WroteMain(f)
  <1>1. PICK f \in Files, line \in Line : \E i \in DOMAIN file[f] :
            /\ KindOf(f) = "sqlite"
            /\ file' = [file EXCEPT ![f][i] = line]
            /\ original' = [original EXCEPT ![f][i] = line]
            /\ raced' = IF InRewrite(f) /\ i \in updates THEN raced \cup {f} ELSE raced
    BY FilesAssumption DEF AgentUpdates
  <1>2. PICK n \in DOMAIN file[f] :
            /\ KindOf(f) = "sqlite"
            /\ file' = [file EXCEPT ![f][n] = line]
            /\ original' = [original EXCEPT ![f][n] = line]
            /\ raced' = IF InRewrite(f) /\ n \in updates THEN raced \cup {f} ELSE raced
    BY <1>1
  <1>3. /\ file \in [Files -> Seq(Line)] /\ original \in [Files -> Seq(Line)]
        /\ main \in [Files -> Seq(Line)] /\ output \in Seq(Line)
        /\ updates \subseteq DOMAIN output /\ main' = main
    BY DEF Inv, TypeOK, AgentUpdates
  <1>4. /\ file'[f] = [file[f] EXCEPT ![n] = line]
        /\ original'[f] = [original[f] EXCEPT ![n] = line]
        /\ file[f] \in Seq(Line) /\ original[f] \in Seq(Line) /\ main[f] \in Seq(Line)
    BY <1>2, <1>3
  <1>5. \A g \in Files \ {f} :
            file'[g] = file[g] /\ main'[g] = main[g] /\ original'[g] = original[g]
    BY <1>2, <1>3
  <1>6. AgentsLeave
    BY DEF AgentUpdates, AgentsLeave
  <1>7. WroteMain(f)
    BY <1>2, <1>3, <1>4 DEF WroteMain
  <1>8. ASSUME f \notin raced'
        PROVE  /\ Len(file'[f]) = Len(original'[f])
               /\ Len(file[f]) <= Len(file'[f])
               /\ \A i \in DOMAIN original'[f] :
                    file'[f][i] = original'[f][i] \/ Untouched(f, i)
               /\ InRewrite(f) => KindOf(f) = "sqlite" /\ \A i \in updates : Untouched(f, i)
    <2>1. f \notin raced /\ (InRewrite(f) => n \notin updates)
      BY <1>2, <1>8
    <2>2. Len(file[f]) = Len(original[f])
      BY <2>1 DEF Inv, LinesSurvive
    <2>3. n \in 1 .. Len(original[f])
      BY <1>4, <2>2
    <2>4. /\ Len(file'[f]) = Len(file[f]) /\ Len(original'[f]) = Len(original[f])
          /\ DOMAIN original'[f] = 1 .. Len(original[f])
          /\ file'[f][n] = line /\ original'[f][n] = line
      BY <1>2, <1>4, <2>3
    <2>5. \A i \in 1 .. Len(original[f]) : i # n => Untouched(f, i)
      BY <1>4, <2>2 DEF Untouched
    <2>6. InRewrite(f) => \A i \in updates : i \in 1 .. Len(original[f])
      <3>1. InRewrite(f) => Len(output) <= Len(file[f])
        BY <2>1 DEF Inv, OutputFits
      <3>. QED
        BY <1>3, <1>4, <2>2, <3>1
    <2>7. Len(file[f]) \in Nat
      BY <1>4
    <2>. QED
      BY <1>2, <2>1, <2>2, <2>4, <2>5, <2>6, <2>7
  <1>9. Wrote(f)
    BY <1>2, <1>5, <1>8 DEF Wrote
  <1>. QED
    BY <1>6, <1>7, <1>9

LEMMA AgentsWrite ==
    ASSUME Inv, AgentAppends \/ AgentUpdates
    PROVE  AgentsLeave /\ \E f \in Files : Wrote(f) /\ WroteMain(f)
  BY AppendsAreWrites, UpdatesAreWrites

-----------------------------------------------------------------------------

\* The output fits the file it was made from, and no line is lost or says anything else.
LEMMA LinesStep == ASSUME Inv, Next PROVE OutputFits' /\ LinesSurvive'
  <1>1. OutputFits /\ LinesSurvive /\ TypeOK
    BY DEF Inv
  <1>2. CASE BeginRun \/ Refuse \/ FailToRewrite \/ EndRun \/ Crash
    <2>1. /\ pc' \notin Rewriting
          /\ file' = file /\ raced' = raced /\ original' = original
      BY <1>2 DEF BeginRun, Refuse, FailToRewrite, EndRun, Crash, NextFile, observed, Rewriting
    <2>. QED
      BY <1>1, <2>1 DEF OutputFits, LinesSurvive, InRewrite
  <1>3. CASE Scan
    <2> DEFINE lines == file[InHand]
               becomes == Sanitized(InHand, lines)
               changes == {i \in DOMAIN lines : becomes[i] # lines[i]}
    <2>1. /\ pc = "walk" /\ walk # <<>>
          /\ file' = file /\ raced' = raced /\ original' = original
      BY <1>3 DEF Scan
    <2>2. pc' \in Rewriting => output' = becomes /\ updates' = changes /\ walk' = walk
      BY <1>3 DEF Scan, NextFile, Rewriting
    <2>3. InHand \in Files /\ lines \in Seq(Line) /\ Discovered \subseteq known
      BY <2>1 DEF Inv, TypeOK, InHand, DiscoveredIsKnown
    <2>4. /\ becomes \in Seq(Line) /\ Len(becomes) = Len(lines)
          /\ \A i \in 1 .. Len(lines) : Said(becomes[i]) = Said(lines[i])
      BY <1>1, <2>3, SanitizedProperties
    <2> HIDE DEF becomes
    <2>5. /\ \A i \in DOMAIN becomes \ changes : becomes[i] = lines[i]
          /\ \A i \in changes : Said(becomes[i]) = Said(lines[i])
      BY <2>3, <2>4
    <2>6. OutputFits'
      <3> SUFFICES ASSUME NEW f \in Files, InRewrite(f)'
                   PROVE  /\ Len(output') <= Len(file'[f])
                          /\ KindOf(f) # "sqlite" =>
                              /\ Len(output') = Len(file'[f])
                              /\ \A i \in DOMAIN output' \ updates' : output'[i] = file'[f][i]
                          /\ \A i \in updates' : Said(output'[i]) = Said(file'[f][i])
        BY DEF OutputFits
      <3>1. f = InHand /\ output' = becomes /\ updates' = changes
        BY <2>2, InHandStays DEF InRewrite
      <3>2. Len(lines) \in Nat
        BY <2>3
      <3> HIDE DEF changes
      <3>. QED
        BY <2>1, <2>4, <2>5, <3>1, <3>2
    <2>. QED
      BY <1>1, <2>1, <2>6 DEF LinesSurvive
  <1>4. CASE BeginCopy \/ CopyLine \/ EndCopy \/ CopyLog \/ WriteOutput
    <2>1. /\ pc \in Rewriting
          /\ output' = output /\ updates' = updates /\ walk' = walk
          /\ file' = file /\ raced' = raced /\ original' = original
      BY <1>4 DEF BeginCopy, CopyLine, EndCopy, CopyLog, WriteOutput, observed, Rewriting
    <2>. QED
      BY <1>1, <2>1, InHandStays DEF OutputFits, LinesSurvive, InRewrite
  <1>5. CASE Replace
    <2>1. /\ pc' \notin Rewriting /\ raced' = raced /\ original' = original
          /\ InHand \in Files
          /\ file' = [file EXCEPT ![InHand] = Replacement(InHand)]
          /\ file \in [Files -> Seq(Line)] /\ original \in [Files -> Seq(Line)]
      BY <1>5 DEF Replace, NextFile, Rewriting, Inv, TypeOK, InHand
    <2>2. ASSUME NEW f \in Files \ raced
          PROVE  /\ Len(file'[f]) = Len(file[f])
                 /\ \A i \in DOMAIN file[f] : Said(file'[f][i]) = Said(file[f][i])
      <3>1. CASE f = InHand
        BY <1>5, <2>1, <2>2, <3>1, ReplacementProperties
      <3>2. CASE f # InHand
        BY <2>1, <3>2
      <3>. QED
        BY <3>1, <3>2
    <2>3. \A f \in Files \ raced : DOMAIN file[f] = DOMAIN original[f]
      <3> SUFFICES ASSUME NEW f \in Files \ raced PROVE DOMAIN file[f] = DOMAIN original[f]
        OBVIOUS
      <3>1. file[f] \in Seq(Line) /\ original[f] \in Seq(Line)
        BY <2>1
      <3>2. Len(file[f]) = Len(original[f])
        BY <1>1 DEF LinesSurvive
      <3>. QED
        BY <3>1, <3>2
    <2>4. LinesSurvive'
      BY <1>1, <2>1, <2>2, <2>3 DEF LinesSurvive
    <2>. QED
      BY <2>1, <2>4 DEF OutputFits, InRewrite
  <1>6. CASE AgentAppends \/ AgentUpdates
    <2>1. PICK f \in Files : Wrote(f)
      BY <1>6, AgentsWrite
    <2>2. AgentsLeave /\ InHand' = InHand
      BY <1>6, AgentsWrite, InHandStays DEF AgentsLeave
    <2>3. \A g : InRewrite(g)' <=> InRewrite(g)
      BY <2>2 DEF InRewrite, AgentsLeave
    <2>4. LinesSurvive'
      BY <1>1, <2>1 DEF LinesSurvive, Wrote, Untouched
    <2>5. ASSUME NEW g \in Files \ raced', InRewrite(g)
          PROVE  /\ Len(output) <= Len(file'[g])
                 /\ KindOf(g) # "sqlite" =>
                     /\ Len(output) = Len(file'[g])
                     /\ \A i \in DOMAIN output \ updates : output[i] = file'[g][i]
                 /\ \A i \in updates : Said(output[i]) = Said(file'[g][i])
      <3>1. /\ Len(output) <= Len(file[g])
            /\ KindOf(g) # "sqlite" =>
                /\ Len(output) = Len(file[g])
                /\ \A i \in DOMAIN output \ updates : output[i] = file[g][i]
            /\ \A i \in updates : Said(output[i]) = Said(file[g][i])
        <4>1. g \in Files \ raced
          BY <2>1 DEF Wrote
        <4>. QED
          BY <1>1, <2>5, <4>1 DEF OutputFits
      <3>2. CASE g # f
        BY <2>1, <3>1, <3>2 DEF Wrote
      <3>3. CASE g = f
        <4>1. /\ Len(file[g]) <= Len(file'[g]) /\ KindOf(g) = "sqlite"
              /\ \A i \in updates : file'[g][i] = file[g][i]
          BY <2>1, <2>5, <3>3 DEF Wrote, Untouched
        <4>2. Len(output) \in Nat /\ Len(file[g]) \in Nat /\ Len(file'[g]) \in Nat
          <5>1. TypeOK'
            BY TypeStep DEF Inv
          <5>2. file' \in [Files -> Seq(Line)]
            BY <5>1 DEF TypeOK
          <5>3. file \in [Files -> Seq(Line)] /\ output \in Seq(Line)
            BY <1>1 DEF TypeOK
          <5>. QED
            BY <5>2, <5>3
        <4>3. Len(output) <= Len(file'[g])
          BY <3>1, <4>1, <4>2
        <4>. QED
          BY <3>1, <4>1, <4>3
      <3>. QED
        BY <3>2, <3>3
    <2>6. output' = output /\ updates' = updates
      BY <2>2 DEF AgentsLeave
    <2>7. OutputFits'
      BY <2>3, <2>5, <2>6 DEF OutputFits
    <2>. QED
      BY <2>4, <2>7
  <1>7. CASE Checkpoint
    BY <1>1, <1>7, InHandStays DEF Checkpoint, OutputFits, LinesSurvive, InRewrite
  <1>. QED
    BY <1>2, <1>3, <1>4, <1>5, <1>6, <1>7 DEF Next

\* A copy stands where it is made, and leaves the others alone.
LEMMA CopyStepCopies ==
    ASSUME Inv, BeginCopy \/ CopyLine \/ CopyLog
    PROVE  /\ InHand \in Files /\ config.dir \in Dirs /\ InHand' = InHand
           /\ UNCHANGED <<file, main, original, raced, torn, config, walk, output, updates>>
           /\ \A d \in Dirs, f \in Files :
                d # config.dir \/ f # InHand => backup'[d][f] = backup[d][f]
           /\ Backup' = backup'[config.dir][InHand]
           /\ BeginCopy => Backup' = [main |-> <<>>,
                                      log |-> IF Backup = NoCopy THEN {} ELSE Backup.log]
           /\ CopyLine => Backup' = [Backup EXCEPT !.main =
                                        Append(Backup.main, main[InHand][Len(Backup.main) + 1])]
           /\ CopyLog => Backup' = [Backup EXCEPT !.log = Logged(InHand)]
           /\ Backup' \in Copy
           /\ BeginCopy \/ Backup \in Copy
  <1>1. /\ InHand \in Files /\ config.dir \in Dirs
        /\ backup \in [Dirs -> [Files -> Copy \cup {NoCopy}]] /\ NoCopy \notin Copy
    BY FilesAssumption DEF Inv, TypeOK, BeginCopy, CopyLine, CopyLog, InHand, Rewriting
  <1>2. UNCHANGED <<file, main, original, raced, torn, config, walk, output, updates>>
    BY DEF BeginCopy, CopyLine, CopyLog, observed
  <1>3. InHand' = InHand /\ Backup' = backup'[config.dir][InHand]
    BY <1>2, InHandStays DEF Backup
  <1>4. \A d \in Dirs, f \in Files :
            d # config.dir \/ f # InHand => backup'[d][f] = backup[d][f]
    BY <1>1 DEF BeginCopy, CopyLine, CopyLog
  <1>5. BeginCopy => Backup' = [main |-> <<>>,
                                log |-> IF Backup = NoCopy THEN {} ELSE Backup.log]
    BY <1>1, <1>3 DEF BeginCopy
  <1>6. CopyLine => Backup' = [Backup EXCEPT !.main =
                                  Append(Backup.main, main[InHand][Len(Backup.main) + 1])]
    BY <1>1, <1>3 DEF CopyLine, Backup
  <1>7. CopyLog => Backup' = [Backup EXCEPT !.log = Logged(InHand)]
    BY <1>1, <1>3 DEF CopyLog, Backup
  <1>8. CopyLine \/ CopyLog => Backup # NoCopy
    BY DEF CopyLine, CopyLog, Inv, CopyFollows
  <1>9. Backup \in Copy \cup {NoCopy}
    BY <1>1 DEF Backup
  <1>10. Backup' \in Copy
    <2>1. PICK copy \in Copy : backup' = [backup EXCEPT ![config.dir][InHand] = copy]
      BY <1>8, CopyStepType DEF Inv
    <2>. QED
      BY <1>1, <1>3, <2>1
  <1>. QED
    BY <1>1, <1>2, <1>3, <1>4, <1>5, <1>6, <1>7, <1>8, <1>9, <1>10

\* The copy under way follows the main file, which grows at most; a checkpoint that changes it
\* otherwise tears the copy.
LEMMA CopyStep == ASSUME Inv, Next PROVE FilesHaveNoLog' /\ CopyFollows'
  <1>1. FilesHaveNoLog /\ CopyFollows /\ TypeOK
    BY DEF Inv
  <1>2. CASE BeginRun \/ Refuse \/ Scan \/ FailToRewrite \/ EndRun \/ Crash \/ WriteOutput
    <2>1. /\ file' = file /\ main' = main /\ backup' = backup
          /\ pc' \notin {"copying", "log"}
      BY <1>2 DEF BeginRun, Refuse, Scan, FailToRewrite, EndRun, Crash, WriteOutput, NextFile
    <2>. QED
      BY <1>1, <2>1 DEF FilesHaveNoLog, CopyFollows
  <1>3. CASE BeginCopy \/ CopyLine \/ CopyLog
    <2>1. /\ InHand \in Files /\ config.dir \in Dirs /\ InHand' = InHand
          /\ file' = file /\ main' = main /\ torn' = torn
          /\ \A d \in Dirs, f \in Files :
                d # config.dir \/ f # InHand => backup'[d][f] = backup[d][f]
          /\ Backup' = backup'[config.dir][InHand] /\ Backup' \in Copy
          /\ BeginCopy \/ Backup \in Copy
      BY <1>3, CopyStepCopies
    <2>2. NoCopy \notin Copy /\ main[InHand] \in Seq(Line)
      BY <1>1, <2>1, FilesAssumption DEF TypeOK
    <2>3. KindOf(InHand) # "sqlite" => Backup'.log = {}
      <3>1. KindOf(InHand) # "sqlite" /\ Backup # NoCopy => Backup.log = {}
        BY <1>1, <2>1 DEF FilesHaveNoLog, Backup
      <3>2. CASE BeginCopy
        BY <3>1, <3>2, CopyStepCopies
      <3>3. CASE CopyLine
        <4>1. Backup \in Copy /\ Backup # NoCopy
          BY <1>1, <2>1, <3>3 DEF CopyLine, CopyFollows, BeginCopy
        <4>2. \E lines : Backup' = [Backup EXCEPT !.main = lines]
          BY <3>3, CopyStepCopies
        <4>. QED
          BY <3>1, <4>1, <4>2 DEF Copy
      <3>4. CASE CopyLog
        BY <1>1, <3>4 DEF CopyLog, CopyFollows
      <3>. QED
        BY <1>3, <3>2, <3>3, <3>4
    <2>4. FilesHaveNoLog'
      <3> SUFFICES ASSUME NEW f \in Files, KindOf(f) # "sqlite"
                   PROVE  /\ main'[f] = file'[f]
                          /\ \A d \in Dirs : backup'[d][f] # NoCopy => backup'[d][f].log = {}
        BY DEF FilesHaveNoLog
      <3>1. /\ main[f] = file[f]
            /\ \A d \in Dirs : backup[d][f] # NoCopy => backup[d][f].log = {}
        BY <1>1 DEF FilesHaveNoLog
      <3>2. \A d \in Dirs : d = config.dir /\ f = InHand => backup'[d][f].log = {}
        BY <2>1, <2>3
      <3>. QED
        BY <2>1, <3>1, <3>2
    <2>5. CASE BeginCopy
      <3>1. pc' = "copying" /\ Backup'.main = <<>>
        BY <2>5, CopyStepCopies DEF BeginCopy
      <3>2. Len(main[InHand]) \in Nat
        BY <2>2
      <3>. QED
        BY <2>1, <2>2, <2>4, <3>1, <3>2 DEF CopyFollows
    <2>6. CASE CopyLine
      <3> DEFINE n == Len(Backup.main)
      <3>1. /\ pc = "copying" /\ pc' = pc /\ n + 1 <= Len(main[InHand])
        BY <2>6 DEF CopyLine
      <3>2. Backup \in Copy
        BY <2>1, <3>1 DEF BeginCopy
      <3>3. Backup.main \in Seq(Line)
        BY <3>2 DEF Copy
      <3>4. Backup'.main = Append(Backup.main, main[InHand][n + 1])
        <4>1. Backup' = [Backup EXCEPT !.main = Append(Backup.main, main[InHand][n + 1])]
          BY <2>6, CopyStepCopies
        <4>. QED
          BY <3>2, <4>1 DEF Copy
      <3>5. CASE InHand \notin torn
        <4>1. \A i \in 1 .. n : Backup.main[i] = main[InHand][i]
          BY <1>1, <3>1, <3>5 DEF CopyFollows
        <4>2. /\ Len(Backup'.main) = n + 1
              /\ \A i \in 1 .. n + 1 : Backup'.main[i] = main[InHand][i]
          <5>1. main[InHand][n + 1] \in Line
            <6>1. n \in Nat /\ Len(main[InHand]) \in Nat
              BY <2>2, <3>3
            <6>2. n + 1 \in 1 .. Len(main[InHand])
              BY <3>1, <6>1
            <6>. QED
              BY <2>2, <6>2
          <5>. QED
            BY <3>3, <3>4, <4>1, <5>1
        <4>3. Len(Backup'.main) <= Len(main[InHand])
          BY <3>1, <4>2
        <4> HIDE DEF n
        <4>4. \A i \in 1 .. Len(Backup'.main) : Backup'.main[i] = main'[InHand'][i]
          BY <2>1, <4>2
        <4>. QED
          BY <2>1, <2>2, <2>4, <3>1, <4>3, <4>4 DEF CopyFollows
      <3>6. CASE InHand \in torn
        BY <2>1, <2>2, <2>4, <3>1, <3>6 DEF CopyFollows
      <3>. QED
        BY <3>5, <3>6
    <2>7. CASE CopyLog
      <3>1. pc' = "write"
        BY <2>7 DEF CopyLog
      <3>. QED
        BY <2>4, <3>1 DEF CopyFollows
    <2>. QED
      BY <1>3, <2>5, <2>6, <2>7
  <1>4. CASE EndCopy
    <2>1. /\ UNCHANGED <<file, main, backup, config, walk, torn>>
          /\ pc = "copying" /\ Len(Backup.main) >= Len(main[InHand])
          /\ pc' = IF KindOf(InHand) = "sqlite" THEN "log" ELSE "write"
      BY <1>4 DEF EndCopy, observed
    <2>2. InHand' = InHand /\ Backup' = Backup
      BY <2>1, InHandStays DEF Backup
    <2>3. Backup # NoCopy
      BY <1>1, <2>1 DEF CopyFollows
    <2>4. Backup.main \in Seq(Line) /\ main[InHand] \in Seq(Line)
      <3>1. /\ InHand \in Files /\ config.dir \in Dirs
        BY <1>1, <2>1, FilesAssumption DEF TypeOK, InHand, Rewriting
      <3>2. Backup \in Copy
        BY <1>1, <2>3, <3>1 DEF TypeOK, Backup
      <3>. QED
        BY <1>1, <3>1, <3>2 DEF TypeOK, Copy
    <2>5. InHand \notin torn => Backup.main = main[InHand]
      <3> SUFFICES ASSUME InHand \notin torn PROVE Backup.main = main[InHand]
        OBVIOUS
      <3>1. /\ Len(Backup.main) <= Len(main[InHand])
            /\ \A i \in 1 .. Len(Backup.main) : Backup.main[i] = main[InHand][i]
        BY <1>1, <2>1 DEF CopyFollows
      <3>2. Len(Backup.main) = Len(main[InHand])
        BY <2>1, <2>4, <3>1
      <3>. QED
        BY <2>4, <3>1, <3>2, SeqEqual
    <2>. QED
      BY <1>1, <2>1, <2>2, <2>3, <2>5 DEF FilesHaveNoLog, CopyFollows
  <1>5. CASE Replace
    <2>1. /\ InHand \in Files /\ pc' = "walk" /\ backup' = backup
          /\ file' = [file EXCEPT ![InHand] = Replacement(InHand)]
          /\ main' = IF KindOf(InHand) = "sqlite" THEN main
                     ELSE [main EXCEPT ![InHand] = Replacement(InHand)]
      BY <1>1, <1>5 DEF Replace, NextFile, TypeOK, InHand, Rewriting
    <2>2. FilesHaveNoLog'
      BY <1>1, <2>1 DEF FilesHaveNoLog, TypeOK
    <2>. QED
      BY <2>1, <2>2 DEF CopyFollows
  <1>6. CASE AgentAppends \/ AgentUpdates
    <2>1. PICK f \in Files : Wrote(f) /\ WroteMain(f)
      BY <1>6, AgentsWrite
    <2>2. UNCHANGED <<backup, config, pc, walk, torn>>
      BY <1>6, AgentsWrite DEF AgentsLeave
    <2>3. InHand' = InHand /\ Backup' = Backup
      BY <2>2, InHandStays DEF Backup
    <2>4. FilesHaveNoLog'
      BY <1>1, <2>1, <2>2 DEF FilesHaveNoLog, Wrote, WroteMain
    <2>5. pc = "log" => main'[InHand] = main[InHand]
      <3>1. pc = "log" => InHand \in Files /\ KindOf(InHand) = "sqlite"
        BY <1>1 DEF CopyFollows, TypeOK, InHand, Rewriting
      <3>. QED
        BY <2>1, <3>1 DEF Wrote, WroteMain
    <2>6. pc = "copying" /\ InHand \notin torn =>
            /\ Len(Backup.main) <= Len(main'[InHand])
            /\ \A i \in 1 .. Len(Backup.main) : Backup.main[i] = main'[InHand][i]
      <3> SUFFICES ASSUME pc = "copying", InHand \notin torn
                   PROVE  /\ Len(Backup.main) <= Len(main'[InHand])
                          /\ \A i \in 1 .. Len(Backup.main) : Backup.main[i] = main'[InHand][i]
        OBVIOUS
      <3>1. /\ Len(Backup.main) <= Len(main[InHand])
            /\ \A i \in 1 .. Len(Backup.main) : Backup.main[i] = main[InHand][i]
        BY <1>1 DEF CopyFollows
      <3>2. InHand \in Files /\ config.dir \in Dirs
        BY <1>1, FilesAssumption DEF TypeOK, InHand, Rewriting
      <3>3. Backup # NoCopy
        BY <1>1 DEF CopyFollows
      <3>4. Len(Backup.main) \in Nat /\ Len(main[InHand]) \in Nat
        <4>1. Backup \in Copy
          BY <1>1, <3>2, <3>3 DEF TypeOK, Backup
        <4>. QED
          BY <1>1, <3>2, <4>1 DEF TypeOK, Copy
      <3>5. Len(main'[InHand]) \in Nat
        <4>1. TypeOK'
          BY TypeStep DEF Inv
        <4>. QED
          BY <3>2, <4>1 DEF TypeOK
      <3>6. /\ Len(main[InHand]) <= Len(main'[InHand])
            /\ \A i \in 1 .. Len(main[InHand]) : main'[InHand][i] = main[InHand][i]
        BY <2>1, <3>2, <3>4 DEF Wrote, WroteMain
      <3>. QED
        BY <3>1, <3>4, <3>5, <3>6
    <2>. QED
      BY <1>1, <2>2, <2>3, <2>4, <2>5, <2>6 DEF CopyFollows
  <1>7. CASE Checkpoint
    <2>1. PICK f \in Files :
              /\ KindOf(f) = "sqlite"
              /\ main' = [main EXCEPT ![f] = file[f]]
              /\ torn' = IF pc \in {"copying", "log"} /\ f = InHand THEN torn \cup {f} ELSE torn
      BY <1>7 DEF Checkpoint
    <2>2. UNCHANGED <<file, backup, config, pc, walk>>
      BY <1>7 DEF Checkpoint
    <2>3. InHand' = InHand /\ Backup' = Backup
      BY <2>2, InHandStays DEF Backup
    <2>4. \A g \in Files \ {f} : main'[g] = main[g]
      BY <1>1, <2>1 DEF TypeOK
    <2>5. FilesHaveNoLog'
      BY <1>1, <2>1, <2>2, <2>4 DEF FilesHaveNoLog
    <2>6. pc \in {"copying", "log"} => InHand \in Files
      BY <1>1 DEF TypeOK, InHand, Rewriting
    <2>7. pc \in {"copying", "log"} /\ InHand \notin torn' =>
            InHand \notin torn /\ main'[InHand] = main[InHand]
      BY <2>1, <2>4, <2>6
    <2>. QED
      BY <1>1, <2>2, <2>3, <2>5, <2>7 DEF CopyFollows
  <1>. QED
    BY <1>2, <1>3, <1>4, <1>5, <1>6, <1>7 DEF Next

-----------------------------------------------------------------------------

\* The lines to be changed are lines of the file and of what it would be.
LEMMA UpdatesAreLines ==
    ASSUME Inv, pc \in Rewriting, InHand \notin raced, NEW i \in updates
    PROVE  /\ InHand \in Files
           /\ i \in DOMAIN original[InHand] /\ i \in DOMAIN file[InHand]
  <1>1. /\ InHand \in Files /\ file[InHand] \in Seq(Line) /\ original[InHand] \in Seq(Line)
        /\ output \in Seq(Line) /\ i \in DOMAIN output
    BY DEF Inv, TypeOK, InHand
  <1>2. Len(output) <= Len(file[InHand]) /\ Len(file[InHand]) = Len(original[InHand])
    BY <1>1 DEF Inv, OutputFits, LinesSurvive, InRewrite
  <1>. QED
    BY <1>1, <1>2

\* The copy that is about to be overwritten is not needed, its file being as it was written;
\* and while the new one grows, every line stands in its file or in another copy.
LEMMA CopyKeeps ==
    ASSUME Inv, BeginCopy \/ CopyLine \/ CopyLog
    PROVE  /\ OriginalsAreKept' /\ KeptElsewhere'
           /\ InHand \notin Excepted => \A i \in DOMAIN original[InHand] :
                \/ file[InHand][i] = original[InHand][i]
                \/ CopyLog => \E d \in Dirs \ {config.dir} : KeptIn(d, InHand, i)'
  <1>1. /\ InHand \in Files /\ config.dir \in Dirs /\ InHand' = InHand
        /\ file' = file /\ original' = original /\ raced' = raced /\ torn' = torn
        /\ config' = config
        /\ \A d \in Dirs, f \in Files :
              d # config.dir \/ f # InHand => backup'[d][f] = backup[d][f]
    BY CopyStepCopies
  <1>2. recopied \subseteq recopied' /\ (CopyLog => recopied' = recopied)
    BY DEF BeginCopy, CopyLine, CopyLog, observed
  <1>3. ASSUME InHand \notin Excepted', NEW i \in DOMAIN original[InHand]
        PROVE  \/ file[InHand][i] = original[InHand][i]
               \/ \E d \in Dirs \ {config.dir} : KeptIn(d, InHand, i)
    <2>1. InHand \notin Excepted
      BY <1>1, <1>2, <1>3 DEF Excepted
    <2>2. CASE BeginCopy
      <3>1. file[InHand] = original[InHand] \/ backup[config.dir][InHand] = NoCopy
        BY <1>3, <2>2 DEF BeginCopy, Backup, Excepted
      <3>2. file[InHand][i] = original[InHand][i] \/ \E d \in Dirs : KeptIn(d, InHand, i)
        BY <1>1, <1>3, <2>1 DEF Inv, OriginalsAreKept, KeptInBackup, KeptIn, Excepted
      <3>3. \A d \in Dirs : KeptIn(d, InHand, i) => backup[d][InHand] # NoCopy
        BY DEF KeptIn
      <3>. QED
        BY <3>1, <3>2, <3>3
    <2>3. CASE CopyLine \/ CopyLog
      <3>1. pc \in {"copying", "log"}
        BY <2>3 DEF CopyLine, CopyLog
      <3>. QED
        BY <1>3, <2>1, <3>1 DEF Inv, KeptElsewhere
    <2>. QED
      BY <2>2, <2>3
  <1>4. ASSUME NEW d \in Dirs, NEW f \in Files, NEW i, KeptIn(d, f, i),
               d # config.dir \/ f # InHand
        PROVE  KeptIn(d, f, i)'
    <2>1. backup'[d][f] = backup[d][f]
      BY <1>1, <1>4
    <2>. QED
      BY <1>1, <1>4, <2>1 DEF KeptIn
  <1>5. ASSUME InHand \notin Excepted', NEW i \in DOMAIN original[InHand]
        PROVE  \/ file[InHand][i] = original[InHand][i]
               \/ \E d \in Dirs \ {config.dir} : KeptIn(d, InHand, i)'
    BY <1>1, <1>3, <1>4, <1>5
  <1>6. OriginalsAreKept'
    <2> SUFFICES ASSUME NEW f \in Files, f \notin Excepted', NEW i \in DOMAIN original[f]
                 PROVE  file[f][i] = original[f][i] \/ \E d \in Dirs : KeptIn(d, f, i)'
      BY <1>1 DEF OriginalsAreKept, KeptInBackup, KeptIn, Excepted
    <2>1. CASE f = InHand
      BY <1>1, <1>5, <2>1 DEF KeptIn
    <2>2. CASE f # InHand
      <3>1. f \notin Excepted
        BY <1>1, <1>2 DEF Excepted
      <3>2. file[f][i] = original[f][i] \/ \E d \in Dirs : KeptIn(d, f, i)
        BY <3>1 DEF Inv, OriginalsAreKept, KeptInBackup, KeptIn, Excepted
      <3>. QED
        BY <1>4, <2>2, <3>2
    <2>. QED
      BY <2>1, <2>2
  <1>7. KeptElsewhere'
    BY <1>1, <1>5 DEF KeptElsewhere
  <1>8. CopyLog /\ InHand \notin Excepted => InHand \notin Excepted'
    BY <1>1, <1>2 DEF Excepted
  <1>. QED
    BY <1>5, <1>6, <1>7, <1>8

\* A finished copy shows the file as it is; what that no longer holds was kept elsewhere.
LEMMA EndCopyKeeps == ASSUME Inv, EndCopy PROVE OriginalsAreKept' /\ KeptElsewhere' /\ OutputIsSafe'
  <1>1. /\ pc = "copying" /\ pc' = IF KindOf(InHand) = "sqlite" THEN "log" ELSE "write"
        /\ Len(Backup.main) >= Len(main[InHand])
        /\ UNCHANGED <<file, main, backup, config, walk, updates, original, raced, recopied, torn>>
    BY DEF EndCopy, observed
  <1>2. /\ InHand \in Files /\ config.dir \in Dirs /\ InHand' = InHand
        /\ backup \in [Dirs -> [Files -> Copy \cup {NoCopy}]]
        /\ file \in [Files -> Seq(Line)] /\ main \in [Files -> Seq(Line)]
    BY <1>1, InHandStays, FilesAssumption DEF Inv, TypeOK, InHand, Rewriting
  <1>3. /\ Excepted' = Excepted
        /\ \A d, f, i : KeptIn(d, f, i)' <=> KeptIn(d, f, i)
    BY <1>1 DEF Excepted, KeptIn
  <1>4. OriginalsAreKept'
    BY <1>1 DEF Inv, OriginalsAreKept, KeptInBackup
  <1>5. KeptElsewhere'
    BY <1>1, <1>2, <1>3 DEF Inv, KeptElsewhere
  <1>6. OutputIsSafe'
    <2> SUFFICES ASSUME KindOf(InHand) # "sqlite", InHand \notin Excepted, NEW i \in updates
                 PROVE  \E d \in Dirs : KeptIn(d, InHand, i)
      BY <1>1, <1>2, <1>3 DEF OutputIsSafe, KeptInBackup, KeptIn
    <2>1. i \in DOMAIN original[InHand] /\ i \in DOMAIN file[InHand]
      BY <1>1, UpdatesAreLines DEF Rewriting, Excepted
    <2>2. Backup # NoCopy /\ Backup = backup[config.dir][InHand]
      BY <1>1 DEF Inv, CopyFollows, Backup
    <2>3. Backup.log = {} /\ main[InHand] = file[InHand]
      BY <1>2, <2>2 DEF Inv, FilesHaveNoLog
    <2>4. /\ Len(Backup.main) <= Len(main[InHand])
          /\ \A n \in 1 .. Len(Backup.main) : Backup.main[n] = main[InHand][n]
      BY <1>1 DEF Inv, CopyFollows, Excepted
    <2>5. i \in DOMAIN Backup.main /\ Backup.main[i] = file[InHand][i]
      <3>1. Backup.main \in Seq(Line) /\ main[InHand] \in Seq(Line)
        <4>1. Backup \in Copy
          BY <1>2, <2>2
        <4>. QED
          BY <1>2, <4>1 DEF Copy
      <3>2. Len(Backup.main) = Len(main[InHand])
        BY <1>1, <2>4, <3>1
      <3>. QED
        BY <2>1, <2>3, <2>4, <3>1, <3>2
    <2>6. Shows(Backup, i, file[InHand][i])
      BY <2>3, <2>5 DEF Shows
    <2>7. CASE file[InHand][i] = original[InHand][i]
      BY <1>2, <2>2, <2>6, <2>7 DEF KeptIn
    <2>8. CASE file[InHand][i] # original[InHand][i]
      BY <1>1, <2>1, <2>8 DEF Inv, KeptElsewhere
    <2>. QED
      BY <2>7, <2>8
  <1>. QED
    BY <1>4, <1>5, <1>6

\* With the log, a copy shows every row of the database, unless a checkpoint tore it.
LEMMA CopyLogKeeps == ASSUME Inv, CopyLog PROVE OutputIsSafe'
  <1>1. /\ pc = "log" /\ InHand \in Files /\ config.dir \in Dirs /\ InHand' = InHand
        /\ UNCHANGED <<file, main, original, raced, torn, config, updates>>
        /\ recopied' = recopied
        /\ Backup' = backup'[config.dir][InHand]
        /\ Backup' = [Backup EXCEPT !.log = Logged(InHand)]
        /\ Backup \in Copy /\ Backup' \in Copy
    BY CopyStepCopies DEF CopyLog, observed, BeginCopy
  <1> SUFFICES ASSUME InHand \notin Excepted, NEW i \in updates
               PROVE  \E d \in Dirs : KeptIn(d, InHand, i)'
    BY <1>1 DEF OutputIsSafe, KeptInBackup, KeptIn, Excepted
  <1>2. i \in DOMAIN original[InHand] /\ i \in DOMAIN file[InHand]
    BY <1>1, UpdatesAreLines DEF Rewriting, Excepted
  <1>3. Backup.main = main[InHand]
    BY <1>1 DEF Inv, CopyFollows, Excepted
  <1>4. Backup'.log = Logged(InHand) /\ Backup'.main = main[InHand]
    BY <1>1, <1>3 DEF Copy
  <1>5. Shows(Backup', i, file[InHand][i])
    <2>1. \A frame \in Logged(InHand) : frame[1] = i => frame = <<i, file[InHand][i]>>
      BY DEF Logged
    <2>2. <<i, file[InHand][i]>>[1] = i
      OBVIOUS
    <2>3. \/ <<i, file[InHand][i]>> \in Logged(InHand)
          \/ i \in DOMAIN main[InHand] /\ main[InHand][i] = file[InHand][i]
      BY <1>2 DEF Logged
    <2>. QED
      BY <1>4, <2>1, <2>2, <2>3 DEF Shows
  <1>6. Backup' # NoCopy
    BY <1>1, FilesAssumption
  <1>7. CASE file[InHand][i] = original[InHand][i]
    BY <1>1, <1>5, <1>6, <1>7 DEF KeptIn
  <1>8. CASE file[InHand][i] # original[InHand][i]
    BY <1>2, <1>8, CopyKeeps
  <1>. QED
    BY <1>7, <1>8

\* What the output changes is kept, and what it leaves alone stays.
LEMMA ReplaceKeeps == ASSUME Inv, Replace PROVE OriginalsAreKept'
  <1>1. /\ pc = "replace" /\ InHand \in Files
        /\ file \in [Files -> Seq(Line)] /\ original \in [Files -> Seq(Line)]
    BY DEF Replace, Inv, TypeOK, InHand, Rewriting
  <1>2. /\ file' = [file EXCEPT ![InHand] = Replacement(InHand)]
        /\ UNCHANGED <<backup, original, raced, recopied, torn>>
    BY DEF Replace
  <1>3. \A f, i : KeptInBackup(f, i)' <=> KeptInBackup(f, i)
    BY <1>2 DEF KeptInBackup
  <1>4. ASSUME NEW f \in Files \ (raced \cup recopied \cup torn), NEW i \in DOMAIN original[f]
        PROVE  file'[f][i] = original[f][i] \/ KeptInBackup(f, i)
    <2>1. file[f][i] = original[f][i] \/ KeptInBackup(f, i)
      BY DEF Inv, OriginalsAreKept
    <2>2. CASE f # InHand
      BY <1>1, <1>2, <2>1, <2>2
    <2>3. CASE f = InHand
      <3>1. i \in updates => KeptInBackup(f, i)
        BY <1>1, <1>4, <2>3 DEF Inv, OutputIsSafe, Excepted
      <3>2. i \in DOMAIN file[f]
        <4>1. Len(file[f]) = Len(original[f])
          BY DEF Inv, LinesSurvive
        <4>2. file[f] \in Seq(Line) /\ original[f] \in Seq(Line)
          BY <1>1
        <4>. QED
          BY <4>1, <4>2
      <3>3. file'[f] = Replacement(f)
        BY <1>1, <1>2, <2>3
      <3>4. i \notin updates => file'[f][i] = file[f][i]
        BY <2>3, <3>2, <3>3, ReplacementProperties
      <3>. QED
        BY <2>1, <3>1, <3>4
    <2>. QED
      BY <2>2, <2>3
  <1>. QED
    BY <1>2, <1>3, <1>4 DEF OriginalsAreKept

\* A line that an agent writes stands in its file as it was written, and is none of those to
\* be changed.
LEMMA AgentsKeep ==
    ASSUME Inv, AgentAppends \/ AgentUpdates
    PROVE  OriginalsAreKept' /\ KeptElsewhere' /\ OutputIsSafe'
  <1>1. PICK f \in Files : Wrote(f)
    BY AgentsWrite
  <1>2. UNCHANGED <<backup, config, pc, walk, updates, recopied, torn>> /\ InHand' = InHand
    BY AgentsWrite, InHandStays DEF AgentsLeave
  <1>3. Excepted \subseteq Excepted' /\ raced' \subseteq Excepted'
    BY <1>1, <1>2 DEF Excepted, Wrote
  <1>4. ASSUME NEW g, NEW i, original'[g][i] = original[g][i]
        PROVE  \A d : KeptIn(d, g, i)' <=> KeptIn(d, g, i)
    BY <1>2, <1>4 DEF KeptIn
  <1>5. \A g, i : KeptInBackup(g, i) <=> \E d \in Dirs : KeptIn(d, g, i)
    BY DEF KeptInBackup, KeptIn
  <1>6. \A g, i : KeptInBackup(g, i)' <=> \E d \in Dirs : KeptIn(d, g, i)'
    BY DEF KeptInBackup, KeptIn
  <1>7. ASSUME NEW g \in Files, g \notin Excepted', NEW i \in DOMAIN original'[g]
        PROVE  \/ file'[g][i] = original'[g][i]
               \/ Untouched(g, i)
    BY <1>1, <1>3, <1>7 DEF Wrote, Untouched
  <1>8. OriginalsAreKept'
    <2> SUFFICES ASSUME NEW g \in Files, g \notin Excepted', NEW i \in DOMAIN original'[g]
                 PROVE  file'[g][i] = original'[g][i] \/ KeptInBackup(g, i)'
      BY DEF OriginalsAreKept, Excepted
    <2>1. CASE Untouched(g, i)
      <3>1. file[g][i] = original[g][i] \/ KeptInBackup(g, i)
        BY <1>3, <2>1 DEF Inv, OriginalsAreKept, Excepted, Untouched
      <3>. QED
        BY <1>4, <1>5, <1>6, <2>1, <3>1 DEF Untouched
    <2>. QED
      BY <1>7, <2>1
  <1>9. KeptElsewhere'
    <2> SUFFICES ASSUME pc \in {"copying", "log"}, InHand \notin Excepted',
                        NEW i \in DOMAIN original'[InHand]
                 PROVE  \/ file'[InHand][i] = original'[InHand][i]
                        \/ \E d \in Dirs \ {config.dir} : KeptIn(d, InHand, i)'
      BY <1>2 DEF KeptElsewhere
    <2>1. InHand \in Files
      BY DEF Inv, TypeOK, InHand, Rewriting
    <2>2. CASE Untouched(InHand, i)
      <3>1. \/ file[InHand][i] = original[InHand][i]
            \/ \E d \in Dirs \ {config.dir} : KeptIn(d, InHand, i)
        BY <1>3, <2>2 DEF Inv, KeptElsewhere, Untouched
      <3>. QED
        BY <1>2, <2>2, <3>1 DEF Untouched, KeptIn
    <2>. QED
      BY <1>7, <2>1, <2>2
  <1>10. OutputIsSafe'
    <2> SUFFICES ASSUME pc \in {"write", "replace"}, InHand \notin Excepted', NEW i \in updates
                 PROVE  KeptInBackup(InHand, i)'
      BY <1>2 DEF OutputIsSafe
    <2>1. InHand \in Files
      BY DEF Inv, TypeOK, InHand, Rewriting
    <2>2. \E d \in Dirs : KeptIn(d, InHand, i)
      BY <1>3, <1>5 DEF Inv, OutputIsSafe
    <2>3. original'[InHand][i] = original[InHand][i]
      <3>1. InRewrite(InHand)
        BY DEF InRewrite, Rewriting
      <3>2. CASE InHand = f
        BY <1>1, <1>3, <3>1, <3>2 DEF Wrote, Untouched
      <3>3. CASE InHand # f
        BY <1>1, <2>1, <3>3 DEF Wrote
      <3>. QED
        BY <3>2, <3>3
    <2>. QED
      BY <1>2, <2>2, <2>3 DEF KeptInBackup, KeptIn
  <1>. QED
    BY <1>8, <1>9, <1>10

\* No step loses the last good copy of a line.
LEMMA BackupStep ==
    ASSUME Inv, Next
    PROVE  KeptElsewhere' /\ OutputIsSafe' /\ OriginalsAreKept'
  <1>1. CASE BeginRun \/ Refuse \/ Scan \/ FailToRewrite \/ EndRun \/ Crash \/ WriteOutput
    <2>1. /\ UNCHANGED <<file, backup, original, raced, recopied, torn>>
          /\ pc' \notin {"copying", "log"}
          /\ pc' \in {"write", "replace"} => pc = "write" /\ walk' = walk /\ updates' = updates
      BY <1>1 DEF BeginRun, Refuse, Scan, FailToRewrite, EndRun, Crash, WriteOutput, NextFile,
                  observed
    <2>2. \A f, i : KeptInBackup(f, i)' <=> KeptInBackup(f, i)
      BY <2>1 DEF KeptInBackup
    <2>3. OriginalsAreKept'
      BY <2>1, <2>2 DEF Inv, OriginalsAreKept
    <2>4. OutputIsSafe'
      <3> SUFFICES ASSUME pc' \in {"write", "replace"} PROVE OutputIsSafe'
        BY DEF OutputIsSafe
      <3>. QED
        BY <2>1, <2>2, InHandStays DEF Inv, OutputIsSafe, Excepted
    <2>. QED
      BY <2>1, <2>3, <2>4 DEF KeptElsewhere
  <1>2. CASE BeginCopy \/ CopyLine
    <2>1. pc' = "copying"
      BY <1>2 DEF BeginCopy, CopyLine
    <2>. QED
      BY <1>2, <2>1, CopyKeeps DEF OutputIsSafe
  <1>3. CASE EndCopy
    BY <1>3, EndCopyKeeps
  <1>4. CASE CopyLog
    BY <1>4, CopyKeeps, CopyLogKeeps
  <1>5. CASE Replace
    <2>1. pc' = "walk"
      BY <1>5 DEF Replace, NextFile
    <2>. QED
      BY <1>5, <2>1, ReplaceKeeps DEF KeptElsewhere, OutputIsSafe
  <1>6. CASE AgentAppends \/ AgentUpdates
    BY <1>6, AgentsKeep
  <1>7. CASE Checkpoint
    <2>1. UNCHANGED <<file, backup, config, pc, walk, updates, original, raced, recopied>>
          /\ torn \subseteq torn'
      BY <1>7 DEF Checkpoint
    <2>2. /\ Excepted \subseteq Excepted' /\ InHand' = InHand
          /\ \A d, f, i : KeptIn(d, f, i)' <=> KeptIn(d, f, i)
          /\ \A f, i : KeptInBackup(f, i)' <=> KeptInBackup(f, i)
      BY <2>1, InHandStays DEF Excepted, KeptIn, KeptInBackup
    <2>3. OriginalsAreKept'
      BY <2>1, <2>2 DEF Inv, OriginalsAreKept, Excepted
    <2>4. KeptElsewhere' /\ OutputIsSafe'
      BY <2>1, <2>2 DEF Inv, KeptElsewhere, OutputIsSafe
    <2>. QED
      BY <2>3, <2>4
  <1>. QED
    BY <1>1, <1>2, <1>3, <1>4, <1>5, <1>6, <1>7 DEF Next

-----------------------------------------------------------------------------

LEMMA InvInit == Init => Inv
  <1> SUFFICES ASSUME Init PROVE Inv
    OBVIOUS
  <1>1. TypeOK
    BY FilesAssumption DEF Init, TypeOK, NoReport, Rewriting
  <1>2. DiscoveredIsKnown /\ OutputIsClean /\ SweptFilesAreClean /\ OutputFits /\ LinesSurvive
    BY DEF Init, DiscoveredIsKnown, OutputIsClean, SweptFilesAreClean, OutputFits,
           LinesSurvive, InRewrite, Rewriting
  <1>3. InHandIsCounted /\ ReportIsHonest /\ CopyFollows /\ KeptElsewhere /\ OutputIsSafe
    BY DEF Init, InHandIsCounted, ReportIsHonest, CopyFollows, KeptElsewhere, OutputIsSafe,
           InRewrite, Rewriting, NoReport
  <1>4. FilesHaveNoLog /\ OriginalsAreKept
    BY DEF Init, FilesHaveNoLog, OriginalsAreKept
  <1>. QED
    BY <1>1, <1>2, <1>3, <1>4 DEF Inv

LEMMA InvariantHolds == Spec => []Inv
  <1>1. Inv /\ [Next]_vars => Inv'
    <2> SUFFICES ASSUME Inv, [Next]_vars PROVE Inv'
      OBVIOUS
    <2>1. CASE Next
      <3>1. TypeOK'
        BY <2>1, TypeStep DEF Inv
      <3>. QED
        BY <2>1, <3>1, KnownStep, CleanStep, LinesStep, ReportStep, CopyStep, BackupStep DEF Inv
    <2>2. CASE UNCHANGED vars
      BY <2>2 DEF vars, observed, Inv, TypeOK, DiscoveredIsKnown, OutputIsClean,
                  SweptFilesAreClean, OutputFits, LinesSurvive, InHandIsCounted,
                  ReportIsHonest, FilesHaveNoLog, CopyFollows, KeptElsewhere, OutputIsSafe,
                  OriginalsAreKept, KeptInBackup, KeptIn, Excepted, InRewrite, InHand, Backup
    <2>. QED
      BY <2>1, <2>2
  <1>. QED
    BY InvInit, <1>1, PTL DEF Spec

\* A line that does not stand in its file as it was written stands so in a backup, whatever
\* was killed or failed and at whichever step; but for the files that a second copy was made
\* of over the first, the databases checkpointed between the copies of their two files, and
\* the files written into between being read and being replaced.
THEOREM BackupsKeepOriginals == Spec => []OriginalsAreKept
  <1>1. Inv => OriginalsAreKept
    BY DEF Inv
  <1>. QED
    BY <1>1, InvariantHolds, PTL

\* A rewrite throws no line away, and makes none say anything else, but in the time between
\* reading a file and replacing it; and there only what an agent appends to a file, or writes
\* over a row of a database that is to be rewritten.
THEOREM NoLineIsLost == Spec => []LinesSurvive
  <1>1. Inv => LinesSurvive
    BY DEF Inv
  <1>. QED
    BY <1>1, InvariantHolds, PTL

\* What the report counts has been rewritten or has an error, though it is counted first.
THEOREM ReportsAreHonest == Spec => []ReportIsHonest
  <1>1. Inv => ReportIsHonest
    BY DEF Inv
  <1>. QED
    BY <1>1, InvariantHolds, PTL

\* What a run is through with holds no discovered secret, and no marked one but in a binary
\* file, wherever in the walk the file was reached.
THEOREM SweptIsClean == Spec => []SweptFilesAreClean
  <1>1. Inv => SweptFilesAreClean
    BY DEF Inv
  <1>. QED
    BY <1>1, InvariantHolds, PTL

-----------------------------------------------------------------------------
\* The statistics file

AtMost(counts, bound) == \A k \in Placeholders : counts[k] <= bound[k]

\* Nothing in the file or on its way there has not been reported.
CountsAreBounded ==
    /\ statsFile \in Counts => AtMost(statsFile, reported)
    /\ \A p \in Processes : Updating(p) => AtMost(stats[p], reported)

\* An undisturbed update is alone, and will write all that has been reported.
TurnsAreExact ==
    ~disturbed =>
        /\ \A p, q \in Processes : Updating(p) /\ Updating(q) => p = q
        /\ \A p \in Processes : Updating(p) => stats[p] = reported
        /\ \A p \in Processes : at[p] = "truncated" => statsFile = Unreadable
        /\ (\A p \in Processes : ~Updating(p)) =>
                IF statsFile = NoFile THEN reported = Zero ELSE statsFile = reported

StatsInv == StatsTypeOK /\ CountsAreBounded /\ TurnsAreExact

\* Counts are added up placeholder by placeholder.
LEMMA CountedCounts ==
    ASSUME NEW counts \in Counts, NEW redactions \in Counts
    PROVE  /\ [k \in Placeholders |-> counts[k] + redactions[k]] \in Counts
           /\ AtMost(counts, [k \in Placeholders |-> counts[k] + redactions[k]])
  BY DEF Counts, AtMost

LEMMA ZeroCounts == Zero \in Counts
  BY DEF Zero, Counts

\* What a process goes on from is what it can read, or nothing; never more than was reported.
LEMMA ReadCounts ==
    ASSUME StatsInv, NEW p \in Processes
    PROVE  ReadStatsFile(p) \in Counts /\ AtMost(ReadStatsFile(p), reported)
  BY ZeroCounts DEF StatsInv, StatsTypeOK, CountsAreBounded, ReadStatsFile, AtMost, Zero, Counts

LEMMA StatsInvInit == StatsInit => StatsInv
  BY ZeroCounts, StatsAssumption
     DEF StatsInit, StatsInv, StatsTypeOK, CountsAreBounded, TurnsAreExact, AtMost, Updating

\* A report is counted in what the process will write as it is in what has been reported.
LEMMA ReadStep ==
    ASSUME StatsInv, NEW p \in Processes, Read(p)
    PROVE  StatsInv'
  <1> DEFINE counted(counts, redactions) == [k \in Placeholders |-> counts[k] + redactions[k]]
  <1>1. PICK redactions \in Reports(p) :
            /\ stats' = [stats EXCEPT ![p] = counted(ReadStatsFile(p), redactions)]
            /\ reported' = counted(reported, redactions)
    BY DEF Read
  <1>2. redactions \in Counts
    BY StatsAssumption
  <1>3. /\ at[p] = "idle" /\ at' = [at EXCEPT ![p] = "read"]
        /\ disturbed' = (disturbed \/ \E q \in Processes : Updating(q))
        /\ statsFile' = statsFile
    BY DEF Read
  <1>4. reported \in Counts /\ ReadStatsFile(p) \in Counts /\ AtMost(ReadStatsFile(p), reported)
    BY ReadCounts DEF StatsInv, StatsTypeOK
  <1>5. /\ counted(reported, redactions) \in Counts
        /\ counted(ReadStatsFile(p), redactions) \in Counts
        /\ AtMost(reported, counted(reported, redactions))
    BY <1>2, <1>4, CountedCounts
  <1> HIDE DEF counted
  <1>6. StatsTypeOK'
    BY <1>1, <1>3, <1>5 DEF StatsInv, StatsTypeOK
  <1>7. AtMost(counted(ReadStatsFile(p), redactions), counted(reported, redactions))
    BY <1>2, <1>4 DEF AtMost, counted, Counts
  <1>8. ASSUME NEW counts \in Counts, AtMost(counts, reported)
        PROVE  AtMost(counts, reported')
    BY <1>1, <1>4, <1>5, <1>8 DEF AtMost, Counts
  <1>9. \A q \in Processes : Updating(q)' => q = p \/ Updating(q)
    BY <1>3 DEF Updating, StatsInv, StatsTypeOK
  <1>10. CountsAreBounded'
    <2>1. statsFile' \in Counts => AtMost(statsFile', reported')
      BY <1>3, <1>8 DEF StatsInv, CountsAreBounded
    <2>2. ASSUME NEW q \in Processes, Updating(q)' PROVE AtMost(stats'[q], reported')
      <3>1. CASE q = p
        BY <1>1, <1>7, <3>1 DEF StatsInv, StatsTypeOK
      <3>2. CASE q # p
        <4>1. Updating(q) /\ stats'[q] = stats[q]
          BY <1>1, <1>9, <2>2, <3>2 DEF StatsInv, StatsTypeOK
        <4>2. stats[q] \in Counts /\ AtMost(stats[q], reported)
          BY <4>1 DEF StatsInv, StatsTypeOK, CountsAreBounded
        <4>. QED
          BY <1>8, <4>1, <4>2
      <3>. QED
        BY <3>1, <3>2
    <2>. QED
      BY <2>1, <2>2 DEF CountsAreBounded
  <1>11. TurnsAreExact'
    <2> SUFFICES ASSUME ~disturbed' PROVE TurnsAreExact'
      BY DEF TurnsAreExact
    <2>1. ~disturbed /\ \A q \in Processes : ~Updating(q)
      BY <1>3
    <2>2. IF statsFile = NoFile THEN reported = Zero ELSE statsFile = reported
      BY <2>1 DEF StatsInv, TurnsAreExact
    <2>3. ReadStatsFile(p) = reported
      BY <1>4, <2>2, StatsAssumption DEF ReadStatsFile
    <2>4. \A q \in Processes : Updating(q)' => q = p
      BY <1>9, <2>1
    <2>5. stats'[p] = reported'
      BY <1>1, <2>3 DEF StatsInv, StatsTypeOK
    <2>6. Updating(p)' /\ \A q \in Processes : at'[q] # "truncated"
      BY <1>3, <2>1 DEF Updating, StatsInv, StatsTypeOK
    <2>. QED
      BY <2>4, <2>5, <2>6 DEF TurnsAreExact
  <1>. QED
    BY <1>6, <1>10, <1>11 DEF StatsInv

\* The steps of a write change the file only, and give up the turn at its end.
LEMMA WriteStep ==
    ASSUME StatsInv, NEW p \in Processes, Truncate(p) \/ Write(p) \/ FailToWrite(p) \/ Kill(p)
    PROVE  StatsInv'
  <1>1. StatsTypeOK'
    BY DEF Truncate, Write, FailToWrite, Kill, StatsInv, StatsTypeOK
  <1>2. \A q \in Processes : Updating(q)' => Updating(q)
    BY DEF Truncate, Write, FailToWrite, Kill, StatsInv, StatsTypeOK, Updating
  <1>3. stats' = stats /\ reported' = reported
    BY DEF Truncate, Write, FailToWrite, Kill
  <1>4. CountsAreBounded'
    <2>1. statsFile' \in Counts => statsFile' = statsFile \/ (Updating(p) /\ statsFile' = stats[p])
      BY StatsAssumption DEF Truncate, Write, FailToWrite, Kill, Updating
    <2>. QED
      BY <1>2, <1>3, <2>1 DEF StatsInv, CountsAreBounded
  <1>5. TurnsAreExact'
    <2> USE DEF StatsInv, StatsTypeOK, TurnsAreExact, Updating
    <2>1. CASE Truncate(p)
      BY <1>3, <2>1 DEF Truncate
    <2>2. CASE Write(p)
      BY <1>3, <2>2, StatsAssumption DEF Write
    <2>3. CASE FailToWrite(p)
      BY <2>3 DEF FailToWrite
    <2>4. CASE Kill(p)
      BY <1>3, <2>4 DEF Kill
    <2>. QED
      BY <2>1, <2>2, <2>3, <2>4
  <1>. QED
    BY <1>1, <1>4, <1>5 DEF StatsInv

LEMMA StatsInvariantHolds == StatsSpec => []StatsInv
  <1>1. StatsInv /\ [StatsNext]_statsVars => StatsInv'
    <2> SUFFICES ASSUME StatsInv, [StatsNext]_statsVars PROVE StatsInv'
      OBVIOUS
    <2>1. CASE StatsNext
      BY <2>1, ReadStep, WriteStep DEF StatsNext
    <2>2. CASE UNCHANGED statsVars
      BY <2>2 DEF statsVars, StatsInv, StatsTypeOK, CountsAreBounded, TurnsAreExact, Updating
    <2>. QED
      BY <2>1, <2>2
  <1>. QED
    BY StatsInvInit, <1>1, PTL DEF StatsSpec

\* No process counts what was not reported, and none that is left alone loses a report, for
\* any number of processes and any counts.
THEOREM StatsNeverOvercount == StatsSpec => []CountsAreReports
  <1>1. StatsInv => CountsAreReports
    BY DEF StatsInv, CountsAreBounded, TurnsAreExact, CountsAreReports, AtMost
  <1>. QED
    BY <1>1, StatsInvariantHolds, PTL

\* The variables keep their types.
THEOREM StatsTypeCorrect == StatsSpec => []StatsTypeOK
  <1>1. StatsInv => StatsTypeOK
    BY DEF StatsInv
  <1>. QED
    BY <1>1, StatsInvariantHolds, PTL
=============================================================================
