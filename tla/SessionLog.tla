----------------------------- MODULE SessionLog -----------------------------
(* The readable transcript of one session.  The pump draws what the process *)
(* prints on a virtual screen and now and then logs the lines that are new; *)
(* `omo logs` logs the screen as well, at any moment; the file is cut into  *)
(* segments, and closed when the process is gone.  A screen is the set of   *)
(* its lines that are neither blank nor the agent CLI's chrome; a write is  *)
(* the set of lines of one snapshot, and a line is <<key, rest>>.           *)
EXTENDS Naturals, Integers, Sequences, FiniteSets, SequencesExt

CONSTANTS Lines,       \* what the process may print, pairs of a key and the rest
          Limits,      \* pairs of LogKeep, -1 to keep all rotated segments, and
                       \* LogMaxSizeKB, the lines in the live file
          Rows,        \* the height of the screen
          MaxOutputs, MaxTails, MaxMinutes

VARIABLES
  limit,       \* those of this session
  screen,      \* s.term
  logLines,    \* the screen of the last snapshot
  logSeen,     \* the keys logged within the last minute
  logMu,       \* who holds it: "nobody", "pump", "tail"
  delta,       \* the lines its holder is about to write
  segments,    \* the live file, then <name>.1, <name>.2, ...: sequences of writes
  open,        \* the writer has its file
  pump,        \* reading, due, final, waiting, done
  tail,        \* TailLog: idle, asked
  logged,      \* every write so far, by the rotations before it
  logEvents

vars == <<limit, screen, logLines, logSeen, logMu, delta, segments, open, pump, tail,
          logged, logEvents>>

keep == limit[1]
maxSize == limit[2]

KeyOf(line) == line[1]
Keys == {KeyOf(l) : l \in Lines}

TypeOK ==
  /\ limit \in Limits /\ screen \subseteq Lines /\ logLines \subseteq Lines
  /\ logSeen \subseteq Keys /\ delta \subseteq Lines
  /\ logMu \in {"nobody", "pump", "tail"}
  /\ segments \in Seq(Seq(SUBSET Lines)) /\ segments # <<>>
  /\ logged \in Seq(Seq(SUBSET Lines)) /\ logged # <<>>
  /\ open \in BOOLEAN /\ pump \in {"reading", "due", "final", "waiting", "done"}
  /\ tail \in {"idle", "asked"}
  /\ logMu = "pump" => pump \in {"due", "final"}
  /\ logMu = "tail" => tail = "asked"

Init ==
  /\ limit \in Limits /\ screen = {} /\ logLines = {} /\ logSeen = {}
  /\ logMu = "nobody" /\ delta = {} /\ segments = <<<<>>>> /\ open = TRUE
  /\ pump = "reading" /\ tail = "idle" /\ logged = <<<<>>>>
  /\ logEvents = [output |-> 0, tail |-> 0, minute |-> 0]

May(event, most) ==
  logEvents[event] < most /\ logEvents' = [logEvents EXCEPT ![event] = @ + 1]

----------------------------------------------------------------------------
(* The lines a snapshot logs: those that were not on the screen of the last  *)
(* one and whose key was not logged within the minute; of two lines with the *)
(* same key the upper one, which here may be either.                         *)
Deltas ==
  LET fresh == {l \in screen \ logLines : KeyOf(l) \notin logSeen}
  IN {D \in SUBSET fresh : \A k \in {KeyOf(l) : l \in fresh} :
                             Cardinality({l \in D : KeyOf(l) = k}) = 1}

(* writeLogSnapshot holds logMu from the screen it reads to its write.       *)
Take(who) ==
  /\ logMu = "nobody" /\ logMu' = who
  /\ \E D \in Deltas : /\ delta' = D
                       /\ logSeen' = logSeen \cup {KeyOf(l) : l \in D}
  /\ logLines' = screen
  /\ UNCHANGED <<limit, screen, segments, open, pump, tail, logged, logEvents>>

Size(writes) == FoldSeq(LAMBDA w, n : n + Cardinality(w), 0, writes)

(* Mutants: segments are renamed from the first one up, so that all but the  *)
(* oldest are overwritten; the last segment is taken for one too many.       *)
RenamedUpwards == <<<<>>, Head(segments)>>
RemovesTheLast == <<<<>>>> \o SubSeq(segments, 1, Len(segments) - 1)

(* rotate: each file takes the next number, the highest one kept goes.       *)
Rotated ==
  <<<<>>>> \o IF keep < 0 \/ keep > Len(segments) THEN segments ELSE SubSeq(segments, 1, keep)

(* rotatingWriter.Write drops what comes after Close.                        *)
Written(files, history) ==
  /\ segments' = [files EXCEPT ![1] = Append(@, delta)]
  /\ logged' = [history EXCEPT ![Len(history)] = Append(@, delta)]

Appended ==
  IF delta = {} \/ ~open THEN UNCHANGED <<segments, logged>>
  ELSE IF Size(segments[1]) + Cardinality(delta) > maxSize
       THEN Written(Rotated, Append(logged, <<>>))
       ELSE Written(segments, logged)

Write(who) ==
  /\ logMu = who /\ logMu' = "nobody" /\ delta' = {} /\ Appended
  /\ UNCHANGED <<limit, screen, logLines, logSeen, open, logEvents>>

----------------------------------------------------------------------------
(* The pump: a read draws on the screen, and is logged if the last snapshot  *)
(* is a quarter of a second ago.                                             *)
Output ==
  /\ pump = "reading" /\ May("output", MaxOutputs)
  /\ screen' \in {S \in SUBSET Lines : Cardinality(S) <= Rows} \ {screen}
  /\ pump' \in {"reading", "due"}
  /\ UNCHANGED <<limit, logLines, logSeen, logMu, delta, segments, open, tail, logged>>

(* Mutant: the last screen is not logged.                                    *)
EndsAtOnce == "waiting"

(* What the pump does after the last read: it logs the screen once more.     *)
AtEnd == "final"

ReadFails ==
  /\ pump = "reading" /\ pump' = AtEnd
  /\ UNCHANGED <<limit, screen, logLines, logSeen, logMu, delta, segments, open, tail,
                 logged, logEvents>>

PumpTakes == pump \in {"due", "final"} /\ Take("pump")

PumpWrites ==
  /\ Write("pump") /\ pump' = IF pump = "due" THEN "reading" ELSE "waiting"
  /\ UNCHANGED tail

(* The process is reaped and the log closed, whoever holds logMu.            *)
CloseLog ==
  /\ pump = "waiting" /\ pump' = "done" /\ open' = FALSE
  /\ UNCHANGED <<limit, screen, logLines, logSeen, logMu, delta, segments, tail, logged, logEvents>>

(* TailLog takes a snapshot of its own before it reads the file.             *)
AskTail ==
  /\ tail = "idle" /\ May("tail", MaxTails) /\ tail' = "asked"
  /\ UNCHANGED <<limit, screen, logLines, logSeen, logMu, delta, segments, open, pump,
                 logged>>

TailTakes == tail = "asked" /\ Take("tail")
TailWrites == Write("tail") /\ tail' = "idle" /\ UNCHANGED pump

(* logDedupWindow is over for a key.                                         *)
Forget ==
  /\ May("minute", MaxMinutes) /\ \E k \in logSeen : logSeen' = logSeen \ {k}
  /\ UNCHANGED <<limit, screen, logLines, logMu, delta, segments, open, pump, tail,
                 logged>>

LogStep ==
  \/ Output \/ ReadFails \/ PumpTakes \/ PumpWrites \/ CloseLog
  \/ AskTail \/ TailTakes \/ TailWrites \/ Forget

Next == LogStep
Spec == Init /\ [][Next]_vars

----------------------------------------------------------------------------
(* The files hold exactly the writes since the rotations that are kept, each *)
(* file those of its own: no segment is overwritten, none is left over.      *)
Retained ==
  /\ Len(segments) = IF keep < 0 \/ keep >= Len(logged) THEN Len(logged) ELSE keep + 1
  /\ \A i \in 1 .. Len(segments) : segments[i] = logged[Len(logged) + 1 - i]

(* When the log is closed it has had every line of the last screen, or one   *)
(* with its key, although two snapshots may race and the last one is the     *)
(* only one that is not skipped for want of time.                            *)
LastScreenLogged ==
  ~open => \A l \in screen : \E t \in 1 .. Len(logged) :
             \E i \in 1 .. Len(logged[t]) : \E m \in logged[t][i] : KeyOf(m) = KeyOf(l)

TranscriptKept == Retained /\ LastScreenLogged
=============================================================================
