----------------------------- MODULE FileLogger -----------------------------
(***************************************************************************)
(* The file adapter of the logger (logger/file_logger.go): before each     *)
(* message it may close the file, rename it to an archive and open a new   *)
(* one, by date, by number of lines and by size.                           *)
(*                                                                         *)
(* writeByConfig runs under the lock of the FileWriter, whoever logs, and  *)
(* is one step. Any call of the file system may fail. The process may be   *)
(* started again and finds the files as they are.                          *)
(*                                                                         *)
(* A message has a size and a number of newlines, at least its own: a line *)
(* of the raft library, which has one already, gets another. In a file it  *)
(* is found by the line where it begins.                                   *)
(*                                                                         *)
(* Time is a number of moments, PerDay of them in a day: archives by lines *)
(* and by size are named by date and time on a clock of twelve hours,      *)
(* archives by date by the day, also for "h", whose layout has the year    *)
(* for the hour.                                                           *)
(***************************************************************************)
EXTENDS SequencesExt

CONSTANTS
    DateSlice,  \* slice by date: "", "d" or "h"
    MaxLine,    \* slice by lines, 0 for never
    MaxSize,    \* slice by size, 0 for never
    Sizes,      \* the sizes of messages
    Newlines,   \* the numbers of newlines of messages
    NoFile,     \* the file does not exist
    PerDay,     \* moments of a day
    MaxTime,    \* bound on time
    MaxMsgs,    \* bound on messages
    MaxRuns,    \* bound on processes
    MaxFaults   \* bound on failing calls of the file system

Messages == [n : 1 .. MaxMsgs, size : Sizes, first : Nat, lines : Newlines,
             day : 0 .. MaxTime, run : 1 .. MaxRuns]

ASSUME FileAssumption ==
    /\ DateSlice \in {"", "d", "h"}
    /\ {MaxLine, MaxSize, MaxTime, MaxMsgs, MaxRuns, MaxFaults} \subseteq Nat
    /\ MaxRuns > 0
    /\ PerDay \in Nat /\ PerDay > 1 /\ PerDay % 2 = 0
    /\ Sizes \subseteq Nat /\ Newlines \subseteq Nat \ {0}
    /\ NoFile \notin Seq(Messages)

VARIABLES
    file,       \* the messages in the file, or NoFile
    archives,   \* name -> the messages, and when the archive was made (history)
    fw,         \* FileWriter: startLine, startTime, and whether writer is open
    up,         \* messages reach the adapter
    now,        \* the clock
    msgs, runs, faults

vars == <<file, archives, fw, up, now, msgs, runs, faults>>

Faults == {"none", "rename", "create", "count", "open"}

-----------------------------------------------------------------------------
Day(t) == t \div PerDay

(* A time as a clock of twelve hours shows it.                             *)
Stamp(t) == <<Day(t), t % (PerDay \div 2)>>

(* The adapter as a value: the variables a call changes, and its error.    *)
Adapter == [file |-> file, archives |-> archives, fw |-> fw, err |-> FALSE]
Fails(d) == [d EXCEPT !.err = TRUE]

(* The line a message would begin in, which is what GetFileLines returns.  *)
nextLine(s) == IF s = <<>> THEN 1 ELSE Last(s).first + Last(s).lines

(* Create the file if it is not there, count its lines, one more than it   *)
(* has, and open it. Each of these may fail.                               *)
initFile(d, fault) ==
    LET created == [d EXCEPT !.file = IF @ = NoFile THEN <<>> ELSE @,
                             !.fw.startTime = now]
        counted == [created EXCEPT !.fw.startLine = nextLine(created.file)] IN
    CASE fault = "create" /\ d.file = NoFile -> Fails(d)
      [] fault = "count" -> Fails(created)
      [] fault = "open"  -> Fails(counted)
      [] OTHER           -> [counted EXCEPT !.fw.open = TRUE]

(* Close, rename over whatever has that name, and start a new file. The    *)
(* writer stays closed when one of these fails.                            *)
Archive(d, name, fault) ==
    LET closed == [d EXCEPT !.fw.open = FALSE] IN
    IF d.file = NoFile \/ fault = "rename" THEN Fails(closed)
    ELSE initFile([closed EXCEPT
                     !.file = NoFile,
                     !.archives = [a \in DOMAIN @ \cup {name} |->
                                     IF a = name THEN [msgs |-> d.file, made |-> now]
                                                 ELSE @[a]]], fault)

(* Mutant: the time of the last line is compared, which is never old.      *)
sliceByDateNever(d, fault) == d

sliceByDate(d, fault) ==
    IF DateSlice # "" /\ Day(d.fw.startTime) # Day(now)
    THEN Archive(d, <<"date", Day(d.fw.startTime)>>, fault) ELSE d

(* Mutant: archives are named by the day.                                  *)
sliceByLineDaily(d, fault) ==
    IF MaxLine # 0 /\ d.fw.startLine >= MaxLine
    THEN Archive(d, <<"line", Day(now)>>, fault) ELSE d

sliceByLine(d, fault) ==
    IF MaxLine # 0 /\ d.fw.startLine >= MaxLine
    THEN Archive(d, <<"line", Stamp(now)>>, fault) ELSE d

getFileSize(d) == FoldSeq(LAMBDA m, sum : m.size + sum, 0, d.file)

sliceBySize(d, fault) ==
    IF MaxSize = 0 THEN d
    ELSE IF d.file = NoFile THEN Fails(d)
    ELSE IF getFileSize(d) >= MaxSize THEN Archive(d, <<"size", Stamp(now)>>, fault)
    ELSE d

(* The message as the next one of the file.                                *)
Placed(d, msg) == [msg EXCEPT !.first = nextLine(d.file)]

(* Mutant: a message counts as one line.                                   *)
WriteOne(d, msg) ==
    [d EXCEPT !.file = IF d.fw.open THEN Append(@, Placed(d, msg)) ELSE @,
              !.fw.startLine = IF MaxLine # 0 THEN @ + 1 ELSE @]

(* The newlines are counted whether or not the message could be written.   *)
Write(d, msg) ==
    [d EXCEPT !.file = IF d.fw.open THEN Append(@, Placed(d, msg)) ELSE @,
              !.fw.startLine = IF MaxLine # 0 THEN @ + msg.lines ELSE @]

(* An error ends the call before the message is written.                   *)
writeByConfig(msg, fault) ==
    LET date == sliceByDate(Adapter, fault)
        byLine == IF date.err THEN date ELSE sliceByLine(date, fault)
        bySize == IF byLine.err THEN byLine ELSE sliceBySize(byLine, fault)
    IN  IF bySize.err THEN bySize ELSE Write(bySize, msg)

-----------------------------------------------------------------------------
Becomes(d) == file' = d.file /\ archives' = d.archives /\ fw' = d.fw

(* A fault counts when it makes a difference.                              *)
Hits(fault, d, sound) ==
    IF fault = "none" THEN UNCHANGED faults
    ELSE d # sound /\ faults < MaxFaults /\ faults' = faults + 1

(* The first start, without a log file.                                    *)
Init ==
    /\ file = <<>> /\ archives = <<>>
    /\ fw = [startLine |-> 1, startTime |-> 0, open |-> TRUE]
    /\ up = TRUE /\ now = 0 /\ msgs = 0 /\ runs = 1 /\ faults = 0

writeMsg ==
    /\ up /\ msgs < MaxMsgs
    /\ msgs' = msgs + 1
    /\ \E fault \in Faults, size \in Sizes, lines \in Newlines :
         LET msg == [n |-> msgs + 1, size |-> size, first |-> 0, lines |-> lines,
                     day |-> Day(now), run |-> runs] IN
         /\ Becomes(writeByConfig(msg, fault))
         /\ Hits(fault, writeByConfig(msg, fault), writeByConfig(msg, "none"))
    /\ UNCHANGED <<up, now, runs>>

(* The file is closed. The goroutine that called Flush returns, and        *)
(* nothing is written after it, see Logger.                                *)
Flush ==
    /\ up
    /\ up' = FALSE
    /\ fw' = [fw EXCEPT !.open = FALSE]
    /\ UNCHANGED <<file, archives, now, msgs, runs, faults>>

(* Mutant: the time is rounded up.                                         *)
RestartAhead ==
    /\ runs < MaxRuns
    /\ runs' = runs + 1
    /\ up' = TRUE
    /\ fw' = [startLine |-> IF file = NoFile THEN 0 ELSE nextLine(file),
              startTime |-> now + 1, open |-> file # NoFile]
    /\ UNCHANGED <<file, archives, now, msgs, faults>>

(* The process is started again: Init of the adapter, which does not look  *)
(* at the error of initFile.                                               *)
Restart ==
    /\ runs < MaxRuns
    /\ runs' = runs + 1
    /\ up' = TRUE
    /\ LET zero == [Adapter EXCEPT !.fw = [startLine |-> 0, startTime |-> 0, open |-> FALSE]] IN
       \E fault \in Faults :
         /\ Becomes(initFile(zero, fault))
         /\ Hits(fault, initFile(zero, fault), initFile(zero, "none"))
    /\ UNCHANGED <<now, msgs>>

Tick ==
    /\ now < MaxTime
    /\ now' = now + 1
    /\ UNCHANGED <<file, archives, fw, up, msgs, runs, faults>>

Next == writeMsg \/ Flush \/ Restart \/ Tick

Spec == Init /\ [][Next]_vars

-----------------------------------------------------------------------------
(* Properties.                                                             *)

Current == IF file = NoFile THEN <<>> ELSE file
Archived(a) == ToSet(archives[a].msgs)
Kept == ToSet(Current) \cup UNION {Archived(a) : a \in DOMAIN archives}

(* The files hold messages, none from a later process or message than      *)
(* there has been.                                                         *)
TypeOK ==
    /\ file = NoFile \/ file \in Seq(Messages)
    /\ \A a \in DOMAIN archives :
         archives[a].msgs \in Seq(Messages) /\ archives[a].made \in 0 .. now
    /\ fw.startLine \in Nat /\ fw.startTime \in 0 .. now
    /\ fw.open \in BOOLEAN /\ up \in BOOLEAN
    /\ \A l \in Kept : l.run <= runs /\ l.n <= msgs

(* A message that has been written stays in the file or in an archive,     *)
(* whichever kinds of slicing meet and whichever call fails, unless its    *)
(* archive is overwritten by one made at the same time on a clock of       *)
(* twelve hours.                                                           *)
LinesKept ==
    [][\A l \in Kept \ Kept' :
         \E a \in DOMAIN archives :
           l \in Archived(a) /\ Stamp(archives[a].made) = Stamp(now)]_vars

(* With slicing by date, what a process writes on two days is              *)
(* never in one file, although startTime is only set by initFile and also  *)
(* when that fails half way.                                               *)
DaysApart ==
    DateSlice # "" =>
      \A s \in {Current} \cup {archives[a].msgs : a \in DOMAIN archives} :
        \A i, j \in DOMAIN s : s[i].run = s[j].run => s[i].day = s[j].day

(* With slicing by lines, no message begins in line MaxLine of a file or   *)
(* below it, so that only the last message of a file may run past the      *)
(* limit, although the counter is not reset when a slicing fails half way, *)
(* counts writes that failed, and starts from the file after a restart.    *)
LineLimit ==
    MaxLine > 1 => \A s \in {Current} \cup {archives[a].msgs : a \in DOMAIN archives} :
                     \A i \in DOMAIN s : s[i].first < MaxLine
=============================================================================
