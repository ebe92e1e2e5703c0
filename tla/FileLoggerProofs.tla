-------------------------- MODULE FileLoggerProofs --------------------------
(***************************************************************************)
(* The safety of FileLogger for every configuration of the slicing, every  *)
(* length of day and any number of messages, restarts and failing calls.   *)
(*                                                                         *)
(* A call of writeByConfig passes the adapter through up to three slicings *)
(* before it writes. The invariants are therefore predicates of an adapter *)
(* as a value, d, kept by each of these, and the state satisfies them for  *)
(* Adapter.                                                                *)
(***************************************************************************)
EXTENDS FileLogger, TLAPS

IsAdapter(d) ==
    /\ {"file", "archives", "fw", "err"} \subseteq DOMAIN d
    /\ {"startLine", "startTime", "open"} \subseteq DOMAIN d.fw

(* The lines of its files. The lines of a file that is not there are none. *)
LinesOf(d) == IF d.file = NoFile THEN <<>> ELSE d.file
Files(d)  == {LinesOf(d)} \cup {d.archives[a].msgs : a \in DOMAIN d.archives}

(* The types, and an open writer has its file.                             *)
TypeInv(d) ==
    /\ IsAdapter(d)
    /\ d.file = NoFile \/ d.file \in Seq(Messages)
    /\ \A a \in DOMAIN d.archives :
         d.archives[a].msgs \in Seq(Messages) /\ d.archives[a].made \in 0 .. now
    /\ d.fw.startLine \in Nat /\ d.fw.startTime \in 0 .. now
    /\ d.fw.open \in BOOLEAN
    /\ d.fw.open => d.file # NoFile

(* Messages of one process in one file are of one day, and those of        *)
(* process r in the current file of the day of startTime.                  *)
OneDay(s) == \A i, j \in DOMAIN s : s[i].run = s[j].run => s[i].day = s[j].day

DayInv(d, r) ==
    DateSlice # "" =>
      /\ \A s \in Files(d) : OneDay(s)
      /\ \A i \in DOMAIN LinesOf(d) :
           LinesOf(d)[i].run = r => LinesOf(d)[i].day = Day(d.fw.startTime)

(* An open writer has counted all the lines of its file.                   *)
LineInv(d) ==
    MaxLine > 1 =>
      /\ \A s \in Files(d) : \A i \in DOMAIN s : s[i].first < MaxLine
      /\ d.fw.open => nextLine(d.file) <= d.fw.startLine

(* An archive by date is of a day before the one when it was made, and     *)
(* before the one of startTime unless there is no file to archive. The     *)
(* others carry the stamp of when they were made.                          *)
NameInv(d) ==
    \A a \in DOMAIN d.archives :
      /\ a = <<a[1], a[2]>>
      /\ \/ /\ a[1] = "date" /\ a[2] \in Nat /\ a[2] < Day(d.archives[a].made)
            /\ d.file # NoFile => a[2] < Day(d.fw.startTime)
         \/ a[1] \in {"line", "size"} /\ a[2] = Stamp(d.archives[a].made)

(* No line is from a process or a message that there has not been.         *)
PastInv(d, r, n) ==
    \A s \in Files(d) : \A i \in DOMAIN s : s[i].run <= r /\ s[i].n <= n

BoundInv ==
    /\ now \in 0 .. MaxTime /\ msgs \in 0 .. MaxMsgs /\ runs \in 1 .. MaxRuns
    /\ up \in BOOLEAN

AdapterInv(d) ==
    /\ TypeInv(d) /\ DayInv(d, runs) /\ LineInv(d) /\ NameInv(d)
    /\ PastInv(d, runs, msgs)

IInv == BoundInv /\ AdapterInv(Adapter)

-----------------------------------------------------------------------------
(* Days. These are the only facts about division that are needed.          *)

(* The day of a moment.                                                    *)
LEMMA Days ==
  ASSUME NEW t \in Nat
  PROVE  /\ Day(t) \in Nat
         /\ PerDay * Day(t) <= t
         /\ t < PerDay * Day(t) + PerDay
         /\ Day(t) <= t
<1>1. PerDay \in Nat /\ PerDay > 1
  BY FileAssumption
<1>2. Day(t) \in Int /\ t % PerDay \in 0 .. PerDay - 1 
  BY <1>1 DEF Day
<1>3. t = PerDay * Day(t) + (t % PerDay)
  BY <1>1 DEF Day
<1>4. Day(t) >= 0
  BY <1>1 DEF Day
<1>5. Day(t) <= PerDay * Day(t)
  BY <1>1, <1>2, <1>4
<1> QED BY <1>1, <1>2, <1>3, <1>4, <1>5

(* Days are numbers that never go back.                                    *)
LEMMA DayMonotone ==
  ASSUME NEW t \in Nat, NEW u \in Nat, t <= u
  PROVE  Day(t) <= Day(u)
<1>1. PerDay \in Nat /\ PerDay > 1
  BY FileAssumption
<1> SUFFICES ASSUME Day(t) >= Day(u) + 1
             PROVE  FALSE
  BY Days
<1>2. PerDay * Day(t) >= PerDay * (Day(u) + 1)
  BY <1>1, Days
<1>3. PerDay * (Day(u) + 1) = PerDay * Day(u) + PerDay
  BY <1>1, Days
<1> QED BY <1>1, <1>2, <1>3, Days

-----------------------------------------------------------------------------
(* The calls on an adapter.                                                *)

(* A file, even an empty one, is not NoFile.                               *)
LEMMA NoFileIsNone == <<>> \in Seq(Messages) /\ <<>> # NoFile
<1>1. <<>> \in Seq(Messages)
  OBVIOUS
<1> QED BY <1>1, FileAssumption

(* initFile on a closed adapter touches no line. If there is a file after  *)
(* it, startTime is now; if the writer is open, the lines have been        *)
(* counted; if it has not failed, the writer is open.                      *)
Inited(d, r) ==
    /\ IsAdapter(r)
    /\ r.archives = d.archives /\ LinesOf(r) = LinesOf(d)
    /\ r.file = NoFile => r.fw = d.fw /\ r.err = TRUE
    /\ r.file # NoFile => /\ r.file = LinesOf(d) /\ r.fw.startTime = now
                          /\ r.fw.startLine \in {d.fw.startLine, nextLine(LinesOf(d))}
    /\ \/ r.err = TRUE /\ r.fw.open = FALSE
       \/ /\ r.err = FALSE /\ r.fw.open = TRUE /\ r.file # NoFile
          /\ r.fw.startLine = nextLine(LinesOf(d))

LEMMA initFileIs ==
  ASSUME NEW d, NEW fault, IsAdapter(d), d.fw.open = FALSE, d.err = FALSE
  PROVE  Inited(d, initFile(d, fault))
<1> DEFINE created == [d EXCEPT !.file = IF @ = NoFile THEN <<>> ELSE @,
                                !.fw.startTime = now]
           counted == [created EXCEPT !.fw.startLine = nextLine(created.file)]
           opened  == [counted EXCEPT !.fw.open = TRUE]
           r       == initFile(d, fault)
<1>1. LinesOf(d) # NoFile
  BY NoFileIsNone DEF LinesOf
<1>2. /\ IsAdapter(created) /\ created.archives = d.archives /\ created.err = FALSE
      /\ created.file = LinesOf(d) /\ created.fw.startTime = now
      /\ created.fw.startLine = d.fw.startLine /\ created.fw.open = FALSE
  BY DEF IsAdapter, LinesOf
<1>3. \/ d.file = NoFile /\ r = Fails(d)
      \/ r = Fails(created) \/ r = Fails(counted) \/ r = opened
  BY DEF initFile
<1> HIDE DEF created
<1>4. /\ IsAdapter(counted) /\ counted.archives = d.archives /\ counted.err = FALSE
      /\ counted.file = LinesOf(d) /\ counted.fw.startTime = now
      /\ counted.fw.startLine = nextLine(LinesOf(d)) /\ counted.fw.open = FALSE
  BY <1>2 DEF IsAdapter
<1> HIDE DEF counted
<1>5. /\ IsAdapter(opened) /\ opened.archives = d.archives /\ opened.err = FALSE
      /\ opened.file = LinesOf(d) /\ opened.fw.startTime = now
      /\ opened.fw.startLine = nextLine(LinesOf(d)) /\ opened.fw.open = TRUE
  BY <1>4 DEF IsAdapter
<1>6. CASE d.file = NoFile /\ r = Fails(d)
  BY <1>1, <1>6 DEF Fails, IsAdapter, LinesOf, Inited
<1>7. CASE r = Fails(created)
  BY <1>1, <1>2, <1>7 DEF Fails, IsAdapter, LinesOf, Inited
<1>8. CASE r = Fails(counted)
  BY <1>1, <1>4, <1>8 DEF Fails, IsAdapter, LinesOf, Inited
<1>9. CASE r = opened
  BY <1>1, <1>5, <1>9 DEF LinesOf, Inited
<1> QED BY <1>3, <1>6, <1>7, <1>8, <1>9

(* Archive either fails before the renaming and closes the writer, or the  *)
(* lines of the file are in the archive, at the price of an archive of the *)
(* same name, and the file is empty or gone.                               *)
Renamed(d, name) ==
    [a \in DOMAIN d.archives \cup {name} |->
       IF a = name THEN [msgs |-> d.file, made |-> now] ELSE d.archives[a]]

Stays(d, r) ==
    /\ IsAdapter(r) /\ r.file = d.file /\ r.archives = d.archives
    /\ r.fw.startLine = d.fw.startLine /\ r.fw.startTime = d.fw.startTime
    /\ r.fw.open = FALSE /\ r.err = TRUE

Moves(d, r, name) ==
    /\ IsAdapter(r) /\ d.file # NoFile
    /\ r.archives = Renamed(d, name) /\ LinesOf(r) = <<>>
    /\ r.fw.startLine \in {d.fw.startLine, 1}
    /\ \/ r.file = NoFile /\ r.fw.startTime = d.fw.startTime
       \/ r.file = <<>> /\ r.fw.startTime = now
    /\ \/ r.err = TRUE /\ r.fw.open = FALSE
       \/ /\ r.err = FALSE /\ r.fw.open = TRUE
          /\ r.file = <<>> /\ r.fw.startTime = now /\ r.fw.startLine = 1

LEMMA ArchiveIs ==
  ASSUME NEW d, NEW name, NEW fault, IsAdapter(d), d.err = FALSE
  PROVE  LET r == Archive(d, name, fault) IN Stays(d, r) \/ Moves(d, r, name)
<1> DEFINE closed == [d EXCEPT !.fw.open = FALSE]
           moved  == [closed EXCEPT
                        !.file = NoFile,
                        !.archives = [a \in DOMAIN @ \cup {name} |->
                                        IF a = name THEN [msgs |-> d.file, made |-> now]
                                                    ELSE @[a]]]
           r      == Archive(d, name, fault)
           q      == initFile(moved, fault)
<1>1. \/ r = Fails(closed)
      \/ d.file # NoFile /\ r = q
  BY DEF Archive
<1>2. /\ IsAdapter(closed) /\ closed.file = d.file /\ closed.archives = d.archives
      /\ closed.fw.startLine = d.fw.startLine /\ closed.fw.startTime = d.fw.startTime
      /\ closed.fw.open = FALSE /\ closed.err = FALSE
  BY DEF IsAdapter
<1> HIDE DEF closed, r
<1>3. CASE r = Fails(closed)
  <2>1. Stays(d, r)
    BY <1>2, <1>3 DEF Fails, IsAdapter, Stays
  <2> QED BY <2>1 DEF r
<1>4. CASE d.file # NoFile /\ r = q
  <2>1. /\ IsAdapter(moved) /\ moved.file = NoFile /\ moved.archives = Renamed(d, name)
        /\ moved.fw = closed.fw /\ moved.err = FALSE
    BY <1>2 DEF IsAdapter, Renamed
  <2>2. LinesOf(moved) = <<>> /\ nextLine(<<>>) = 1
    BY <2>1 DEF LinesOf, nextLine
  <2> HIDE DEF moved
  <2>3. Inited(moved, q)
    BY <1>2, <2>1, initFileIs
  <2> HIDE DEF q
  <2>4. Moves(d, q, name)
    BY <1>2, <1>4, <2>1, <2>2, <2>3 DEF Moves, Inited
  <2> QED BY <1>4, <2>4 DEF r
<1> QED BY <1>1, <1>3, <1>4

(* A name under which a file may be archived now.                          *)
GoodName(name) ==
    /\ name = <<name[1], name[2]>>
    /\ \/ name[1] = "date" /\ name[2] \in Nat /\ name[2] < Day(now)
       \/ name[1] \in {"line", "size"} /\ name[2] = Stamp(now)

(* A failed archiving keeps the invariants.                                *)
LEMMA StaysKeeps ==
  ASSUME NEW d, NEW r, AdapterInv(d), Stays(d, r)
  PROVE  AdapterInv(r)
<1>1. LinesOf(r) = LinesOf(d) /\ Files(r) = Files(d)
  BY DEF Stays, LinesOf, Files
<1> QED BY <1>1 DEF AdapterInv, TypeInv, DayInv, LineInv, NameInv, PastInv, Stays

(* An archiving moves lines from one file to another, and touches none.    *)
LEMMA MovesFiles ==
  ASSUME NEW d, NEW r, NEW name, Moves(d, r, name)
  PROVE  Files(r) \subseteq Files(d) \cup {<<>>}
<1>1. LinesOf(d) = d.file /\ LinesOf(r) = <<>>
  BY DEF Moves, LinesOf
<1>2. \A a \in DOMAIN r.archives :
        \/ r.archives[a].msgs = d.file
        \/ a \in DOMAIN d.archives /\ r.archives[a] = d.archives[a]
  BY DEF Moves, Renamed
<1> QED BY <1>1, <1>2 DEF Files

(* It keeps the invariants: the new file is empty, and an archive by date  *)
(* is of the day of the old startTime, which is over.                      *)
LEMMA MovesKeeps ==
  ASSUME BoundInv, NEW d, NEW r, NEW name, AdapterInv(d), Moves(d, r, name), GoodName(name)
  PROVE  AdapterInv(r)
<1>1. Files(r) \subseteq Files(d) \cup {<<>>}
  BY MovesFiles
<1>2. now \in Nat /\ d.fw.startTime \in Nat /\ d.fw.startTime <= now
  BY DEF BoundInv, AdapterInv, TypeInv
<1>3. TypeInv(r)
  <2>1. /\ d.file \in Seq(Messages) /\ d.fw.startLine \in Nat
        /\ \A a \in DOMAIN d.archives :
             d.archives[a].msgs \in Seq(Messages) /\ d.archives[a].made \in 0 .. now
    BY DEF AdapterInv, TypeInv, Moves
  <2>2. \A a \in DOMAIN r.archives :
          r.archives[a].msgs \in Seq(Messages) /\ r.archives[a].made \in 0 .. now
    BY <1>2, <2>1 DEF Moves, Renamed
  <2>3. r.file = NoFile \/ r.file \in Seq(Messages)
    BY NoFileIsNone DEF Moves
  <2>4. r.fw.startLine \in Nat /\ r.fw.startTime \in 0 .. now
    BY <1>2, <2>1 DEF Moves
  <2>6. r.fw.open \in BOOLEAN
    BY Zenon DEF Moves
  <2>5. r.fw.open => r.file # NoFile
    BY NoFileIsNone DEF Moves
  <2> QED BY <2>2, <2>3, <2>4, <2>5, <2>6 DEF TypeInv, Moves
<1>4. DayInv(r, runs)
  <2>1. OneDay(<<>>)
    BY DEF OneDay
  <2>2. LinesOf(r) = <<>> /\ DOMAIN LinesOf(r) = {}
    BY DEF Moves
  <2>3. DateSlice # "" => \A s \in Files(r) : OneDay(s)
    BY <1>1, <2>1 DEF DayInv, AdapterInv
  <2> QED BY <2>2, <2>3 DEF DayInv
<1>5. LineInv(r)
  <2>1. MaxLine \in Nat /\ nextLine(<<>>) = 1
    BY FileAssumption DEF nextLine
  <2>3. \A s \in Files(r) : s \in Files(d) \/ DOMAIN s = {}
    BY <1>1
  <2>2. r.fw.open => r.file = <<>> /\ r.fw.startLine = 1
    BY DEF Moves
  <2> QED BY <2>1, <2>2, <2>3 DEF LineInv, AdapterInv
<1>6. NameInv(r)
  <2> SUFFICES ASSUME NEW a \in DOMAIN r.archives
               PROVE  /\ a = <<a[1], a[2]>>
                      /\ \/ /\ a[1] = "date" /\ a[2] \in Nat
                            /\ a[2] < Day(r.archives[a].made)
                            /\ r.file # NoFile => a[2] < Day(r.fw.startTime)
                         \/ a[1] \in {"line", "size"} /\ a[2] = Stamp(r.archives[a].made)
    BY DEF NameInv
  <2>1. r.file # NoFile => r.fw.startTime = now
    BY DEF Moves
  <2>2. CASE a = name
    <3>1. r.archives[a].made = now
      BY <2>2 DEF Moves, Renamed
    <3> QED BY <2>1, <2>2, <3>1 DEF GoodName
  <2>3. CASE a # name
    <3>1. a \in DOMAIN d.archives /\ r.archives[a] = d.archives[a] /\ d.file # NoFile
      BY <2>3 DEF Moves, Renamed
    <3>2. Day(d.fw.startTime) \in Nat /\ Day(now) \in Nat /\ Day(d.fw.startTime) <= Day(now)
      BY <1>2, Days, DayMonotone
    <3> QED BY <2>1, <3>1, <3>2 DEF NameInv, AdapterInv
  <2> QED BY <2>2, <2>3
<1>7. PastInv(r, runs, msgs)
  BY <1>1 DEF PastInv, AdapterInv
<1> QED BY <1>3, <1>4, <1>5, <1>6, <1>7 DEF AdapterInv

(* What becomes of the lines: an archive that is overwritten carries the   *)
(* stamp of now, and is of the kind of the slicing that overwrites it.     *)
KeptIn(d) == UNION {ToSet(s) : s \in Files(d)}

Overwritten(d, l, kind) ==
    \E a \in DOMAIN d.archives : /\ a[1] = kind
                                 /\ l \in ToSet(d.archives[a].msgs)
                                 /\ Stamp(d.archives[a].made) = Stamp(now)

Safe(d, r, kind) ==
    /\ \A l \in KeptIn(d) : l \in KeptIn(r) \/ Overwritten(d, l, kind)
    /\ \A a \in DOMAIN r.archives :
         a[1] # kind => a \in DOMAIN d.archives /\ r.archives[a] = d.archives[a]

(* What a slicing of some kind makes of an adapter, if it does not leave   *)
(* it alone.                                                               *)
Sliced(d, r, kind) ==
    /\ AdapterInv(r) /\ Safe(d, r, kind)
    /\ \/ r.err = TRUE
       \/ r.err = FALSE /\ r.fw.startTime = now /\ r.fw.startLine = 1

(* Only an archive of the same stamp is overwritten: an archive by date    *)
(* would be of the day of startTime, and there is none of that day.        *)
LEMMA MovesSafe ==
  ASSUME NEW d, NEW r, NEW name, AdapterInv(d), Moves(d, r, name), GoodName(name),
         name[1] = "date" => name[2] = Day(d.fw.startTime)
  PROVE  Safe(d, r, name[1])
<1>1. /\ LinesOf(d) = d.file
      /\ r.archives = Renamed(d, name)
  BY DEF Moves, LinesOf
<1>2. name \in DOMAIN d.archives => Stamp(d.archives[name].made) = Stamp(now)
  <2> SUFFICES ASSUME name \in DOMAIN d.archives
               PROVE  Stamp(d.archives[name].made) = Stamp(now)
    OBVIOUS
  <2>1. CASE name[1] = "date"
    <3>1. name[2] < name[2] /\ name[2] \in Nat
      BY <2>1 DEF AdapterInv, NameInv, Moves
    <3> QED BY <3>1
  <2>2. CASE name[1] # "date"
    BY <2>2 DEF AdapterInv, NameInv, GoodName
  <2> QED BY <2>1, <2>2
<1>3. ASSUME NEW l \in KeptIn(d)
      PROVE  l \in KeptIn(r) \/ Overwritten(d, l, name[1])
  <2>1. PICK s \in Files(d) : l \in ToSet(s)
    BY <1>3 DEF KeptIn
  <2>2. CASE s = LinesOf(d)
    <3>1. name \in DOMAIN r.archives /\ r.archives[name].msgs = s
      BY <1>1, <2>2 DEF Renamed
    <3>2. s \in Files(r)
      BY <3>1 DEF Files
    <3> QED BY <2>1, <3>2 DEF KeptIn
  <2>3. CASE s # LinesOf(d)
    <3>1. PICK a \in DOMAIN d.archives : s = d.archives[a].msgs
      BY <2>3 DEF Files
    <3>2. CASE a = name
      BY <1>2, <2>1, <3>1, <3>2 DEF Overwritten
    <3>3. CASE a # name
      <4>1. a \in DOMAIN r.archives /\ r.archives[a].msgs = s
        BY <1>1, <3>1, <3>3 DEF Renamed
      <4>2. s \in Files(r)
        BY <4>1 DEF Files
      <4> QED BY <2>1, <4>2 DEF KeptIn
    <3> QED BY <3>2, <3>3
  <2> QED BY <2>2, <2>3
<1>4. ASSUME NEW a \in DOMAIN r.archives, a[1] # name[1]
      PROVE  a \in DOMAIN d.archives /\ r.archives[a] = d.archives[a]
  BY <1>1, <1>4 DEF Renamed
<1> QED BY <1>3, <1>4 DEF Safe

(* Nothing is lost where nothing is archived.                              *)
LEMMA SameSafe ==
  ASSUME NEW d, NEW r, NEW kind, r.file = d.file, r.archives = d.archives
  PROVE  Safe(d, r, kind)
BY DEF Safe, KeptIn, Files, LinesOf

(* So Archive keeps the invariants.                                        *)
LEMMA ArchiveKeeps ==
  ASSUME BoundInv, NEW d, NEW name, NEW fault, AdapterInv(d), d.err = FALSE, GoodName(name),
         name[1] = "date" => name[2] = Day(d.fw.startTime)
  PROVE  Sliced(d, Archive(d, name, fault), name[1])
<1> DEFINE r == Archive(d, name, fault)
<1>1. Stays(d, r) \/ Moves(d, r, name)
  BY ArchiveIs DEF AdapterInv, TypeInv
<1> SUFFICES Sliced(d, r, name[1])
  OBVIOUS
<1> HIDE DEF r
<1>2. CASE Stays(d, r)
  <2>1. AdapterInv(r) /\ Safe(d, r, name[1])
    <3>1. r.file = d.file /\ r.archives = d.archives
      BY <1>2 DEF Stays
    <3> QED BY <1>2, <3>1, StaysKeeps, SameSafe
  <2> QED BY <1>2, <2>1 DEF Sliced, Stays
<1>3. CASE Moves(d, r, name)
  <2>1. AdapterInv(r) /\ Safe(d, r, name[1])
    BY <1>3, MovesKeeps, MovesSafe
  <2> QED BY <1>3, <2>1 DEF Sliced, Moves
<1> QED BY <1>1, <1>2, <1>3

-----------------------------------------------------------------------------
(* The slicings.                                                           *)

Chain(d, r, kind) == r = d \/ Sliced(d, r, kind)

(* After slicing by date, startTime is of today.                           *)
LEMMA sliceByDateKeeps ==
  ASSUME BoundInv, NEW d, NEW fault, AdapterInv(d), d.err = FALSE
  PROVE  LET r == sliceByDate(d, fault) IN
         /\ Chain(d, r, "date")
         /\ r.err = FALSE /\ DateSlice # "" => Day(r.fw.startTime) = Day(now)
<1> DEFINE t    == d.fw.startTime
           name == <<"date", Day(t)>>
           q    == Archive(d, name, fault)
<1>0. t \in Nat /\ now \in Nat /\ t <= now
  BY DEF BoundInv, AdapterInv, TypeInv
<1>1. Day(t) \in Nat /\ Day(now) \in Nat /\ Day(t) <= Day(now)
  BY <1>0, Days, DayMonotone
<1>2. CASE DateSlice # "" /\ Day(t) # Day(now)
  <2>0. Day(t) < Day(now)
    <3>1. \A x, y \in Nat : x <= y /\ x # y => x < y
      OBVIOUS
    <3> QED BY <1>1, <1>2, <3>1
  <2>1. name[1] = "date" /\ name[2] = Day(t) /\ GoodName(name)
    BY <1>1, <2>0 DEF GoodName
  <2>2. Sliced(d, q, "date")
    BY <2>1, ArchiveKeeps
  <2>3. q.err = FALSE => q.fw.startTime = now
    BY <2>2 DEF Sliced
  <2>4. sliceByDate(d, fault) = q
    BY <1>2 DEF sliceByDate
  <2> HIDE DEF q
  <2> QED BY <2>2, <2>3, <2>4 DEF Chain
<1>3. CASE ~(DateSlice # "" /\ Day(t) # Day(now))
  BY <1>3 DEF sliceByDate, Chain
<1> QED BY <1>2, <1>3

(* After slicing by lines, there is room for one more.                     *)
LEMMA sliceByLineKeeps ==
  ASSUME BoundInv, NEW d, NEW fault, AdapterInv(d), d.err = FALSE
  PROVE  LET r == sliceByLine(d, fault) IN
         /\ Chain(d, r, "line")
         /\ r.err = FALSE /\ MaxLine > 1 => r.fw.startLine < MaxLine
<1> DEFINE name == <<"line", Stamp(now)>>
           q    == Archive(d, name, fault)
<1>1. MaxLine \in Nat /\ d.fw.startLine \in Nat
  BY FileAssumption DEF AdapterInv, TypeInv
<1>2. CASE MaxLine # 0 /\ d.fw.startLine >= MaxLine
  <2>1. name[1] = "line" /\ GoodName(name)
    BY DEF GoodName
  <2>2. Sliced(d, q, "line")
    BY <2>1, ArchiveKeeps
  <2>3. q.err = FALSE => q.fw.startLine = 1
    BY <2>2 DEF Sliced
  <2>4. sliceByLine(d, fault) = q
    BY <1>2 DEF sliceByLine
  <2> HIDE DEF q
  <2> QED BY <1>1, <2>2, <2>3, <2>4 DEF Chain
<1>3. CASE ~(MaxLine # 0 /\ d.fw.startLine >= MaxLine)
  BY <1>1, <1>3 DEF sliceByLine, Chain
<1> QED BY <1>2, <1>3

(* Slicing by size fails where there is no file.                           *)
LEMMA sliceBySizeKeeps ==
  ASSUME BoundInv, NEW d, NEW fault, AdapterInv(d), d.err = FALSE
  PROVE  Chain(d, sliceBySize(d, fault), "size")
<1> DEFINE name == <<"size", Stamp(now)>>
           q    == Archive(d, name, fault)
           e    == Fails(d)
<1>1. sliceBySize(d, fault) \in {d, e, q}
  BY DEF sliceBySize
<1>2. Sliced(d, e, "size")
  <2>1. /\ IsAdapter(e) /\ e.file = d.file /\ e.archives = d.archives /\ e.fw = d.fw
        /\ e.err = TRUE
    BY DEF Fails, AdapterInv, TypeInv, IsAdapter
  <2> HIDE DEF e
  <2>2. Safe(d, e, "size")
    BY <2>1, SameSafe
  <2>3. LinesOf(e) = LinesOf(d) /\ Files(e) = Files(d)
    BY <2>1 DEF LinesOf, Files
  <2>4. AdapterInv(e)
    BY <2>1, <2>3 DEF AdapterInv, TypeInv, DayInv, LineInv, NameInv, PastInv
  <2> QED BY <2>1, <2>2, <2>4 DEF Sliced
<1>3. Sliced(d, q, "size")
  <2>1. name[1] = "size" /\ GoodName(name)
    BY DEF GoodName
  <2> QED BY <2>1, ArchiveKeeps
<1> HIDE DEF q, e
<1> QED BY <1>1, <1>2, <1>3 DEF Chain

(* The three slicings in a row: where none has failed, startTime is of     *)
(* today and there is room for one more line.                              *)
Ready(d) ==
    /\ AdapterInv(d)
    /\ d.err = FALSE /\ DateSlice # "" => Day(d.fw.startTime) = Day(now)
    /\ d.err = FALSE /\ MaxLine > 1 => d.fw.startLine < MaxLine

(* What is in an archive that is overwritten on the way was there before.  *)
Survives(d, r) ==
    \A l \in KeptIn(d) : l \in KeptIn(r) \/ \E kind \in {"date", "line", "size"} :
                                               Overwritten(d, l, kind)

SlicedBy(fault) ==
    LET date == sliceByDate(Adapter, fault)
        byLine == IF date.err THEN date ELSE sliceByLine(date, fault)
    IN  IF byLine.err THEN byLine ELSE sliceBySize(byLine, fault)

(* An adapter comes out of a slicing with or without an error.             *)
LEMMA ChainErr ==
  ASSUME NEW d, NEW r, NEW kind, Chain(d, r, kind), d.err = FALSE
  PROVE  r.err = FALSE \/ r.err = TRUE
BY DEF Chain, Sliced

(* A slicing that leaves the adapter alone loses nothing.                  *)
LEMMA ChainSafe ==
  ASSUME NEW d, NEW r, NEW kind, Chain(d, r, kind)
  PROVE  Safe(d, r, kind)
BY SameSafe DEF Chain, Sliced

(* Before the line is written, the adapter is ready for it or has failed.  *)
LEMMA SlicedByKeeps ==
  ASSUME IInv, NEW fault
  PROVE  /\ Ready(SlicedBy(fault)) /\ Survives(Adapter, SlicedBy(fault))
         /\ SlicedBy(fault).err \in BOOLEAN
<1> DEFINE d0 == Adapter
           d1 == sliceByDate(d0, fault)
           d2 == IF d1.err THEN d1 ELSE sliceByLine(d1, fault)
           d3 == IF d2.err THEN d2 ELSE sliceBySize(d2, fault)
<1>0. BoundInv /\ AdapterInv(d0) /\ d0.err = FALSE
  BY DEF IInv, Adapter
<1> HIDE DEF d0
<1>1. /\ Chain(d0, d1, "date")
      /\ d1.err = FALSE /\ DateSlice # "" => Day(d1.fw.startTime) = Day(now)
  BY <1>0, sliceByDateKeeps
<1> HIDE DEF d1
<1>2. AdapterInv(d1) /\ (d1.err = FALSE \/ d1.err = TRUE)
  BY <1>0, <1>1, ChainErr DEF Chain, Sliced
<1>3. /\ Chain(d1, d2, "line")
      /\ d1.err = TRUE => d2 = d1
      /\ d2.err = FALSE /\ MaxLine > 1 => d2.fw.startLine < MaxLine
      /\ d2.err = FALSE \/ d2.err = TRUE
  <2>1. CASE d1.err = TRUE
    BY <2>1 DEF Chain
  <2>2. CASE d1.err = FALSE
    BY <1>0, <1>2, <2>2, sliceByLineKeeps, ChainErr
  <2> QED BY <1>2, <2>1, <2>2
<1> HIDE DEF d2
<1>4. AdapterInv(d2)
  BY <1>2, <1>3 DEF Chain, Sliced
<1>5. /\ Chain(d2, d3, "size")
      /\ d2.err = TRUE => d3 = d2
      /\ d3.err = FALSE \/ d3.err = TRUE
  <2>1. CASE d2.err = TRUE
    BY <2>1 DEF Chain
  <2>2. CASE d2.err = FALSE
    BY <1>0, <1>4, <2>2, sliceBySizeKeeps, ChainErr
  <2> QED BY <1>3, <2>1, <2>2
<1> HIDE DEF d3
<1>6. Ready(d3)
  <2>1. AdapterInv(d3)
    BY <1>4, <1>5 DEF Chain, Sliced
  <2>2. d3.err = FALSE => d2.err = FALSE /\ d1.err = FALSE
    BY <1>2, <1>3, <1>5
  <2>5. d3.err = FALSE => d3.fw.startTime = d1.fw.startTime \/ d3.fw.startTime = now
    BY <1>3, <1>5, <2>2 DEF Chain, Sliced
  <2>3. d3.err = FALSE /\ DateSlice # "" => Day(d3.fw.startTime) = Day(now)
    BY <1>1, <2>2, <2>5, Zenon
  <2>4. d3.err = FALSE /\ MaxLine > 1 => d3.fw.startLine < MaxLine
    BY <1>3, <1>5, <2>2 DEF Chain, Sliced
  <2> QED BY <2>1, <2>3, <2>4 DEF Ready
<1>7. Survives(d0, d3)
  <2>1. Safe(d0, d1, "date") /\ Safe(d1, d2, "line") /\ Safe(d2, d3, "size")
    BY <1>1, <1>3, <1>5, ChainSafe
  <2> SUFFICES ASSUME NEW l \in KeptIn(d0), l \notin KeptIn(d3)
               PROVE  \E kind \in {"date", "line", "size"} : Overwritten(d0, l, kind)
    BY DEF Survives
  <2>2. CASE l \notin KeptIn(d1)
    BY <2>1, <2>2 DEF Safe
  <2>3. CASE l \in KeptIn(d1) /\ l \notin KeptIn(d2)
    <3>1. Overwritten(d1, l, "line")
      BY <2>1, <2>3 DEF Safe
    <3>2. Overwritten(d0, l, "line")
      BY <2>1, <3>1 DEF Safe, Overwritten
    <3> QED BY <3>2
  <2>4. CASE l \in KeptIn(d2)
    <3>1. Overwritten(d2, l, "size")
      BY <2>1, <2>4 DEF Safe
    <3>2. Overwritten(d1, l, "size")
      BY <2>1, <3>1 DEF Safe, Overwritten
    <3>3. Overwritten(d0, l, "size")
      BY <2>1, <3>2 DEF Safe, Overwritten
    <3> QED BY <3>3
  <2> QED BY <2>2, <2>3, <2>4
<1>8. SlicedBy(fault) = d3
  BY DEF SlicedBy, d0, d1, d2, d3
<1> QED BY <1>5, <1>6, <1>7, <1>8 DEF d0

-----------------------------------------------------------------------------
(* The steps.                                                              *)

(* The invariants of the adapter, with the message of this call counted.   *)
CallInv(d) ==
    /\ TypeInv(d) /\ DayInv(d, runs) /\ LineInv(d) /\ NameInv(d)
    /\ PastInv(d, runs, msgs + 1)

(* A sequence with one more element.                                       *)
LEMMA AppendFacts ==
  ASSUME NEW S, NEW s \in Seq(S), NEW e \in S
  PROVE  /\ Append(s, e) \in Seq(S) /\ Len(Append(s, e)) = Len(s) + 1
         /\ DOMAIN s = 1 .. Len(s) /\ DOMAIN Append(s, e) = 1 .. Len(s) + 1
         /\ Len(s) \in Nat
         /\ \A i \in DOMAIN Append(s, e) :
              Append(s, e)[i] = IF i \in DOMAIN s THEN s[i] ELSE e
         /\ ToSet(s) \subseteq ToSet(Append(s, e))
<1>1. /\ Append(s, e) \in Seq(S) /\ Len(Append(s, e)) = Len(s) + 1
      /\ DOMAIN s = 1 .. Len(s) /\ DOMAIN Append(s, e) = 1 .. Len(s) + 1
      /\ Len(s) \in Nat
  OBVIOUS
<1>2. \A i \in DOMAIN Append(s, e) :
        Append(s, e)[i] = IF i \in DOMAIN s THEN s[i] ELSE e
  BY <1>1
<1> QED BY <1>1, <1>2 DEF ToSet

(* The next line of a file is a number.                                    *)
LEMMA NextLineIs ==
  ASSUME NEW s \in Seq(Messages)
  PROVE  nextLine(s) \in Nat
<1>1. \A m \in Messages : m.first \in Nat /\ m.lines \in Nat
  BY FileAssumption DEF Messages
<1>2. CASE s = <<>>
  BY <1>2 DEF nextLine
<1>3. CASE s # <<>>
  <2>1. Len(s) \in 1 .. Len(s) /\ Last(s) \in Messages
    BY <1>3 DEF Last
  <2> QED BY <1>1, <1>3, <2>1 DEF nextLine
<1> QED BY <1>2, <1>3

(* The message as it is placed in a file.                                  *)
LEMMA PlacedIs ==
  ASSUME NEW d, d.file \in Seq(Messages), NEW msg \in Messages
  PROVE  LET e == Placed(d, msg) IN
         /\ e \in Messages
         /\ e.n = msg.n /\ e.day = msg.day /\ e.run = msg.run /\ e.lines = msg.lines
         /\ e.first = nextLine(d.file)
         /\ nextLine(Append(d.file, e)) = nextLine(d.file) + msg.lines
<1> DEFINE s == d.file
           e == Placed(d, msg)
<1>3. nextLine(s) \in Nat
  BY NextLineIs
<1>4. e = [msg EXCEPT !.first = nextLine(s)]
  BY DEF Placed
<1> HIDE DEF s, e
<1>5. /\ e \in Messages
      /\ e.n = msg.n /\ e.day = msg.day /\ e.run = msg.run /\ e.lines = msg.lines
      /\ e.first = nextLine(s)
  BY <1>3, <1>4 DEF Messages
<1>6. s \in Seq(Messages)
  BY DEF s
<1>7. Append(s, e) # <<>> /\ Last(Append(s, e)) = e
  BY <1>5, <1>6 DEF Last
<1>8. nextLine(Append(s, e)) = nextLine(s) + msg.lines
  BY <1>5, <1>7 DEF nextLine
<1> QED BY <1>5, <1>8 DEF s, e

(* The message is written on the day of startTime, below the limit.        *)
LEMMA WriteKeeps ==
  ASSUME BoundInv, NEW d, Ready(d), d.err = FALSE, msgs < MaxMsgs,
         NEW msg \in Messages, msg.n = msgs + 1, msg.day = Day(now), msg.run = runs
  PROVE  CallInv(Write(d, msg)) /\ KeptIn(d) \subseteq KeptIn(Write(d, msg))
<1> DEFINE r == Write(d, msg)
           e == IF d.fw.open THEN Placed(d, msg) ELSE msg
<1>0. TypeInv(d) /\ DayInv(d, runs) /\ LineInv(d) /\ NameInv(d) /\ PastInv(d, runs, msgs)
  BY DEF Ready, AdapterInv
<1>1. /\ IsAdapter(r) /\ r.archives = d.archives
      /\ r.file = IF d.fw.open THEN Append(d.file, e) ELSE d.file
      /\ r.fw.startTime = d.fw.startTime /\ r.fw.open = d.fw.open
      /\ r.fw.startLine = IF MaxLine # 0 THEN d.fw.startLine + msg.lines ELSE d.fw.startLine
  BY <1>0 DEF Write, TypeInv, IsAdapter
<1>2. d.fw.open => d.file # NoFile /\ d.file \in Seq(Messages)
  BY <1>0 DEF TypeInv
<1>14. /\ e \in Messages
       /\ e.n = msgs + 1 /\ e.day = Day(now) /\ e.run = runs
       /\ d.fw.open => /\ e.first = nextLine(d.file)
                       /\ nextLine(Append(d.file, e)) = nextLine(d.file) + msg.lines
  BY <1>2, PlacedIs
<1> HIDE DEF r, e
<1>3. r.file # NoFile <=> d.file # NoFile
  <2>1. \A s \in Seq(Messages) : s # NoFile
    BY FileAssumption
  <2>2. d.fw.open => Append(d.file, e) \in Seq(Messages)
    BY <1>2, <1>14, AppendFacts
  <2> QED BY <1>1, <1>2, <2>1, <2>2
<1>4. LinesOf(d) \in Seq(Messages) /\ LinesOf(d) \in Files(d)
  BY <1>0, NoFileIsNone DEF TypeInv, LinesOf, Files
<1> DEFINE more == Append(LinesOf(d), e)
<1>5. LinesOf(r) = IF d.fw.open THEN more ELSE LinesOf(d)
  BY <1>1, <1>2, <1>3 DEF LinesOf
<1>6. /\ more \in Seq(Messages) /\ Len(more) = Len(LinesOf(d)) + 1 /\ Len(LinesOf(d)) \in Nat
      /\ \A i \in DOMAIN more : more[i] = IF i \in DOMAIN LinesOf(d) THEN LinesOf(d)[i] ELSE e
      /\ ToSet(LinesOf(d)) \subseteq ToSet(more)
  BY <1>4, <1>14, AppendFacts
<1> HIDE DEF more
<1>7. \A s \in Files(r) : s \in Files(d) \/ (d.fw.open /\ s = more)
  BY <1>1, <1>5 DEF Files
<1>8. TypeInv(r)
  <2>1. d.fw.startLine \in Nat /\ MaxLine \in Nat /\ msg.lines \in Nat
    BY <1>0, FileAssumption DEF TypeInv, Messages
  <2>2. r.fw.startLine \in Nat
    BY <1>1, <2>1
  <2>3. r.file = NoFile \/ r.file \in Seq(Messages)
    BY <1>0, <1>1, <1>2, <1>14, AppendFacts DEF TypeInv
  <2> QED BY <1>0, <1>1, <1>3, <2>2, <2>3 DEF TypeInv
<1>9. DayInv(r, runs)
  <2> SUFFICES ASSUME DateSlice # ""
               PROVE  /\ \A s \in Files(r) : OneDay(s)
                      /\ \A i \in DOMAIN LinesOf(r) :
                           LinesOf(r)[i].run = runs => LinesOf(r)[i].day = Day(r.fw.startTime)
    BY DEF DayInv
  <2>1. Day(d.fw.startTime) = e.day
    BY <1>14 DEF Ready
  <2>2. \A i \in DOMAIN more : more[i].run = runs => more[i].day = e.day
    BY <1>0, <1>6, <1>14, <2>1 DEF DayInv
  <2>3. OneDay(LinesOf(d))
    BY <1>0, <1>4 DEF DayInv
  <2>4. OneDay(more)
    <3> SUFFICES ASSUME NEW i \in DOMAIN more, NEW j \in DOMAIN more,
                        more[i].run = more[j].run
                 PROVE  more[i].day = more[j].day
      BY DEF OneDay
    <3>1. CASE more[i].run = runs
      BY <2>2, <3>1
    <3>2. CASE more[i].run # runs
      <4>1. more[i] # e /\ more[j] # e
        BY <1>14, <3>2
      <4>2. /\ i \in DOMAIN LinesOf(d) /\ more[i] = LinesOf(d)[i]
            /\ j \in DOMAIN LinesOf(d) /\ more[j] = LinesOf(d)[j]
        BY <1>6, <4>1
      <4> QED BY <2>3, <4>2 DEF OneDay
    <3> QED BY <3>1, <3>2
  <2>5. \A s \in Files(r) : OneDay(s)
    BY <1>0, <1>7, <2>4 DEF DayInv
  <2>6. \A i \in DOMAIN LinesOf(r) :
          LinesOf(r)[i].run = runs => LinesOf(r)[i].day = Day(r.fw.startTime)
    BY <1>0, <1>1, <1>5, <2>1, <2>2 DEF DayInv
  <2> QED BY <2>5, <2>6
<1>10. LineInv(r)
  <2> SUFFICES ASSUME MaxLine > 1
               PROVE  /\ \A s \in Files(r) : \A i \in DOMAIN s : s[i].first < MaxLine
                      /\ r.fw.open => nextLine(r.file) <= r.fw.startLine
    BY DEF LineInv
  <2>1. d.fw.startLine < MaxLine /\ MaxLine \in Nat /\ d.fw.startLine \in Nat
    BY <1>0, FileAssumption DEF Ready, TypeInv
  <2>2. d.fw.open => /\ LinesOf(d) = d.file /\ nextLine(d.file) <= d.fw.startLine
                     /\ nextLine(d.file) \in Nat
    BY <1>0, <1>2, NextLineIs DEF LineInv, LinesOf
  <2>3. d.fw.open => \A i \in DOMAIN more : more[i].first < MaxLine
    <3>1. d.fw.open => e.first < MaxLine
      BY <1>14, <2>1, <2>2
    <3> QED BY <1>0, <1>4, <1>6, <3>1 DEF LineInv
  <2>4. \A s \in Files(r) : \A i \in DOMAIN s : s[i].first < MaxLine
    BY <1>0, <1>7, <2>3 DEF LineInv
  <2>5. msg.lines \in Nat
    BY FileAssumption DEF Messages
  <2>6. MaxLine # 0
    BY <2>1
  <2>7. r.fw.startLine = d.fw.startLine + msg.lines
    BY <1>1, <2>6
  <2>8. r.fw.open => nextLine(r.file) <= r.fw.startLine
    BY <1>1, <1>14, <2>1, <2>2, <2>5, <2>7
  <2> QED BY <2>4, <2>8
<1>11. NameInv(r)
  BY <1>0, <1>1, <1>3 DEF NameInv
<1>12. PastInv(r, runs, msgs + 1)
  <2>1. runs \in Nat /\ msgs \in Nat
    BY DEF BoundInv
  <2>2. \A s \in Files(d) : s \in Seq(Messages)
    BY <1>0, <1>4 DEF Files, TypeInv
  <2>3. \A s \in Files(d) : \A i \in DOMAIN s : s[i] \in Messages
    BY <2>2
  <2>4. \A l \in Messages : l.n \in Nat
    <3>0. MaxMsgs \in Nat
      BY FileAssumption
    <3>1. 1 .. MaxMsgs \subseteq Nat
      BY <3>0
    <3> QED BY <3>1 DEF Messages
  <2>5. \A s \in Files(d) : \A i \in DOMAIN s : s[i].run <= runs /\ s[i].n <= msgs + 1
    BY <1>0, <2>1, <2>3, <2>4 DEF PastInv
  <2>6. \A i \in DOMAIN more : more[i].run <= runs /\ more[i].n <= msgs + 1
    BY <1>4, <1>6, <1>14, <2>1, <2>5
  <2> QED BY <1>7, <2>5, <2>6 DEF PastInv
<1>13. KeptIn(d) \subseteq KeptIn(r)
  <2>1. ASSUME NEW s \in Files(d)
        PROVE  \E q \in Files(r) : ToSet(s) \subseteq ToSet(q)
    <3>1. CASE s = LinesOf(d)
      BY <1>5, <1>6, <3>1 DEF Files
    <3>2. CASE s # LinesOf(d)
      BY <1>1, <2>1, <3>2 DEF Files
    <3> QED BY <3>1, <3>2
  <2> QED BY <2>1 DEF KeptIn
<1> QED BY <1>8, <1>9, <1>10, <1>11, <1>12, <1>13 DEF CallInv, r

(* A call that has failed has written nothing.                             *)
LEMMA CallCounts ==
  ASSUME BoundInv, NEW d, AdapterInv(d)
  PROVE  CallInv(d)
<1>1. TypeInv(d) /\ DayInv(d, runs) /\ LineInv(d) /\ NameInv(d) /\ PastInv(d, runs, msgs)
  BY DEF AdapterInv
<1>2. \A s \in Files(d) : s \in Seq(Messages)
  BY <1>1, NoFileIsNone DEF Files, LinesOf, TypeInv
<1>3. \A s \in Files(d) : \A i \in DOMAIN s : s[i] \in Messages
  BY <1>2
<1>4. \A l \in Messages : l.n \in Nat
  <2>1. MaxMsgs \in Nat
    BY FileAssumption
  <2> QED BY <2>1 DEF Messages
<1>5. msgs \in Nat
  BY DEF BoundInv
<1>6. PastInv(d, runs, msgs + 1)
  BY <1>1, <1>3, <1>4, <1>5 DEF PastInv
<1> QED BY <1>1, <1>6 DEF CallInv

(* The lines that are kept.                                                *)
LEMMA KeptIs == Kept = KeptIn(Adapter)
<1>1. LinesOf(Adapter) = Current
  BY DEF LinesOf, Adapter, Current
<1>2. Files(Adapter) = {Current} \cup {archives[a].msgs : a \in DOMAIN archives}
  BY <1>1 DEF Files, Adapter
<1> QED BY <1>2 DEF Kept, KeptIn, Archived

(* What a call of writeByConfig does.                                      *)
LEMMA writeByConfigKeeps ==
  ASSUME IInv, msgs < MaxMsgs, NEW fault, NEW msg \in Messages,
         msg.n = msgs + 1, msg.day = Day(now), msg.run = runs
  PROVE  LET r == writeByConfig(msg, fault) IN CallInv(r) /\ Survives(Adapter, r)
<1> DEFINE d == SlicedBy(fault)
           r == writeByConfig(msg, fault)
<1>1. r = IF d.err THEN d ELSE Write(d, msg)
  BY DEF SlicedBy, writeByConfig
<1>2. Ready(d) /\ Survives(Adapter, d) /\ d.err \in BOOLEAN
  BY SlicedByKeeps
<1> HIDE DEF d, r
<1>3. SUFFICES CallInv(r) /\ Survives(Adapter, r)
  BY DEF r
<1>4. CASE d.err = TRUE
  <2>1. CallInv(d)
    BY <1>2, CallCounts DEF Ready, IInv
  <2> QED BY <1>1, <1>2, <1>4, <2>1
<1>5. CASE d.err = FALSE
  <2>1. CallInv(Write(d, msg)) /\ KeptIn(d) \subseteq KeptIn(Write(d, msg))
    BY <1>2, <1>5, WriteKeeps DEF IInv
  <2> QED BY <1>1, <1>2, <1>5, <2>1 DEF Survives
<1> QED BY <1>2, <1>4, <1>5

(* A message keeps the invariants, and loses lines only with an archive.   *)
LEMMA writeMsgKeeps ==
  ASSUME IInv, writeMsg
  PROVE  /\ IInv'
         /\ \A l \in Kept \ Kept' : \E kind \in {"date", "line", "size"} :
                                      Overwritten(Adapter, l, kind)
<1>0. MaxMsgs \in Nat /\ MaxTime \in Nat
  BY FileAssumption
<1>1. /\ msgs < MaxMsgs /\ msgs' = msgs + 1 /\ UNCHANGED <<up, now, runs>>
      /\ now \in Nat /\ now <= MaxTime /\ msgs \in Nat /\ MaxMsgs \in Nat /\ MaxTime \in Nat
      /\ runs \in 1 .. MaxRuns
  BY <1>0 DEF writeMsg, IInv, BoundInv
<1>2. PICK fault \in Faults, size \in Sizes, lines \in Newlines :
        Becomes(writeByConfig([n |-> msgs + 1, size |-> size, first |-> 0,
                               lines |-> lines, day |-> Day(now), run |-> runs], fault))
  BY DEF writeMsg
<1>3. PICK msg : msg = [n |-> msgs + 1, size |-> size, first |-> 0,
                       lines |-> lines, day |-> Day(now), run |-> runs]
  OBVIOUS
<1>4. msg \in Messages
  <2>1. msgs + 1 \in 1 .. MaxMsgs
    BY <1>1
  <2>2. Day(now) \in 0 .. MaxTime
    BY <1>1, Days
  <2> QED BY <1>1, <1>3, <2>1, <2>2 DEF Messages
<1>5. msg.n = msgs + 1 /\ msg.day = Day(now) /\ msg.run = runs
  BY <1>3
<1>6. PICK r : r = writeByConfig(msg, fault)
  OBVIOUS
<1>7. CallInv(r) /\ Survives(Adapter, r)
  BY <1>1, <1>4, <1>5, <1>6, writeByConfigKeeps
<1>8. Becomes(r)
  BY <1>2, <1>3, <1>6
<1>9. /\ Adapter'.file = r.file /\ Adapter'.archives = r.archives /\ Adapter'.fw = r.fw
      /\ {"file", "archives", "fw", "err"} \subseteq DOMAIN Adapter'
  BY <1>8 DEF Becomes, Adapter
<1>10. (LinesOf(Adapter))' = LinesOf(r) /\ (Files(Adapter))' = Files(r)
  BY <1>9 DEF LinesOf, Files
<1>11. (TypeInv(Adapter))'
  BY <1>1, <1>7, <1>9 DEF CallInv, TypeInv, IsAdapter
<1>12. (DayInv(Adapter, runs) /\ LineInv(Adapter) /\ NameInv(Adapter))'
  BY <1>1, <1>7, <1>9, <1>10 DEF CallInv, DayInv, LineInv, NameInv
<1>13. (PastInv(Adapter, runs, msgs))'
  BY <1>1, <1>7, <1>10 DEF CallInv, PastInv
<1>14. BoundInv'
  BY <1>1 DEF IInv, BoundInv
<1>15. (KeptIn(Adapter))' = KeptIn(r)
  BY <1>10 DEF KeptIn
<1>16. Kept' = KeptIn(r) /\ Kept = KeptIn(Adapter)
  <2>1. (Kept = KeptIn(Adapter))'
    BY KeptIs, PTL
  <2> QED BY <1>15, <2>1, KeptIs
<1>17. \A l \in Kept \ Kept' : \E kind \in {"date", "line", "size"} :
                                  Overwritten(Adapter, l, kind)
  BY <1>7, <1>16 DEF Survives
<1> QED BY <1>11, <1>12, <1>13, <1>14, <1>17 DEF IInv, AdapterInv

(* A restart finds the lines as they are; none is of the new process yet.  *)
LEMMA RestartKeeps ==
  ASSUME IInv, Restart
  PROVE  IInv' /\ Kept' = Kept
<1> DEFINE zero == [Adapter EXCEPT !.fw = [startLine |-> 0, startTime |-> 0, open |-> FALSE]]
<1>0. MaxRuns \in Nat
  BY FileAssumption
<1>1. /\ runs < MaxRuns /\ runs' = runs + 1 /\ up' = TRUE /\ UNCHANGED <<now, msgs>>
      /\ runs \in Nat /\ now \in Nat /\ runs' \in 1 .. MaxRuns
  BY <1>0 DEF Restart, IInv, BoundInv
<1>2. PICK fault \in Faults : Becomes(initFile(zero, fault))
  BY DEF Restart
<1>3. /\ IsAdapter(zero) /\ zero.file = file /\ zero.archives = archives
      /\ zero.fw.startLine = 0 /\ zero.fw.startTime = 0 /\ zero.fw.open = FALSE
      /\ zero.err = FALSE
  BY DEF Adapter, IsAdapter
<1>4. LinesOf(zero) = LinesOf(Adapter) /\ Files(zero) = Files(Adapter)
  BY <1>3 DEF LinesOf, Files, Adapter
<1>5. PICK r : r = initFile(zero, fault)
  OBVIOUS
<1>6. Inited(zero, r)
  BY <1>3, <1>5, initFileIs
<1> HIDE DEF zero
<1>7. /\ Adapter'.file = r.file /\ Adapter'.archives = r.archives /\ Adapter'.fw = r.fw
      /\ {"file", "archives", "fw", "err"} \subseteq DOMAIN Adapter'
  BY <1>2, <1>5 DEF Becomes, Adapter
<1>8. /\ (LinesOf(Adapter))' = LinesOf(Adapter) /\ (Files(Adapter))' = Files(Adapter)
      /\ r.archives = Adapter.archives
  <2>1. LinesOf(r) = LinesOf(Adapter) /\ r.archives = archives
    BY <1>3, <1>4, <1>6 DEF Inited
  <2>2. Adapter.archives = archives
    BY DEF Adapter
  <2> QED BY <1>7, <2>1, <2>2 DEF LinesOf, Files
<1>9. /\ TypeInv(Adapter) /\ DayInv(Adapter, runs) /\ LineInv(Adapter) /\ NameInv(Adapter)
      /\ PastInv(Adapter, runs, msgs)
  BY DEF IInv, AdapterInv
<1>10. LinesOf(Adapter) \in Seq(Messages) /\ LinesOf(Adapter) \in Files(Adapter)
  BY <1>9, NoFileIsNone DEF TypeInv, LinesOf, Files
<1>11. \A i \in DOMAIN LinesOf(Adapter) :
         LinesOf(Adapter)[i] \in Messages /\ LinesOf(Adapter)[i].run <= runs
  BY <1>9, <1>10 DEF PastInv
<1>12. \A l \in Messages : l.run \in Nat
  BY <1>0 DEF Messages
<1>13. /\ r.file # NoFile => r.file = LinesOf(Adapter) /\ r.fw.startTime = now
       /\ r.file = NoFile => r.fw.startTime = 0 /\ r.fw.startLine = 0
       /\ r.fw.startLine \in {0, nextLine(LinesOf(Adapter))}
  BY <1>3, <1>4, <1>6 DEF Inited
<1>14. /\ r.fw.open \in BOOLEAN /\ {"startLine", "startTime", "open"} \subseteq DOMAIN r.fw
       /\ r.fw.open => r.file # NoFile
  BY <1>6, Zenon DEF Inited, IsAdapter
<1>15. r.fw.open => r.fw.startLine = nextLine(LinesOf(Adapter)) /\ r.file = LinesOf(Adapter)
  BY <1>4, <1>6, <1>13, Zenon DEF Inited
<1>16. nextLine(LinesOf(Adapter)) \in Nat
  BY <1>10, NextLineIs
<1>17. (TypeInv(Adapter))'
  <2>1. r.fw.startLine \in Nat /\ r.fw.startTime \in 0 .. now
    BY <1>1, <1>13, <1>16
  <2>2. r.file = NoFile \/ r.file \in Seq(Messages)
    BY <1>10, <1>13
  <2>3. \A a \in DOMAIN r.archives :
          r.archives[a].msgs \in Seq(Messages) /\ r.archives[a].made \in 0 .. now
    BY <1>8, <1>9 DEF TypeInv
  <2> QED BY <1>1, <1>7, <1>14, <2>1, <2>2, <2>3 DEF TypeInv, IsAdapter
<1>18. (DayInv(Adapter, runs))'
  <2>1. \A i \in DOMAIN LinesOf(Adapter) : LinesOf(Adapter)[i].run # runs + 1
    <3>1. \A x, y \in Nat : x <= y => x # y + 1
      OBVIOUS
    <3> QED BY <1>1, <1>11, <1>12, <3>1
  <2> QED BY <1>1, <1>8, <1>9, <2>1 DEF DayInv
<1>19. (LineInv(Adapter))'
  BY <1>7, <1>8, <1>9, <1>15, <1>16 DEF LineInv
<1>20. (NameInv(Adapter))'
  <2> SUFFICES ASSUME NEW a \in DOMAIN r.archives
               PROVE  /\ a = <<a[1], a[2]>>
                      /\ \/ /\ a[1] = "date" /\ a[2] \in Nat
                            /\ a[2] < Day(r.archives[a].made)
                            /\ r.file # NoFile => a[2] < Day(r.fw.startTime)
                         \/ a[1] \in {"line", "size"} /\ a[2] = Stamp(r.archives[a].made)
    BY <1>7 DEF NameInv
  <2>1. r.archives[a].made \in Nat /\ r.archives[a].made <= now
    BY <1>1, <1>8, <1>9 DEF TypeInv
  <2>2. /\ Day(r.archives[a].made) \in Nat /\ Day(now) \in Nat
        /\ Day(r.archives[a].made) <= Day(now)
    BY <1>1, <2>1, Days, DayMonotone
  <2>3. a[2] \in Nat /\ a[2] < Day(r.archives[a].made) => a[2] < Day(now)
    <3>1. \A x, y, z \in Nat : x < y /\ y <= z => x < z
      OBVIOUS
    <3> QED BY <2>2, <3>1
  <2> QED BY <1>8, <1>9, <1>13, <2>3 DEF NameInv
<1>21. (PastInv(Adapter, runs, msgs))'
  <2>1. \A s \in Files(Adapter) : s \in Seq(Messages)
    BY <1>9, <1>10 DEF Files, TypeInv
  <2>2. \A s \in Files(Adapter) : \A i \in DOMAIN s : s[i] \in Messages
    BY <2>1
  <2> QED BY <1>1, <1>8, <1>9, <1>12, <2>2 DEF PastInv
<1>22. BoundInv'
  BY <1>1 DEF IInv, BoundInv
<1>23. Kept' = Kept
  <2>1. (Kept = KeptIn(Adapter))'
    BY KeptIs, PTL
  <2> QED BY <1>8, <2>1, KeptIs DEF KeptIn
<1> QED BY <1>17, <1>18, <1>19, <1>20, <1>21, <1>22, <1>23 DEF IInv, AdapterInv

(* The other steps touch no file.                                          *)
LEMMA RestKeeps ==
  ASSUME IInv, Flush \/ Tick \/ UNCHANGED vars
  PROVE  IInv' /\ Kept' = Kept
<1>1. UNCHANGED <<file, archives, msgs, runs>>
  BY DEF Flush, Tick, vars
<1>2. /\ (LinesOf(Adapter))' = LinesOf(Adapter) /\ (Files(Adapter))' = Files(Adapter)
  BY <1>1 DEF LinesOf, Files, Adapter
<1>3. /\ TypeInv(Adapter) /\ DayInv(Adapter, runs) /\ LineInv(Adapter) /\ NameInv(Adapter)
      /\ PastInv(Adapter, runs, msgs) /\ BoundInv
  BY DEF IInv, AdapterInv
<1>4. /\ Adapter.file = file /\ Adapter.archives = archives /\ Adapter.fw = fw
      /\ {"file", "archives", "fw", "err"} \subseteq DOMAIN Adapter
      /\ Adapter'.file = file /\ Adapter'.archives = archives /\ Adapter'.fw = fw'
      /\ {"file", "archives", "fw", "err"} \subseteq DOMAIN Adapter'
  BY <1>1 DEF Adapter
<1>5. /\ {"startLine", "startTime", "open"} \subseteq DOMAIN fw
      /\ fw.startLine \in Nat /\ fw.startTime \in 0 .. now /\ fw.open \in BOOLEAN
      /\ fw.open => file # NoFile
  BY <1>3, <1>4 DEF TypeInv, IsAdapter
<1>6. /\ {"startLine", "startTime", "open"} \subseteq DOMAIN fw'
      /\ fw'.startLine = fw.startLine /\ fw'.startTime = fw.startTime
      /\ fw' = fw \/ fw'.open = FALSE
  BY <1>5 DEF Flush, Tick, vars
<1>7. fw'.open \in BOOLEAN /\ (fw'.open => fw.open)
  BY <1>5, <1>6, Zenon
<1>8. MaxTime \in Nat
  BY FileAssumption
<1>9. BoundInv' /\ now \in Nat /\ now' \in Nat /\ now <= now'
  <2>1. up' \in BOOLEAN
    BY <1>3, Zenon DEF BoundInv, Flush, Tick, vars
  <2>2. now' = now \/ (now < MaxTime /\ now' = now + 1)
    BY DEF Flush, Tick, vars
  <2>3. now' \in 0 .. MaxTime /\ now \in Nat /\ now' \in Nat /\ now <= now'
    BY <1>3, <1>8, <2>2 DEF BoundInv
  <2> QED BY <1>1, <1>3, <2>1, <2>3 DEF BoundInv
<1>10. (TypeInv(Adapter))'
  <2>1. \A x \in 0 .. now : x \in 0 .. now'
    BY <1>9
  <2>2. file = NoFile \/ file \in Seq(Messages)
    BY <1>3, <1>4 DEF TypeInv
  <2>3. \A a \in DOMAIN archives : archives[a].msgs \in Seq(Messages) /\ archives[a].made \in 0 .. now'
    BY <1>3, <1>4, <2>1 DEF TypeInv
  <2> QED BY <1>1, <1>4, <1>5, <1>6, <1>7, <2>1, <2>2, <2>3 DEF TypeInv, IsAdapter
<1>11. (DayInv(Adapter, runs))'
  BY <1>1, <1>2, <1>3, <1>4, <1>6 DEF DayInv
<1>12. (LineInv(Adapter))'
  BY <1>2, <1>3, <1>4, <1>6, <1>7 DEF LineInv
<1>13. (NameInv(Adapter))'
  BY <1>3, <1>4, <1>6 DEF NameInv
<1>14. (PastInv(Adapter, runs, msgs))'
  BY <1>1, <1>2, <1>3 DEF PastInv
<1>15. Kept' = Kept
  BY <1>1 DEF Kept, Current, Archived
<1> QED BY <1>9, <1>10, <1>11, <1>12, <1>13, <1>14, <1>15 DEF IInv, AdapterInv

-----------------------------------------------------------------------------
(* The theorems.                                                           *)

(* The first start satisfies the invariants.                               *)
LEMMA InitIInv == Init => IInv
<1> SUFFICES ASSUME Init PROVE IInv
  OBVIOUS
<1>0. MaxTime \in Nat /\ MaxMsgs \in Nat /\ MaxRuns \in Nat /\ MaxRuns > 0 /\ MaxLine \in Nat
  BY FileAssumption
<1>1. BoundInv
  BY <1>0 DEF Init, BoundInv
<1>2. /\ Adapter.file = <<>> /\ DOMAIN Adapter.archives = {} /\ Adapter.fw = fw
      /\ {"file", "archives", "fw", "err"} \subseteq DOMAIN Adapter
      /\ {"startLine", "startTime", "open"} \subseteq DOMAIN fw
      /\ fw.startLine = 1 /\ fw.startTime = 0 /\ fw.open = TRUE
  BY DEF Init, Adapter
<1>3. LinesOf(Adapter) = <<>> /\ Files(Adapter) = {<<>>}
  BY <1>2 DEF LinesOf, Files
<1>4. TypeInv(Adapter)
  <2>1. 0 \in 0 .. now /\ 1 \in Nat
    BY <1>1 DEF BoundInv
  <2>2. fw.open \in BOOLEAN
    BY <1>2
  <2> HIDE DEF Init
  <2> QED BY <1>2, <2>1, <2>2, NoFileIsNone DEF TypeInv, IsAdapter
<1>5. DOMAIN <<>> = {} /\ nextLine(<<>>) = 1
  BY DEF nextLine
<1>6. DayInv(Adapter, runs) /\ PastInv(Adapter, runs, msgs)
  BY <1>3, <1>5 DEF DayInv, PastInv, OneDay
<1>7. LineInv(Adapter)
  BY <1>0, <1>2, <1>3, <1>5 DEF LineInv
<1>8. NameInv(Adapter)
  BY <1>2 DEF NameInv
<1> QED BY <1>1, <1>4, <1>6, <1>7, <1>8 DEF IInv, AdapterInv

(* Every step keeps the invariants, and a line that is no longer kept was  *)
(* in an archive that this step has overwritten.                           *)
LEMMA NextIInv ==
  ASSUME IInv, [Next]_vars
  PROVE  /\ IInv'
         /\ \A l \in Kept \ Kept' : \E kind \in {"date", "line", "size"} :
                                      Overwritten(Adapter, l, kind)
<1>1. CASE writeMsg
  BY <1>1, writeMsgKeeps
<1>2. CASE Restart
  BY <1>2, RestartKeeps
<1>3. CASE Flush \/ Tick \/ UNCHANGED vars
  BY <1>3, RestKeeps
<1> QED BY <1>1, <1>2, <1>3 DEF Next

(* The inductive invariant holds in every state.                           *)
THEOREM IInvHolds == Spec => []IInv
BY InitIInv, NextIInv, PTL DEF Spec

(* The invariants of the runs follow.                                      *)
LEMMA Implied == IInv => TypeOK /\ DaysApart /\ LineLimit
<1> SUFFICES ASSUME IInv PROVE TypeOK /\ DaysApart /\ LineLimit
  OBVIOUS
<1>1. /\ TypeInv(Adapter) /\ DayInv(Adapter, runs) /\ LineInv(Adapter)
      /\ PastInv(Adapter, runs, msgs) /\ BoundInv
  BY DEF IInv, AdapterInv
<1>2. Adapter.file = file /\ Adapter.archives = archives /\ Adapter.fw = fw
  BY DEF Adapter
<1>3. Files(Adapter) = {Current} \cup {archives[a].msgs : a \in DOMAIN archives}
  BY <1>2 DEF Files, LinesOf, Current
<1>4. \A l \in Kept : l.run <= runs /\ l.n <= msgs
  BY <1>1, KeptIs DEF KeptIn, ToSet, PastInv
<1>5. up \in BOOLEAN
  BY <1>1 DEF BoundInv
<1>6. TypeOK
  <2>1. fw.open \in BOOLEAN
    BY <1>1, <1>2 DEF TypeInv
  <2>2. /\ file = NoFile \/ file \in Seq(Messages)
        /\ \A a \in DOMAIN archives :
             archives[a].msgs \in Seq(Messages) /\ archives[a].made \in 0 .. now
        /\ fw.startLine \in Nat /\ fw.startTime \in 0 .. now
    BY <1>1, <1>2 DEF TypeInv
  <2> QED BY <1>4, <1>5, <2>1, <2>2 DEF TypeOK
<1>7. DaysApart
  BY <1>1, <1>3 DEF DayInv, DaysApart, OneDay
<1>8. LineLimit
  BY <1>1, <1>3 DEF LineInv, LineLimit
<1> QED BY <1>6, <1>7, <1>8

(* The types hold in every state.                                          *)
THEOREM TypeCorrect == Spec => []TypeOK
BY IInvHolds, Implied, PTL

(* The lines of two days are never in one file, unless they are of two     *)
(* processes, whichever slicings meet in a call and whichever of its calls *)
(* of the file system fails.                                               *)
THEOREM DaysApartHolds == Spec => []DaysApart
BY IInvHolds, Implied, PTL

(* No message begins at the limit of lines or below it, although the       *)
(* counter is reset only by a slicing that does not fail.                  *)
THEOREM LineLimitHolds == Spec => []LineLimit
BY IInvHolds, Implied, PTL

(* A line leaves the files only with an archive whose stamp is the one of  *)
(* now. Archives by date are never overwritten.                            *)
THEOREM LinesKeptHolds == Spec => LinesKept
<1>1. ASSUME IInv, [Next]_vars
      PROVE  [\A l \in Kept \ Kept' :
                \E a \in DOMAIN archives :
                  l \in Archived(a) /\ Stamp(archives[a].made) = Stamp(now)]_vars
  <2> SUFFICES ASSUME NEW l \in Kept \ Kept'
               PROVE  \E a \in DOMAIN archives :
                        l \in Archived(a) /\ Stamp(archives[a].made) = Stamp(now)
    OBVIOUS
  <2>1. PICK kind \in {"date", "line", "size"} : Overwritten(Adapter, l, kind)
    BY <1>1, NextIInv
  <2>2. Adapter.archives = archives
    BY DEF Adapter
  <2> QED BY <2>1, <2>2 DEF Overwritten, Archived
<1> QED BY <1>1, IInvHolds, PTL DEF Spec, LinesKept
=============================================================================
