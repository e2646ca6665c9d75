---------------------------- MODULE GameFilesProofs ----------------------------
(* Theorems of GameFiles, for every set of games, paths and versions, every *)
(* layout, whatever happens around the code, and every bound.               *)
EXTENDS GameFiles, TLAPS

-----------------------------------------------------------------------------
(* The inductive invariant.  First how the variables fit together. *)

\* Where a game's files may go.
PathsOf(g) == UNION {Layout[g][v] : v \in Versions}

\* Files of one game, at paths of its.
OwnFiles(g, files) == \A p \in Listed(files) : p \in PathsOf(g) /\ files[p].by = g

\* An attempt past its check: what it looked at, it hasn't done all of yet.
Moving(g) == job[g].pc \in {"place", "beside", "swap", "clear", "save"}

Shape(g) ==
  /\ record[g].in \/ record[g] = NoRecord
  /\ OwnFiles(g, record[g].files) /\ OwnFiles(g, job[g].old)
  /\ \A p \in Paths : disk[p].by = g \/ beside[p].by = g => p \in PathsOf(g)
  /\ Moving(g) \/ job[g].pc \in {"fetch", "saved"} => job[g].ver \in Versions
  /\ job[g].pc \in {"place", "swap"} => job[g].todo \cup job[g].placed = Targets(g)
  /\ job[g].pc = "beside" => job[g].todo \subseteq Targets(g) /\ job[g].placed = {}
  /\ job[g].pc \in {"queued", "fetch"} => job[g].placed = {}
  /\ job[g].pc = "place" => ~job[g].update
  /\ job[g].pc \in {"beside", "swap", "clear"} => job[g].update
  /\ ~job[g].update => job[g].old = Empty
  \* The record an update replaces stays as it read it, or goes.
  /\ job[g].pc \in {"fetch", "beside", "swap", "clear", "save"} /\ job[g].update =>
       record[g] = NoRecord \/ record[g].files = job[g].old

Shapes ==
  /\ \A g \in Games : Shape(g)
  /\ chk.pc # "idle" => chk.g \in Games
  /\ del.pc # "idle" => /\ OwnFiles(del.g, del.rec.files)
                        /\ del.todo \subseteq Listed(del.rec.files)
                        /\ del.pc = "check" => del.todo = Listed(del.rec.files)

\* What the user put where something was looked at came after the look.
TargetsLooked(g) ==
  Moving(g) => \A p \in Targets(g) \ Listed(job[g].old) : p \in users /\ disk[p] # NoFile => p \in hit
DeleteLooked ==
  /\ del.pc = "remove" => \A p \in del.todo : p \in users /\ disk[p] # NoFile => p \in hit
  /\ del.pc = "check" => \A p \in del.todo : p \in users /\ disk[p] = del.rec.files[p] => p \in hit
\* A file as its record lists it isn't the user's.
AsPlaced(g) == \A p \in Listed(record[g].files) : disk[p] = record[g].files[p] => p \notin users
LookedAt == (\A g \in Games : TargetsLooked(g) /\ AsPlaced(g)) /\ DeleteLooked

-----------------------------------------------------------------------------
(* Then what holds as long as the backend doesn't stop. *)

Untangled == stops = 0 /\ "tangle" \notin mishaps

\* A first download is of a game without a record; a delete, of a game that isn't in the queue.
ApartFrom ==
  /\ stops = 0 => /\ resumed
                  /\ \A g \in Games :
                       ~job[g].update /\ job[g].pc \in {"queued", "fetch", "place", "save", "failed"} => record[g] = NoRecord
  /\ Untangled => /\ \A g \in deleting : job[g].pc = "none"
                  /\ del.pc # "idle" => record[del.g] \in {del.rec, NoRecord}

\* The files of a game the plugin is to look after.
Mine(g) == {p \in Paths : disk[p].by = g /\ p \notin users}
MineListed(g) ==
  /\ job[g].pc \in {"none", "queued", "fetch", "failed", "beside", "saved"} => Mine(g) \subseteq Listed(record[g].files)
  /\ job[g].pc \in {"place", "save"} => Mine(g) \subseteq job[g].placed
  /\ job[g].pc \in {"swap", "clear"} => Mine(g) \subseteq Listed(record[g].files) \cup job[g].placed
  /\ del.pc = "remove" /\ del.g = g => Mine(g) \subseteq del.todo
\* What is beside its target is what the update under way put there and hasn't swapped.
BesideOwn(g) ==
  /\ \A p \in Paths : beside[p].by = g => \/ job[g].pc = "beside" /\ p \in Targets(g) \ job[g].todo
                                          \/ job[g].pc = "swap" /\ p \in job[g].todo
  /\ job[g].pc = "beside" => \A p \in Targets(g) \ job[g].todo : beside[p] = Staged(g)
  /\ job[g].pc = "swap" => \A p \in job[g].todo : beside[p] = Staged(g)
StraysApart == Untangled /\ mishaps \cap {"moved", "rename"} = {}
Strays == StraysApart => \A g \in Games : Alone(g) => MineListed(g) /\ BesideOwn(g)

\* The files a record lists are whole, but while an update or a delete is at them; and so is what an
\* attempt placed.
Whole(g) ==
  /\ job[g].pc \in {"none", "queued", "fetch", "failed", "place", "beside", "saved"} /\ ~(del.g = g /\ del.pc = "remove") =>
        \A p \in Listed(record[g].files) : disk[p] = record[g].files[p] \/ p \in users
  /\ job[g].pc \in {"place", "swap", "clear", "save"} => \A p \in job[g].placed : disk[p] = Staged(g) \/ p \in users
WholesApart == StraysApart /\ mishaps \cap {"save", "remove"} = {}
Wholes == WholesApart => \A g \in Games : Alone(g) => Whole(g)

Inv == TypeOK /\ Shapes /\ LookedAt /\ ApartFrom /\ Strays /\ Wholes

-----------------------------------------------------------------------------
(* Data. *)

LEMMA Files ==
  /\ NoFile \notin File /\ Empty \in Folder /\ Listed(Empty) = {}
  /\ \A f \in File \cup {NoFile} : f.by \in Games \cup {User, Nobody} /\ (f.by \in Games => f # NoFile)
  /\ \A g \in Games, v \in Versions : [by |-> g, ver |-> v] \in File /\ [by |-> g, ver |-> v] # NoFile
  /\ \A g \in Games, v \in Versions : Layout[g][v] \subseteq PathsOf(g) /\ Layout[g][v] \subseteq Paths
  /\ \A g \in Games : PathsOf(g) \subseteq Paths /\ g # User /\ g # Nobody
  /\ [by |-> User, ver |-> 0] \in File /\ NoFile.by = Nobody /\ User # Nobody
<1>1. NoFile \notin File /\ NoFile.by = Nobody /\ [by |-> User, ver |-> 0] \in File /\ User # Nobody
  BY NamesAssumption, BoundsAssumption DEF NoFile, File
<1>2. Empty \in Folder /\ Listed(Empty) = {}
  BY DEF Empty, Folder, Listed
<1>3. \A g \in Games : g # User /\ g # Nobody
  BY NamesAssumption
<1>4. \A f \in File \cup {NoFile} : f.by \in Games \cup {User, Nobody} /\ (f.by \in Games => f # NoFile)
  BY <1>1, <1>3 DEF File
<1>5. \A g \in Games, v \in Versions : [by |-> g, ver |-> v] \in File /\ [by |-> g, ver |-> v] # NoFile
  BY <1>1, BoundsAssumption DEF File, Versions
<1>6. \A g \in Games, v \in Versions : Layout[g][v] \subseteq PathsOf(g) /\ Layout[g][v] \subseteq Paths
  BY LayoutAssumption DEF PathsOf
<1>7. \A g \in Games : PathsOf(g) \subseteq Paths
  BY <1>6 DEF PathsOf
<1> QED BY <1>1, <1>2, <1>3, <1>4, <1>5, <1>6, <1>7

LEMMA Jobs ==
  /\ NoJob \in Job /\ NoJob.pc = "none" /\ ~NoJob.update /\ NoJob.old = Empty /\ NoJob.todo = {} /\ NoJob.placed = {}
  /\ \A u \in BOOLEAN : /\ Queued(u) \in Job /\ Queued(u).pc = "queued" /\ Queued(u).update = u
                        /\ Queued(u).old = Empty /\ Queued(u).todo = {} /\ Queued(u).placed = {}
  /\ \A j \in Job, w \in Why : /\ Failed(j, w) \in Job /\ Failed(j, w).pc = "failed" /\ Failed(j, w).update = j.update
                               /\ Failed(j, w).old = Empty /\ Failed(j, w).todo = {} /\ Failed(j, w).placed = {}
<1>1. /\ NoJob \in Job /\ NoJob.pc = "none" /\ ~NoJob.update /\ NoJob.old = Empty /\ NoJob.todo = {}
      /\ NoJob.placed = {}
  BY Files, BoundsAssumption DEF NoJob, Job, JobPC, Why
<1> HIDE DEF NoJob
<1>2. \A u \in BOOLEAN : /\ Queued(u) \in Job /\ Queued(u).pc = "queued" /\ Queued(u).update = u
                         /\ Queued(u).old = Empty /\ Queued(u).todo = {} /\ Queued(u).placed = {}
  BY <1>1 DEF Queued, Job, JobPC
<1>3. ASSUME NEW j \in Job, NEW w \in Why
      PROVE  /\ Failed(j, w) \in Job /\ Failed(j, w).pc = "failed" /\ Failed(j, w).update = j.update
             /\ Failed(j, w).old = Empty /\ Failed(j, w).todo = {} /\ Failed(j, w).placed = {}
  BY <1>1 DEF Failed, Job, JobPC
<1> QED BY <1>1, <1>2, <1>3

LEMMA Records ==
  /\ NoRecord \in Record /\ ~NoRecord.in /\ NoRecord.files = Empty /\ Listed(NoRecord.files) = {}
  /\ NoRow \in Row /\ DelIdle \in Del /\ DelIdle.pc = "idle" /\ ChkIdle \in Chk /\ ChkIdle.pc = "idle"
<1>1. NoRecord \in Record /\ ~NoRecord.in /\ NoRecord.files = Empty
  BY Files, BoundsAssumption DEF NoRecord, Record
<1> HIDE DEF NoRecord
<1>2. NoRow \in Row
  BY DEF NoRow, Row, Why
<1>3. DelIdle \in Del /\ DelIdle.pc = "idle" /\ ChkIdle \in Chk /\ ChkIdle.pc = "idle"
  BY <1>1 DEF DelIdle, Del, ChkIdle, Chk
<1> QED BY <1>1, <1>2, <1>3, Files
-----------------------------------------------------------------------------
(* A step of one game's attempt, and of nothing else but the files it has to do with. *)

LEMMA TypedPaths ==
  ASSUME TypeOK, Shapes, NEW g \in Games
  PROVE  /\ Moving(g) \/ job[g].pc \in {"fetch", "saved"} => Targets(g) \subseteq PathsOf(g)
         /\ job[g].pc \in {"place", "swap", "clear", "save"} => job[g].placed \subseteq Targets(g)
         /\ Listed(record[g].files) \subseteq PathsOf(g) /\ Listed(job[g].old) \subseteq PathsOf(g)
<1>1. Shape(g)
  BY DEF Shapes
<1>2. Moving(g) \/ job[g].pc \in {"fetch", "saved"} => Targets(g) \subseteq PathsOf(g)
  BY <1>1, Files DEF Shape, Targets
<1>3. job[g].pc \in {"place", "swap", "clear", "save"} => job[g].placed \subseteq Targets(g)
  BY <1>1 DEF Shape, TypeOK
<1>4. Listed(record[g].files) \subseteq PathsOf(g) /\ Listed(job[g].old) \subseteq PathsOf(g)
  BY <1>1 DEF Shape, OwnFiles
<1> QED BY <1>2, <1>3, <1>4

\* Nothing becomes the user's, and a file that comes is the game's or was beside its target.
OwnFilesChange(g) ==
  /\ \A p \in Paths :
       \/ disk'[p] = disk[p] /\ (p \in users' <=> p \in users)
       \/ p \in PathsOf(g) /\ disk'[p] = NoFile /\ (p \in users' <=> p \in users)
       \/ p \in PathsOf(g) /\ p \notin users' /\ disk'[p].by \in {g, beside[p].by}
  /\ \A p \in Paths : beside'[p] = beside[p] \/ (p \in PathsOf(g) /\ beside'[p].by \in {g, Nobody})

\* What the step is to show of the game itself.
OwnInv(g) ==
  /\ Shape(g)' /\ TargetsLooked(g)' /\ AsPlaced(g)'
  /\ stops = 0 /\ ~job'[g].update /\ job'[g].pc \in {"queued", "fetch", "place", "save", "failed"} => record'[g] = NoRecord
  /\ StraysApart' /\ Alone(g) => MineListed(g)' /\ BesideOwn(g)'
  /\ WholesApart' /\ Alone(g) => Whole(g)'

LEMMA Others ==
  ASSUME Inv, NEW g \in Games, NEW h \in Games, h # g, OwnFilesChange(g), job'[h] = job[h], record'[h] = record[h],
         UNCHANGED <<hit, del>>
  PROVE  /\ Shape(h)' /\ TargetsLooked(h)' /\ AsPlaced(h)'
         /\ Alone(h) /\ MineListed(h) => MineListed(h)'
         /\ Alone(h) /\ BesideOwn(h) => BesideOwn(h)'
         /\ Alone(h) /\ Whole(h) => Whole(h)'
<1>1. /\ TypeOK /\ Shape(h) /\ TargetsLooked(h) /\ AsPlaced(h) /\ Targets(h)' = Targets(h) /\ Staged(h)' = Staged(h)
      /\ g # Nobody /\ h # Nobody /\ PathsOf(g) \subseteq Paths /\ PathsOf(h) \subseteq Paths /\ NoFile.by = Nobody
  BY Files DEF Inv, Shapes, LookedAt, Targets, Staged
<1>2. \A p \in Paths : /\ disk'[p].by = h => disk[p].by = h \/ beside[p].by = h
                       /\ beside'[p].by = h => beside'[p] = beside[p]
  BY <1>1 DEF OwnFilesChange
<1>3. Shape(h)'
  BY <1>1, <1>2 DEF Shape, Moving
<1>4. \A p \in Paths : p \in users' /\ disk'[p] # NoFile => p \in users /\ disk'[p] = disk[p]
  BY DEF OwnFilesChange
<1>5. TargetsLooked(h)' /\ AsPlaced(h)'
  <2>1. Moving(h) => Targets(h) \subseteq Paths
    BY <1>1, TypedPaths DEF Inv
  <2>2. TargetsLooked(h)'
    BY <1>1, <1>4, <2>1 DEF TargetsLooked, Moving
  <2>3. AsPlaced(h)'
    BY <1>1, <1>4 DEF AsPlaced, Listed
  <2> QED BY <2>2, <2>3
<1>6. Alone(h) => PathsOf(g) \cap PathsOf(h) = {}
  BY DEF Alone, PathsOf
<1>7. Alone(h) => \A p \in PathsOf(h) : disk'[p] = disk[p] /\ (p \in users' <=> p \in users) /\ beside'[p] = beside[p]
  BY <1>1, <1>6 DEF OwnFilesChange
<1>8. Alone(h) => Mine(h)' \subseteq Mine(h)
  BY <1>1, <1>2, <1>7 DEF Mine, Shape
<1>9. Alone(h) /\ MineListed(h) => MineListed(h)'
  BY <1>8 DEF MineListed
<1>10. Alone(h) /\ BesideOwn(h) => BesideOwn(h)'
  <2>1. SUFFICES ASSUME Alone(h), BesideOwn(h) PROVE BesideOwn(h)'
    OBVIOUS
  <2>2. \A p \in Paths : beside'[p].by = h => beside[p].by = h
    BY <1>2
  <2>3. /\ job[h].pc = "beside" => Targets(h) \ job[h].todo \subseteq PathsOf(h)
        /\ job[h].pc = "swap" => job[h].todo \subseteq PathsOf(h)
    BY <1>1, TypedPaths DEF Inv, Moving, Shape
  <2> QED BY <1>1, <1>7, <2>1, <2>2, <2>3 DEF BesideOwn
<1>11. Alone(h) /\ Whole(h) => Whole(h)'
  <2>1. SUFFICES ASSUME Alone(h), Whole(h) PROVE Whole(h)'
    OBVIOUS
  <2>2. /\ Listed(record[h].files) \subseteq PathsOf(h)
        /\ job[h].pc \in {"place", "swap", "clear", "save"} => job[h].placed \subseteq PathsOf(h)
    BY <1>1, TypedPaths DEF Inv, Moving
  <2> QED BY <1>1, <1>7, <2>1, <2>2 DEF Whole
<1> QED BY <1>3, <1>5, <1>9, <1>10, <1>11

LEMMA ByJob ==
  ASSUME Inv, TypeOK', NEW g \in Games, \A h \in Games \ {g} : job'[h] = job[h] /\ record'[h] = record[h],
         UNCHANGED <<hit, deleting, del, chk, resumed, stops>>, mishaps \subseteq mishaps', OwnFilesChange(g),
         job[g].pc # "none" \/ (record'[g] = record[g] /\ (Untangled' /\ g \in deleting => job'[g].pc = "none")),
         OwnInv(g)
  PROVE  Inv'
<1>1. /\ TypeOK /\ Shapes /\ LookedAt /\ ApartFrom
      /\ StraysApart' => StraysApart
      /\ WholesApart' => WholesApart
      /\ Untangled' => Untangled
  BY DEF Inv, Untangled, StraysApart, WholesApart
<1>2. \A h \in Games : Shape(h)' /\ TargetsLooked(h)' /\ AsPlaced(h)'
  BY Others DEF OwnInv
<1>3. Shapes'
  BY <1>1, <1>2 DEF Shapes, OwnFiles
<1>4. \A p \in Paths : p \in users' /\ disk'[p] # NoFile => p \in users /\ disk'[p] = disk[p]
  BY DEF OwnFilesChange
<1>5. DeleteLooked'
  <2>1. del.pc # "idle" => del.todo \subseteq Paths /\ \A p \in del.todo : del.rec.files[p] # NoFile
    BY <1>1 DEF Shapes, Listed
  <2>2. DeleteLooked
    BY <1>1 DEF LookedAt
  <2>3. del'.pc = "remove" => \A p \in del'.todo : p \in users' /\ disk'[p] # NoFile => p \in hit'
    BY <1>4, <2>1, <2>2 DEF DeleteLooked
  <2>4. del'.pc = "check" => \A p \in del'.todo : p \in users' /\ disk'[p] = del'.rec.files[p] => p \in hit'
    BY <1>4, <2>1, <2>2 DEF DeleteLooked
  <2> QED BY <2>3, <2>4 DEF DeleteLooked
<1>6. LookedAt'
  BY <1>2, <1>5 DEF LookedAt
<1>7. ApartFrom'
  <2>1. stops' = 0 => /\ resumed'
                      /\ \A h \in Games : ~job'[h].update /\ job'[h].pc \in {"queued", "fetch", "place", "save", "failed"} =>
                           record'[h] = NoRecord
    BY <1>1 DEF ApartFrom, OwnInv
  <2>2. Untangled' => \A h \in deleting' : job'[h].pc = "none"
    BY <1>1 DEF ApartFrom, TypeOK
  <2>3. Untangled' /\ del'.pc # "idle" => record'[del'.g] \in {del'.rec, NoRecord}
    BY <1>1 DEF ApartFrom, TypeOK
  <2> QED BY <2>1, <2>2, <2>3 DEF ApartFrom
<1>8. Strays'
  <2> SUFFICES ASSUME StraysApart', NEW h \in Games, Alone(h) PROVE MineListed(h)' /\ BesideOwn(h)'
    BY DEF Strays, Alone
  <2>1. MineListed(h) /\ BesideOwn(h)
    BY <1>1 DEF Inv, Strays
  <2> QED BY <2>1, Others DEF OwnInv
<1>9. Wholes'
  <2> SUFFICES ASSUME WholesApart', NEW h \in Games, Alone(h) PROVE Whole(h)'
    BY DEF Wholes, Alone
  <2>1. Whole(h)
    BY <1>1 DEF Inv, Wholes
  <2> QED BY <2>1, Others DEF OwnInv
<1> QED BY <1>3, <1>6, <1>7, <1>8, <1>9 DEF Inv
\* An attempt that moves nothing, before or after.
LEMMA Calm ==
  ASSUME Inv, TypeOK', NEW g \in Games, NEW j \in Job, job' = [job EXCEPT ![g] = j],
         UNCHANGED <<disk, beside, record, users, hit, deleting, del, chk, resumed, stops>>, mishaps \subseteq mishaps',
         job[g].pc \in {"none", "queued", "fetch", "failed", "saved"}, j.pc \in {"none", "queued", "fetch", "failed"},
         job[g].pc = "none" => (Untangled' /\ g \in deleting => j.pc = "none"),
         OwnFiles(g, j.old), ~j.update => j.old = Empty,
         j.pc \in {"queued", "fetch"} => j.placed = {},
         j.pc = "fetch" => /\ j.ver \in Versions
                           /\ j.update => record[g] = NoRecord \/ record[g].files = j.old,
         stops = 0 /\ ~j.update /\ j.pc \in {"queued", "fetch", "failed"} => record[g] = NoRecord
  PROVE  Inv'
<1>1. TypeOK /\ Shape(g) /\ AsPlaced(g) /\ job'[g] = j /\ \A h \in Games \ {g} : job'[h] = job[h]
  BY DEF Inv, Shapes, LookedAt, TypeOK
<1>2. ~Moving(g) /\ ~Moving(g)'
  BY <1>1 DEF Moving
<1>3. OwnFilesChange(g)
  BY DEF OwnFilesChange
<1>4. Shape(g)'
  BY <1>1, <1>2 DEF Shape, OwnFiles
<1>5. TargetsLooked(g)' /\ AsPlaced(g)'
  BY <1>1, <1>2 DEF TargetsLooked, AsPlaced
<1>6. StraysApart' => StraysApart
  BY DEF StraysApart, Untangled
<1>7. StraysApart' /\ Alone(g) => MineListed(g)' /\ BesideOwn(g)'
  <2> SUFFICES ASSUME StraysApart', Alone(g) PROVE MineListed(g)' /\ BesideOwn(g)'
    OBVIOUS
  <2>1. MineListed(g) /\ BesideOwn(g)
    BY <1>6 DEF Inv, Strays
  <2>2. MineListed(g)'
    BY <1>1, <2>1 DEF MineListed, Mine
  <2>3. BesideOwn(g)'
    BY <1>1, <2>1 DEF BesideOwn
  <2> QED BY <2>2, <2>3
<1>8. WholesApart' /\ Alone(g) => Whole(g)'
  <2> SUFFICES ASSUME WholesApart', Alone(g) PROVE Whole(g)'
    OBVIOUS
  <2>1. Whole(g)
    BY <1>6 DEF Inv, Wholes, WholesApart
  <2> QED BY <1>1, <2>1 DEF Whole
<1>9. OwnInv(g)
  BY <1>1, <1>4, <1>5, <1>7, <1>8 DEF OwnInv
<1> QED BY <1>1, <1>3, <1>9, ByJob

LEMMA QueueStep == ASSUME Inv, NEW g \in Games, Queue(g) PROVE Inv'
<1> USE DEF store, world
<1> DEFINE update == IF job[g].pc = "failed" THEN job[g].update ELSE record[g].in
           j == Queued(update)
<1>1. /\ TypeOK /\ Shape(g) /\ ApartFrom /\ update \in BOOLEAN /\ job \in [Games -> Job] /\ row \in [Games -> Row]
  BY DEF Inv, Shapes, TypeOK, Job, Record
<1>2. /\ UNCHANGED <<disk, beside, record, offered, deleting, del, chk, resumed, latest, users, hit, edits, stops>>
      /\ job[g].pc \in {"none", "failed"} /\ job' = [job EXCEPT ![g] = j]
      /\ row' = [row EXCEPT ![g] = [in |-> TRUE, update |-> update, why |-> "none"]]
      /\ IF g \in deleting THEN mishaps' = mishaps \cup {"tangle"} ELSE mishaps' = mishaps
  BY DEF Queue
<1>3. j \in Job /\ j.pc = "queued" /\ j.update = update /\ j.old = Empty /\ j.todo = {} /\ j.placed = {}
  BY <1>1, Jobs
<1>4. row' \in [Games -> Row]
  BY <1>1, <1>2 DEF Row, Why
<1>5. stops = 0 /\ ~update => record[g] = NoRecord
  BY <1>1, <1>2 DEF ApartFrom, Shape
<1> HIDE DEF j, update
<1>6. TypeOK'
  BY <1>1, <1>2, <1>3, <1>4 DEF TypeOK, Targets
<1>7. OwnFiles(g, j.old) /\ mishaps \subseteq mishaps' /\ (Untangled' => g \notin deleting)
  BY <1>2, <1>3, Files DEF OwnFiles, Untangled
<1> QED BY <1>2, <1>3, <1>5, <1>6, <1>7, Calm

\* Its attempt is over: it leaves the queue, or stays in it failed.
LEMMA LeavesCalm ==
  ASSUME Inv, NEW g \in Games, NEW j \in Job, NEW w \in Why, j = NoJob \/ j = Failed(job[g], w),
         job' = [job EXCEPT ![g] = j], row' \in [Games -> Row],
         UNCHANGED <<disk, beside, record, offered, deleting, del, chk, resumed, latest, users, hit, edits, stops>>,
         mishaps \subseteq mishaps', mishaps' \subseteq Env \cup {"tangle"},
         job[g].pc \in {"queued", "fetch", "failed", "saved"}, job[g].pc = "saved" => j = NoJob
  PROVE  Inv'
<1>1. TypeOK /\ Shape(g) /\ ApartFrom /\ job \in [Games -> Job] /\ job[g] \in Job
  BY DEF Inv, Shapes, TypeOK
<1>2. /\ j.pc \in {"none", "failed"} /\ j.old = Empty /\ j.todo = {} /\ j.placed = {}
      /\ j.pc = "failed" => j.update = job[g].update /\ job[g].pc # "saved"
  BY <1>1, Jobs
<1>3. TypeOK'
  BY <1>1, <1>2 DEF TypeOK, Targets
<1>4. OwnFiles(g, j.old)
  BY <1>2, Files DEF OwnFiles
<1>5. stops = 0 /\ ~j.update /\ j.pc = "failed" => record[g] = NoRecord
  BY <1>1, <1>2 DEF ApartFrom
<1> QED BY <1>2, <1>3, <1>4, <1>5, Calm

LEMMA CalmSteps == ASSUME Inv, NEW g \in Games, Cancel(g) \/ FetchFails(g) \/ Installed(g) PROVE Inv'
<1> USE DEF store, world
<1>1. TypeOK /\ job \in [Games -> Job] /\ row \in [Games -> Row] /\ job[g] \in Job /\ mishaps \subseteq Env \cup {"tangle"}
  BY DEF Inv, TypeOK
<1>2. CASE Cancel(g) \/ Installed(g)
  <2>1. /\ UNCHANGED <<disk, beside, record, offered, deleting, del, chk, resumed, latest, users, hit, edits, stops,
                       mishaps>>
        /\ job' = [job EXCEPT ![g] = NoJob] /\ row' = [row EXCEPT ![g] = NoRow]
        /\ job[g].pc \in {"queued", "fetch", "failed", "saved"}
    BY <1>2 DEF Cancel, Installed
  <2>2. row' \in [Games -> Row] /\ NoJob \in Job /\ "none" \in Why
    BY <1>1, <2>1, Jobs, Records DEF Why
  <2> QED BY <1>1, <2>1, <2>2, LeavesCalm
<1>3. CASE FetchFails(g)
  <2>1. /\ UNCHANGED <<disk, beside, record, offered, deleting, del, chk, resumed, latest, users, hit, edits, stops>>
        /\ job' = [job EXCEPT ![g] = Failed(job[g], "error")] /\ row' = [row EXCEPT ![g].why = "error"]
        /\ job[g].pc \in {"queued", "fetch"} /\ mishaps' = mishaps \cup {"fetch"} /\ "fetch" \in Env
    BY <1>1, <1>3 DEF FetchFails, Fails, Fault
  <2>2. "error" \in Why /\ Failed(job[g], "error") \in Job
    BY <1>1, Jobs DEF Why
  <2>3. row' \in [Games -> Row]
    BY <1>1, <2>1, <2>2 DEF Row
  <2>4. mishaps \subseteq mishaps' /\ mishaps' \subseteq Env \cup {"tangle"}
    BY <1>1, <2>1
  <2> QED BY <2>1, <2>2, <2>3, <2>4, LeavesCalm
<1> QED BY <1>2, <1>3

LEMMA StartStep == ASSUME Inv, NEW g \in Games, Start(g) PROVE Inv'
<1> USE DEF store, world
<1> DEFINE files == IF job[g].update THEN record[g].files ELSE Empty
           j == [job[g] EXCEPT !.pc = "fetch", !.ver = latest[g], !.old = files]
<1>1. /\ TypeOK /\ Shape(g) /\ ApartFrom /\ job \in [Games -> Job] /\ row \in [Games -> Row] /\ job[g] \in Job
      /\ mishaps \subseteq Env \cup {"tangle"} /\ latest[g] \in Versions /\ record[g] \in Record
  BY DEF Inv, Shapes, TypeOK
<1>2. /\ UNCHANGED <<disk, beside, record, offered, deleting, del, chk, resumed, latest, users, hit, edits, stops,
                     mishaps>>
      /\ job[g].pc = "queued"
      /\ \/ job' = [job EXCEPT ![g].pc = "fetch", ![g].ver = latest[g], ![g].old = files] /\ row' = row
         \/ \E w \in {"error", "exists"} : job' = [job EXCEPT ![g] = Failed(@, w)] /\ row' = [row EXCEPT ![g].why = w]
  BY DEF Start, Fails
<1>3. CASE job' = [job EXCEPT ![g].pc = "fetch", ![g].ver = latest[g], ![g].old = files] /\ row' = row
  <2>1. job' = [job EXCEPT ![g] = j]
    BY <1>1, <1>3
  <2>2. files \in Folder /\ OwnFiles(g, files) /\ latest[g] \in 0 .. MaxVer
    BY <1>1, Files, BoundsAssumption DEF Record, Shape, OwnFiles, Versions
  <2>3. (job[g].update => files = record[g].files) /\ (~job[g].update => files = Empty)
    OBVIOUS
  <2> HIDE DEF files
  <2>4. /\ j \in Job /\ j.pc = "fetch" /\ j.ver = latest[g] /\ j.old = files /\ j.update = job[g].update
        /\ j.placed = job[g].placed /\ j.todo = job[g].todo
    BY <1>1, <2>2 DEF Job, JobPC
  <2> HIDE DEF j
  <2>5. j.todo \cap j.placed = {} /\ j.placed = {}
    BY <1>1, <1>2, <2>4 DEF TypeOK, Shape
  <2>6. job' \in [Games -> Job] /\ \A h \in Games : job'[h] = IF h = g THEN j ELSE job[h]
    BY <1>1, <2>1, <2>4
  <2>7. TypeOK'
    BY <1>1, <1>2, <1>3, <2>4, <2>5, <2>6 DEF TypeOK, Targets
  <2>8. /\ j.update => record[g] = NoRecord \/ record[g].files = j.old
        /\ stops = 0 /\ ~j.update => record[g] = NoRecord
        /\ ~j.update => j.old = Empty
    BY <1>1, <1>2, <2>3, <2>4 DEF ApartFrom
  <2> QED BY <1>1, <1>2, <2>1, <2>2, <2>4, <2>5, <2>7, <2>8, Calm
<1>4. ASSUME NEW w \in {"error", "exists"}, job' = [job EXCEPT ![g] = Failed(@, w)], row' = [row EXCEPT ![g].why = w]
      PROVE  Inv'
  <2>1. w \in Why /\ Failed(job[g], w) \in Job /\ job' = [job EXCEPT ![g] = Failed(job[g], w)]
    BY <1>1, <1>4, Jobs DEF Why
  <2>2. row' \in [Games -> Row]
    BY <1>1, <1>4, <2>1 DEF Row
  <2> QED BY <1>1, <1>2, <2>1, <2>2, LeavesCalm
<1> QED BY <1>2, <1>3, <1>4
-----------------------------------------------------------------------------
(* An attempt that moves files. *)

LEMMA TypedStep ==
  ASSUME TypeOK, NEW g \in Games, NEW j \in Job, job' = [job EXCEPT ![g] = j], j.todo \cap j.placed = {},
         j.pc \in {"clear", "save", "saved"} => j.placed = Layout[g][j.ver],
         disk' \in Folder, beside' \in Folder, row' \in [Games -> Row], record' \in [Games -> Record],
         offered' \subseteq Games, users' \subseteq users, mishaps' \subseteq Env \cup {"tangle"},
         UNCHANGED <<deleting, del, chk, resumed, latest, hit, edits, stops>>
  PROVE  TypeOK' /\ job'[g] = j /\ \A h \in Games \ {g} : job'[h] = job[h]
<1>1. job' \in [Games -> Job] /\ \A h \in Games : job'[h] = IF h = g THEN j ELSE job[h]
  BY DEF TypeOK
<1>2. TypeOK'
  BY <1>1 DEF TypeOK, Targets
<1> QED BY <1>1, <1>2

LEMMA OwnOn ==
  ASSUME Inv, NEW g \in Games, OwnFilesChange(g), job[g].pc # "none", mishaps \subseteq mishaps', stops' = stops
  PROVE  /\ \A p \in Paths : disk'[p].by = g \/ beside'[p].by = g => p \in PathsOf(g)
         /\ record'[g] = record[g] => AsPlaced(g)'
         /\ StraysApart' => StraysApart /\ ~(del.pc = "remove" /\ del.g = g)
         /\ WholesApart' => WholesApart
<1>1. /\ TypeOK /\ Shape(g) /\ AsPlaced(g) /\ ApartFrom /\ g # Nobody
  BY Files DEF Inv, Shapes, LookedAt
<1>2. \A p \in Paths : disk'[p].by = g \/ beside'[p].by = g => p \in PathsOf(g)
  BY <1>1, Files DEF OwnFilesChange, Shape
<1>3. record'[g] = record[g] => AsPlaced(g)'
  BY <1>1 DEF AsPlaced, OwnFilesChange, Listed
<1>4. (StraysApart' => StraysApart) /\ (WholesApart' => WholesApart)
  BY DEF StraysApart, WholesApart, Untangled
<1>5. StraysApart => ~(del.pc = "remove" /\ del.g = g)
  BY <1>1 DEF StraysApart, ApartFrom, TypeOK
<1> QED BY <1>2, <1>3, <1>4, <1>5

\* An attempt that fails once it moved something.
LEMMA FailsStep ==
  ASSUME Inv, NEW g \in Games, NEW w \in Why, Moving(g), job' = [job EXCEPT ![g] = Failed(job[g], w)],
         row' = [row EXCEPT ![g].why = w], disk' \in Folder, beside' \in Folder, users' \subseteq users,
         UNCHANGED <<record, offered, deleting, del, chk, resumed, latest, hit, edits, stops>>,
         mishaps \subseteq mishaps', mishaps' \subseteq Env \cup {"tangle"}, OwnFilesChange(g),
         StraysApart' /\ Alone(g) => Mine(g)' \subseteq Listed(record[g].files) /\ \A p \in Paths : beside'[p].by # g,
         WholesApart' /\ Alone(g) => \A p \in Listed(record[g].files) : disk'[p] = record[g].files[p] \/ p \in users'
  PROVE  Inv'
<1> DEFINE j == Failed(job[g], w)
<1>1. TypeOK /\ Shape(g) /\ ApartFrom /\ job[g] \in Job /\ row \in [Games -> Row]
  BY DEF Inv, Shapes, TypeOK
<1>2. j \in Job /\ j.pc = "failed" /\ j.update = job[g].update /\ j.old = Empty /\ j.todo = {} /\ j.placed = {}
  BY <1>1, Jobs
<1>3. row' \in [Games -> Row] /\ job' = [job EXCEPT ![g] = j]
  BY <1>1 DEF Row
<1> HIDE DEF j
<1>4. TypeOK' /\ job'[g] = j /\ \A h \in Games \ {g} : job'[h] = job[h]
  <2>1. record' \in [Games -> Record] /\ offered' \subseteq Games
    BY <1>1 DEF TypeOK
  <2>2. j.todo \cap j.placed = {} /\ j.pc \notin {"clear", "save", "saved"}
    BY <1>2
  <2> QED BY <1>1, <1>2, <1>3, <2>1, <2>2, TypedStep
<1>5. /\ job[g].pc # "none"
      /\ stops = 0 /\ ~j.update => record[g] = NoRecord
  BY <1>1, <1>2 DEF Moving, ApartFrom, Shape
<1>6. /\ \A p \in Paths : disk'[p].by = g \/ beside'[p].by = g => p \in PathsOf(g)
      /\ AsPlaced(g)'
      /\ StraysApart' => ~(del.pc = "remove" /\ del.g = g)
  BY <1>5, OwnOn
<1>7. Shape(g)' /\ TargetsLooked(g)'
  BY <1>1, <1>2, <1>4, <1>6, Files DEF Shape, Moving, OwnFiles, TargetsLooked
<1>8. StraysApart' /\ Alone(g) => MineListed(g)' /\ BesideOwn(g)'
  BY <1>2, <1>4, <1>6 DEF MineListed, BesideOwn
<1>9. WholesApart' /\ Alone(g) => Whole(g)'
  BY <1>2, <1>4 DEF Whole
<1>10. OwnInv(g)
  BY <1>2, <1>4, <1>5, <1>6, <1>7, <1>8, <1>9 DEF OwnInv
<1> QED BY <1>4, <1>5, <1>10, ByJob

LEMMA CheckStep == ASSUME Inv, NEW g \in Games, Check(g) PROVE Inv'
<1> USE DEF store, world
<1>1. /\ TypeOK /\ Shape(g) /\ AsPlaced(g) /\ ApartFrom /\ job \in [Games -> Job] /\ row \in [Games -> Row]
      /\ job[g] \in Job /\ mishaps \subseteq Env \cup {"tangle"} /\ job[g].pc = "fetch" /\ job[g].placed = {}
      /\ job[g].ver \in Versions /\ Targets(g) \subseteq Paths
  BY Files DEF Inv, Shapes, LookedAt, TypeOK, Check, Shape, Targets
<1>2. /\ UNCHANGED <<disk, beside, record, offered, deleting, del, chk, resumed, latest, users, hit, edits, stops,
                     mishaps>>
  BY DEF Check
<1>3. CASE ~TargetsClear(g)
  <2>1. job' = [job EXCEPT ![g] = Failed(job[g], "exists")] /\ row' = [row EXCEPT ![g].why = "exists"]
    BY <1>3 DEF Check, Fails
  <2>2. "exists" \in Why /\ Failed(job[g], "exists") \in Job
    BY <1>1, Jobs DEF Why
  <2>3. row' \in [Games -> Row]
    BY <1>1, <2>1, <2>2 DEF Row
  <2> QED BY <1>1, <1>2, <2>1, <2>2, <2>3, LeavesCalm
<1>4. CASE TargetsClear(g)
  <2> DEFINE pc == IF job[g].update THEN "beside" ELSE "place"
             j == [job[g] EXCEPT !.pc = pc, !.todo = Targets(g)]
  <2>1. job' = [job EXCEPT ![g] = j] /\ row' = row
    BY <1>1, <1>4 DEF Check
  <2>2. /\ j \in Job /\ j.pc = pc /\ j.todo = Targets(g) /\ j.placed = {} /\ j.ver = job[g].ver /\ j.old = job[g].old
        /\ j.update = job[g].update
    BY <1>1 DEF Job, JobPC
  <2>3. pc \in {"beside", "place"} /\ (pc = "beside" <=> job[g].update)
    BY <1>1 DEF Job
  <2> HIDE DEF j, pc
  <2>4. TypeOK' /\ job'[g] = j /\ \A h \in Games \ {g} : job'[h] = job[h]
    <3>1. /\ record' \in [Games -> Record] /\ offered' \subseteq Games /\ disk' \in Folder /\ beside' \in Folder
          /\ row' \in [Games -> Row] /\ users' \subseteq users
      BY <1>1, <1>2, <2>1 DEF TypeOK
    <3>2. j.todo \cap j.placed = {} /\ j.pc \notin {"clear", "save", "saved"}
      BY <2>2, <2>3
    <3> QED BY <1>1, <1>2, <2>1, <2>2, <3>1, <3>2, TypedStep
  <2>5. Targets(g)' = Targets(g) /\ OwnFilesChange(g) /\ job[g].pc # "none" /\ Moving(g)' /\ Staged(g)' = Staged(g)
    BY <1>1, <1>2, <2>2, <2>3, <2>4 DEF Targets, OwnFilesChange, Moving, Staged
  <2>6. Shape(g)'
    BY <1>1, <1>2, <2>2, <2>3, <2>4, <2>5 DEF Shape, OwnFiles, Moving
  <2>7. TargetsLooked(g)' /\ AsPlaced(g)'
    BY <1>1, <1>2, <1>4, <2>2, <2>4, <2>5 DEF TargetsLooked, AsPlaced, TargetsClear, Listed
  <2>8. stops = 0 /\ ~j.update => record[g] = NoRecord
    BY <1>1, <2>2 DEF ApartFrom
  <2>9. StraysApart' /\ Alone(g) => MineListed(g)' /\ BesideOwn(g)'
    <3> SUFFICES ASSUME StraysApart', Alone(g) PROVE MineListed(g)' /\ BesideOwn(g)'
      OBVIOUS
    <3>1. MineListed(g) /\ BesideOwn(g) /\ stops = 0
      BY <1>2 DEF Inv, Strays, StraysApart, Untangled
    <3>2. Mine(g)' \subseteq Listed(record[g].files) /\ (pc = "place" => Mine(g)' = {})
      BY <1>1, <1>2, <2>2, <2>3, <2>8, <3>1, Records DEF MineListed, Mine
    <3>3. ~(del.pc = "remove" /\ del.g = g)
      BY <1>2, <2>5, OwnOn
    <3>4. MineListed(g)'
      BY <1>2, <2>2, <2>3, <2>4, <3>2, <3>3 DEF MineListed
    <3>5. BesideOwn(g)'
      BY <1>1, <1>2, <2>2, <2>3, <2>4, <2>5, <3>1 DEF BesideOwn
    <3> QED BY <3>4, <3>5
  <2>10. WholesApart' /\ Alone(g) => Whole(g)'
    <3> SUFFICES ASSUME WholesApart', Alone(g) PROVE Whole(g)'
      OBVIOUS
    <3>1. Whole(g)
      BY <1>2 DEF Inv, Wholes, WholesApart, StraysApart, Untangled
    <3> QED BY <1>1, <1>2, <2>2, <2>3, <2>4, <3>1 DEF Whole
  <2>11. OwnInv(g)
    BY <1>2, <2>4, <2>6, <2>7, <2>8, <2>9, <2>10 DEF OwnInv
  <2> QED BY <1>2, <2>4, <2>5, <2>11, ByJob
<1> QED BY <1>3, <1>4
\* An attempt that goes on with what it moves.
LEMMA MoveStep ==
  ASSUME Inv, NEW g \in Games, NEW j \in Job, Moving(g), job' = [job EXCEPT ![g] = j],
         j.pc \in {"place", "beside", "swap", "clear", "save"},
         j.ver = job[g].ver, j.old = job[g].old, j.update = job[g].update, j.todo \cap j.placed = {},
         j.pc \in {"place", "swap"} => j.todo \cup j.placed = Targets(g),
         j.pc = "beside" => j.todo \subseteq Targets(g) /\ j.placed = {},
         j.pc \in {"clear", "save"} => j.placed = Targets(g),
         j.pc = "place" => ~j.update, j.pc \in {"beside", "swap", "clear"} => j.update,
         disk' \in Folder, beside' \in Folder, users' \subseteq users, OwnFilesChange(g),
         UNCHANGED <<row, record, offered, deleting, del, chk, resumed, latest, hit, edits, stops, mishaps>>,
         StraysApart /\ Alone(g) =>
           /\ Mine(g)' \subseteq (IF j.pc \in {"place", "save"} THEN {} ELSE Listed(record[g].files)) \cup j.placed
           /\ \A p \in Paths : beside'[p].by = g => \/ j.pc = "beside" /\ p \in Targets(g) \ j.todo
                                                    \/ j.pc = "swap" /\ p \in j.todo
           /\ \A p \in (IF j.pc = "beside" THEN Targets(g) \ j.todo ELSE {}) \cup (IF j.pc = "swap" THEN j.todo ELSE {}) :
                beside'[p] = Staged(g),
         WholesApart /\ Alone(g) =>
           /\ j.pc \in {"place", "beside"} =>
                \A p \in Listed(record[g].files) : disk'[p] = record[g].files[p] \/ p \in users'
           /\ j.pc # "beside" => \A p \in j.placed : disk'[p] = Staged(g) \/ p \in users'
  PROVE  Inv'
<1>1. /\ TypeOK /\ Shape(g) /\ TargetsLooked(g) /\ ApartFrom /\ job[g].pc # "none" /\ Targets(g) \subseteq Paths
      /\ mishaps \subseteq Env \cup {"tangle"} /\ (j.placed = Layout[g][j.ver] \/ j.pc \notin {"clear", "save", "saved"})
  BY Files DEF Inv, Shapes, LookedAt, Moving, Targets, Shape, TypeOK
<1>2. /\ row' \in [Games -> Row] /\ record' \in [Games -> Record] /\ offered' \subseteq Games
      /\ mishaps' \subseteq Env \cup {"tangle"}
  BY <1>1 DEF TypeOK
<1>3. TypeOK' /\ job'[g] = j /\ \A h \in Games \ {g} : job'[h] = job[h]
  BY <1>1, <1>2, TypedStep
<1>4. Targets(g)' = Targets(g) /\ Staged(g)' = Staged(g) /\ Moving(g)'
  BY <1>3 DEF Targets, Staged, Moving
<1>5. /\ \A p \in Paths : disk'[p].by = g \/ beside'[p].by = g => p \in PathsOf(g)
      /\ AsPlaced(g)'
      /\ StraysApart' => StraysApart /\ ~(del.pc = "remove" /\ del.g = g)
      /\ WholesApart' => WholesApart
  BY <1>1, OwnOn
<1>6. Shape(g)'
  BY <1>1, <1>3, <1>4, <1>5 DEF Shape, OwnFiles, Moving
<1>7. TargetsLooked(g)'
  <2>1. \A p \in Paths : p \in users' /\ disk'[p] # NoFile => p \in users /\ disk'[p] = disk[p]
    BY DEF OwnFilesChange
  <2> QED BY <1>1, <1>3, <1>4, <2>1 DEF TargetsLooked
<1>8. stops = 0 /\ ~j.update /\ j.pc \in {"place", "save"} => record[g] = NoRecord
  BY <1>1 DEF ApartFrom, Moving, Shape
<1>9. StraysApart' /\ Alone(g) => MineListed(g)' /\ BesideOwn(g)'
  <2> SUFFICES ASSUME StraysApart', Alone(g) PROVE MineListed(g)' /\ BesideOwn(g)'
    OBVIOUS
  <2>1. MineListed(g)'
    BY <1>3, <1>5 DEF MineListed
  <2>2. BesideOwn(g)'
    BY <1>3, <1>4, <1>5 DEF BesideOwn
  <2> QED BY <2>1, <2>2
<1>10. WholesApart' /\ Alone(g) => Whole(g)'
  BY <1>3, <1>4, <1>5 DEF Whole
<1>11. OwnInv(g)
  BY <1>3, <1>5, <1>6, <1>7, <1>8, <1>9, <1>10 DEF OwnInv
<1> QED BY <1>1, <1>3, <1>11, ByJob
LEMMA Folders ==
  /\ \A folder \in Folder, p \in Paths, f \in File \cup {NoFile} :
       /\ With(folder, p, f) \in Folder
       /\ \A q \in Paths : With(folder, p, f)[q] = IF q = p THEN f ELSE folder[q]
  /\ \A folder \in Folder, S \in SUBSET Paths :
       /\ Without(folder, S) \in Folder
       /\ \A q \in Paths : Without(folder, S)[q] = IF q \in S THEN NoFile ELSE folder[q]
BY DEF With, Without, Folder

LEMMA PlaceStep == ASSUME Inv, NEW g \in Games, NEW p \in Paths, Place(g, p) PROVE Inv'
<1> USE DEF store, world
<1> DEFINE todo == job[g].todo \ {p}
           pc == IF job[g].todo = {p} THEN "save" ELSE "place"
           j == [job[g] EXCEPT !.todo = todo, !.placed = @ \cup {p}, !.pc = pc]
<1>1. /\ TypeOK /\ Shape(g) /\ ApartFrom /\ job \in [Games -> Job] /\ job[g] \in Job /\ disk \in Folder
      /\ job[g].pc = "place" /\ p \in job[g].todo /\ ~job[g].update /\ job[g].ver \in Versions
      /\ job[g].todo \cup job[g].placed = Targets(g) /\ job[g].todo \cap job[g].placed = {}
  BY DEF Inv, Shapes, Place, TypeOK, Shape, Moving
<1>2. /\ disk' = With(disk, p, Staged(g)) /\ users' = users \ {p} /\ job' = [job EXCEPT ![g] = j]
      /\ UNCHANGED <<beside, row, record, offered, deleting, del, chk, resumed, latest, hit, edits, stops, mishaps>>
  BY <1>1 DEF Place
<1>3. /\ j \in Job /\ j.pc = pc /\ j.todo = todo /\ j.placed = job[g].placed \cup {p} /\ j.ver = job[g].ver
      /\ j.old = job[g].old /\ j.update = job[g].update
  BY <1>1 DEF Job, JobPC
<1>4. /\ pc \in {"place", "save"} /\ (pc = "save" => todo = {})
      /\ todo \cap j.placed = {} /\ todo \cup j.placed = Targets(g) /\ j.placed = job[g].placed \cup {p}
  BY <1>1, <1>3
<1> HIDE DEF j, pc, todo
<1>5. Staged(g) \in File /\ Staged(g).by = g /\ p \in PathsOf(g) /\ g # Nobody
  BY <1>1, Files, TypedPaths DEF Staged, Inv, Moving
<1>6. disk' \in Folder /\ \A q \in Paths : disk'[q] = IF q = p THEN Staged(g) ELSE disk[q]
  BY <1>1, <1>2, <1>5, Folders
<1>7. OwnFilesChange(g)
  BY <1>2, <1>5, <1>6 DEF OwnFilesChange
<1>8. StraysApart /\ Alone(g) => Mine(g)' \subseteq j.placed /\ \A q \in Paths : beside'[q].by # g
  <2> SUFFICES ASSUME StraysApart, Alone(g) PROVE Mine(g)' \subseteq j.placed /\ \A q \in Paths : beside'[q].by # g
    OBVIOUS
  <2>1. MineListed(g) /\ BesideOwn(g)
    BY DEF Inv, Strays
  <2> QED BY <1>1, <1>2, <1>3, <1>6, <2>1 DEF MineListed, BesideOwn, Mine
<1>9. WholesApart /\ Alone(g) => \A q \in j.placed : disk'[q] = Staged(g) \/ q \in users'
  <2> SUFFICES ASSUME WholesApart, Alone(g) PROVE \A q \in j.placed : disk'[q] = Staged(g) \/ q \in users'
    OBVIOUS
  <2>1. Whole(g) /\ j.placed \subseteq Paths
    BY <1>3 DEF Inv, Wholes, Job
  <2> QED BY <1>1, <1>2, <1>4, <1>6, <2>1 DEF Whole
<1>10. WholesApart => Listed(record[g].files) = {}
  BY <1>1, Records DEF ApartFrom, WholesApart, StraysApart, Untangled
<1>11. TypeOK /\ Moving(g) /\ beside' \in Folder /\ users' \subseteq users
  BY <1>1, <1>2 DEF Moving, TypeOK
<1>12. /\ j.pc \in {"place", "beside", "swap", "clear", "save"} /\ j.pc \notin {"beside", "swap", "clear"}
       /\ j.todo \cap j.placed = {} /\ j.todo \cup j.placed = Targets(g) /\ (j.pc = "save" => j.placed = Targets(g))
       /\ ~j.update
  BY <1>1, <1>3, <1>4
<1> QED BY <1>2, <1>3, <1>6, <1>7, <1>8, <1>9, <1>10, <1>11, <1>12, MoveStep
LEMMA BesideStep == ASSUME Inv, NEW g \in Games, NEW p \in Paths, Beside(g, p) PROVE Inv'
<1> USE DEF store, world
<1> DEFINE last == job[g].todo = {p}
           todo == IF last THEN Targets(g) ELSE job[g].todo \ {p}
           pc == IF last THEN "swap" ELSE "beside"
           j == [job[g] EXCEPT !.todo = todo, !.pc = pc]
<1>1. /\ TypeOK /\ Shape(g) /\ ApartFrom /\ job \in [Games -> Job] /\ job[g] \in Job /\ beside \in Folder /\ disk \in Folder
      /\ job[g].pc = "beside" /\ p \in job[g].todo /\ job[g].update /\ job[g].ver \in Versions
      /\ job[g].todo \subseteq Targets(g) /\ job[g].placed = {} /\ Targets(g) \subseteq Paths
  BY Files DEF Inv, Shapes, Beside, TypeOK, Shape, Moving, Targets
<1>2. /\ beside' = With(beside, p, Staged(g)) /\ job' = [job EXCEPT ![g] = j]
      /\ UNCHANGED <<disk, users, row, record, offered, deleting, del, chk, resumed, latest, hit, edits, stops, mishaps>>
  BY <1>1 DEF Beside, Job
<1>3. /\ j \in Job /\ j.pc = pc /\ j.todo = todo /\ j.placed = {} /\ j.ver = job[g].ver
      /\ j.old = job[g].old /\ j.update = job[g].update
  BY <1>1 DEF Job, JobPC
<1>4. \/ pc = "beside" /\ todo = job[g].todo \ {p}
      \/ pc = "swap" /\ todo = Targets(g) /\ job[g].todo = {p}
  BY <1>1
<1> HIDE DEF j, pc, todo, last
<1>5. Staged(g) \in File /\ Staged(g).by = g /\ p \in PathsOf(g) /\ g # Nobody
  BY <1>1, Files, TypedPaths DEF Staged, Inv, Moving
<1>6. beside' \in Folder /\ \A q \in Paths : beside'[q] = IF q = p THEN Staged(g) ELSE beside[q]
  BY <1>1, <1>2, <1>5, Folders
<1>7. OwnFilesChange(g)
  BY <1>2, <1>5, <1>6 DEF OwnFilesChange
<1>8. StraysApart /\ Alone(g) =>
        /\ Mine(g)' \subseteq Listed(record[g].files)
        /\ \A q \in Paths : beside'[q].by = g => \/ j.pc = "beside" /\ q \in Targets(g) \ j.todo
                                                 \/ j.pc = "swap" /\ q \in j.todo
        /\ j.pc = "beside" => \A q \in Targets(g) \ j.todo : beside'[q] = Staged(g)
        /\ j.pc = "swap" => \A q \in j.todo : beside'[q] = Staged(g)
  <2> SUFFICES ASSUME StraysApart, Alone(g)
               PROVE  /\ Mine(g)' \subseteq Listed(record[g].files)
                      /\ \A q \in Paths : beside'[q].by = g => \/ j.pc = "beside" /\ q \in Targets(g) \ j.todo
                                                               \/ j.pc = "swap" /\ q \in j.todo
                      /\ j.pc = "beside" => \A q \in Targets(g) \ j.todo : beside'[q] = Staged(g)
                      /\ j.pc = "swap" => \A q \in j.todo : beside'[q] = Staged(g)
    OBVIOUS
  <2>1. MineListed(g) /\ BesideOwn(g)
    BY DEF Inv, Strays
  <2>2. Mine(g)' \subseteq Listed(record[g].files)
    BY <1>1, <1>2, <2>1 DEF MineListed, Mine
  <2>3. CASE pc = "beside" /\ todo = job[g].todo \ {p}
    BY <1>1, <1>3, <1>6, <2>1, <2>2, <2>3 DEF BesideOwn
  <2>4. CASE pc = "swap" /\ todo = Targets(g) /\ job[g].todo = {p}
    BY <1>1, <1>3, <1>6, <2>1, <2>2, <2>4 DEF BesideOwn
  <2> QED BY <1>4, <2>3, <2>4
<1>9. WholesApart /\ Alone(g) => \A q \in Listed(record[g].files) : disk'[q] = record[g].files[q] \/ q \in users'
  <2> SUFFICES ASSUME WholesApart, Alone(g)
               PROVE  \A q \in Listed(record[g].files) : disk'[q] = record[g].files[q] \/ q \in users'
    OBVIOUS
  <2>1. Whole(g) /\ ~(del.pc = "remove" /\ del.g = g)
    BY <1>1 DEF Inv, Wholes, WholesApart, StraysApart, ApartFrom, TypeOK
  <2> QED BY <1>1, <1>2, <2>1 DEF Whole
<1>10. TypeOK /\ Moving(g) /\ disk' \in Folder /\ users' \subseteq users
  BY <1>1, <1>2 DEF Moving, TypeOK
<1>11. /\ j.pc \in {"place", "beside", "swap", "clear", "save"} /\ j.pc \notin {"place", "clear", "save"}
       /\ j.todo \cap j.placed = {} /\ j.todo \subseteq Targets(g) /\ (j.pc = "swap" => j.todo \cup j.placed = Targets(g))
       /\ j.update
  BY <1>1, <1>3, <1>4
<1> QED BY <1>2, <1>3, <1>6, <1>7, <1>8, <1>9, <1>10, <1>11, MoveStep

LEMMA SwapStep == ASSUME Inv, NEW g \in Games, NEW p \in Paths, Swap(g, p) PROVE Inv'
<1> USE DEF store, world
<1> DEFINE todo == job[g].todo \ {p}
           pc == IF job[g].todo = {p} THEN "clear" ELSE "swap"
           j == [job[g] EXCEPT !.todo = todo, !.placed = @ \cup {p}, !.pc = pc]
<1>1. /\ TypeOK /\ Shape(g) /\ ApartFrom /\ job \in [Games -> Job] /\ job[g] \in Job /\ beside \in Folder /\ disk \in Folder
      /\ job[g].pc = "swap" /\ p \in job[g].todo /\ job[g].update /\ job[g].ver \in Versions
      /\ job[g].todo \cup job[g].placed = Targets(g) /\ job[g].todo \cap job[g].placed = {}
  BY DEF Inv, Shapes, Swap, TypeOK, Shape, Moving
<1>2. /\ disk' = With(disk, p, beside[p]) /\ beside' = With(beside, p, NoFile) /\ users' = users \ {p}
      /\ job' = [job EXCEPT ![g] = j]
      /\ UNCHANGED <<row, record, offered, deleting, del, chk, resumed, latest, hit, edits, stops, mishaps>>
  BY <1>1 DEF Swap
<1>3. /\ j \in Job /\ j.pc = pc /\ j.todo = todo /\ j.placed = job[g].placed \cup {p} /\ j.ver = job[g].ver
      /\ j.old = job[g].old /\ j.update = job[g].update
  BY <1>1 DEF Job, JobPC
<1>4. /\ pc \in {"clear", "swap"} /\ (pc = "clear" => todo = {}) /\ todo = job[g].todo \ {p}
      /\ todo \cap j.placed = {} /\ todo \cup j.placed = Targets(g)
  BY <1>1, <1>3
<1> HIDE DEF j, pc, todo
<1>5. p \in PathsOf(g) /\ g # Nobody /\ NoFile.by = Nobody /\ beside[p] \in File \cup {NoFile}
  BY <1>1, Files, TypedPaths DEF Inv, Moving, Folder
<1>6. /\ disk' \in Folder /\ \A q \in Paths : disk'[q] = IF q = p THEN beside[p] ELSE disk[q]
      /\ beside' \in Folder /\ \A q \in Paths : beside'[q] = IF q = p THEN NoFile ELSE beside[q]
  BY <1>1, <1>2, <1>5, Folders
<1>7. OwnFilesChange(g)
  BY <1>2, <1>5, <1>6 DEF OwnFilesChange
<1>8. StraysApart /\ Alone(g) =>
        /\ beside[p] = Staged(g)
        /\ Mine(g)' \subseteq Listed(record[g].files) \cup j.placed
        /\ \A q \in Paths : beside'[q].by = g => pc = "swap" /\ q \in todo
        /\ \A q \in todo : beside'[q] = Staged(g)
  <2> SUFFICES ASSUME StraysApart, Alone(g)
               PROVE  /\ beside[p] = Staged(g)
                      /\ Mine(g)' \subseteq Listed(record[g].files) \cup j.placed
                      /\ \A q \in Paths : beside'[q].by = g => pc = "swap" /\ q \in todo
                      /\ \A q \in todo : beside'[q] = Staged(g)
    OBVIOUS
  <2>1. MineListed(g) /\ BesideOwn(g) /\ todo \subseteq Paths
    BY <1>1, <1>4 DEF Inv, Strays, Job
  <2>2. Mine(g)' \subseteq Listed(record[g].files) \cup j.placed
    BY <1>1, <1>2, <1>3, <1>6, <2>1 DEF MineListed, Mine
  <2>3. \A q \in Paths : beside'[q].by = g => q \in todo
    BY <1>1, <1>4, <1>5, <1>6, <2>1 DEF BesideOwn
  <2> QED BY <1>1, <1>4, <1>6, <2>1, <2>2, <2>3 DEF BesideOwn
<1>9. WholesApart /\ Alone(g) => \A q \in j.placed : disk'[q] = Staged(g) \/ q \in users'
  <2> SUFFICES ASSUME WholesApart, Alone(g) PROVE \A q \in j.placed : disk'[q] = Staged(g) \/ q \in users'
    OBVIOUS
  <2>1. Whole(g) /\ j.placed \subseteq Paths /\ StraysApart
    BY <1>3 DEF Inv, Wholes, WholesApart, Job
  <2> QED BY <1>1, <1>2, <1>3, <1>6, <1>8, <2>1 DEF Whole
<1>10. TypeOK /\ Moving(g) /\ users' \subseteq users
  BY <1>1, <1>2 DEF Moving
<1>11. /\ j.pc \in {"place", "beside", "swap", "clear", "save"} /\ j.pc \notin {"place", "beside", "save"}
       /\ j.todo \cap j.placed = {} /\ j.todo \cup j.placed = Targets(g) /\ (j.pc = "clear" => j.placed = Targets(g))
       /\ j.update
  BY <1>1, <1>3, <1>4
<1> QED BY <1>2, <1>3, <1>6, <1>7, <1>8, <1>9, <1>10, <1>11, MoveStep

LEMMA ClearStep == ASSUME Inv, NEW g \in Games, ClearOld(g) PROVE Inv'
<1> USE DEF store, world
<1> DEFINE gone == Listed(job[g].old) \ job[g].placed
           j == [job[g] EXCEPT !.pc = "save"]
<1>1. /\ TypeOK /\ Shape(g) /\ ApartFrom /\ job \in [Games -> Job] /\ job[g] \in Job /\ beside \in Folder /\ disk \in Folder
      /\ job[g].pc = "clear" /\ job[g].update /\ job[g].ver \in Versions
      /\ job[g].placed = Targets(g) /\ job[g].todo \cap job[g].placed = {}
  BY DEF Inv, Shapes, ClearOld, TypeOK, Shape, Moving
<1>2. /\ disk' = Without(disk, gone) /\ job' = [job EXCEPT ![g] = j]
      /\ UNCHANGED <<beside, users, row, record, offered, deleting, del, chk, resumed, latest, hit, edits, stops, mishaps>>
  BY <1>1 DEF ClearOld
<1>3. /\ j \in Job /\ j.pc = "save" /\ j.todo = job[g].todo /\ j.placed = job[g].placed /\ j.ver = job[g].ver
      /\ j.old = job[g].old /\ j.update = job[g].update
  BY <1>1 DEF Job, JobPC
<1>4. gone \subseteq PathsOf(g) /\ gone \subseteq Paths /\ g # Nobody /\ NoFile.by = Nobody
  BY Files, TypedPaths DEF Inv
<1>5. Listed(record[g].files) \subseteq gone \cup job[g].placed
  BY <1>1, Records DEF Shape
<1>6. gone \cap job[g].placed = {}
  OBVIOUS
<1> HIDE DEF j, gone
<1>7. disk' \in Folder /\ \A q \in Paths : disk'[q] = IF q \in gone THEN NoFile ELSE disk[q]
  BY <1>1, <1>2, <1>4, Folders
<1>8. OwnFilesChange(g)
  BY <1>2, <1>4, <1>7 DEF OwnFilesChange
<1>9. StraysApart /\ Alone(g) => Mine(g)' \subseteq j.placed /\ \A q \in Paths : beside'[q].by # g
  <2> SUFFICES ASSUME StraysApart, Alone(g) PROVE Mine(g)' \subseteq j.placed /\ \A q \in Paths : beside'[q].by # g
    OBVIOUS
  <2>1. MineListed(g) /\ BesideOwn(g)
    BY DEF Inv, Strays
  <2> QED BY <1>1, <1>2, <1>3, <1>4, <1>5, <1>7, <2>1 DEF MineListed, BesideOwn, Mine
<1>10. WholesApart /\ Alone(g) => \A q \in j.placed : disk'[q] = Staged(g) \/ q \in users'
  <2> SUFFICES ASSUME WholesApart, Alone(g) PROVE \A q \in j.placed : disk'[q] = Staged(g) \/ q \in users'
    OBVIOUS
  <2>1. Whole(g) /\ j.placed \subseteq Paths
    BY <1>3 DEF Inv, Wholes, Job
  <2> QED BY <1>1, <1>2, <1>3, <1>6, <1>7, <2>1 DEF Whole
<1>11. TypeOK /\ Moving(g) /\ beside' \in Folder /\ users' \subseteq users
  BY <1>1, <1>2 DEF Moving
<1>12. /\ j.pc \in {"place", "beside", "swap", "clear", "save"} /\ j.pc \notin {"place", "beside", "swap", "clear"}
       /\ j.todo \cap j.placed = {} /\ j.placed = Targets(g)
  BY <1>1, <1>3
<1> QED BY <1>2, <1>3, <1>7, <1>8, <1>9, <1>10, <1>11, <1>12, MoveStep
LEMMA PlaceFailsStep == ASSUME Inv, NEW g \in Games, NEW p \in Paths, PlaceFails(g, p) PROVE Inv'
<1> USE DEF store, world
<1>1. /\ TypeOK /\ Shape(g) /\ ApartFrom /\ job \in [Games -> Job] /\ job[g] \in Job /\ disk \in Folder /\ beside \in Folder
      /\ job[g].pc = "place" /\ p \in job[g].todo /\ ~job[g].update /\ job[g].ver \in Versions /\ Moving(g)
      /\ job[g].placed \subseteq Paths /\ mishaps \subseteq Env \cup {"tangle"}
  BY DEF Inv, Shapes, PlaceFails, TypeOK, Shape, Moving, Job
<1>2. /\ job' = [job EXCEPT ![g] = Failed(job[g], "error")] /\ row' = [row EXCEPT ![g].why = "error"]
      /\ UNCHANGED <<beside, record, offered, deleting, del, chk, resumed, latest, hit, edits, stops>>
      /\ "error" \in Why
  BY <1>1 DEF PlaceFails, Fails, Why
<1>3. Staged(g) \in File /\ Staged(g).by = g /\ g # Nobody /\ NoFile.by = Nobody /\ job[g].placed \subseteq PathsOf(g)
      /\ p \in PathsOf(g)
  BY <1>1, Files, TypedPaths DEF Staged, Inv, Shape
<1>4. /\ Without(disk, job[g].placed) \in Folder
      /\ \A q \in Paths : Without(disk, job[g].placed)[q] = IF q \in job[g].placed THEN NoFile ELSE disk[q]
  BY <1>1, Folders
<1>5. WholesApart' => Listed(record[g].files) = {}
  BY <1>1, <1>2, Records DEF ApartFrom, WholesApart, StraysApart, Untangled
<1>6. CASE Fault("place") /\ disk' = Without(disk, job[g].placed) /\ users' = users
  <2>1. mishaps \subseteq mishaps' /\ mishaps' \subseteq Env \cup {"tangle"}
    BY <1>1, <1>6 DEF Fault
  <2>2. OwnFilesChange(g)
    BY <1>2, <1>3, <1>4, <1>6 DEF OwnFilesChange
  <2>3. StraysApart' /\ Alone(g) => Mine(g)' = {} /\ \A q \in Paths : beside'[q].by # g
    <3> SUFFICES ASSUME StraysApart', Alone(g) PROVE Mine(g)' = {} /\ \A q \in Paths : beside'[q].by # g
      OBVIOUS
    <3>1. MineListed(g) /\ BesideOwn(g)
      BY <1>2, <2>1 DEF Inv, Strays, StraysApart, Untangled
    <3> QED BY <1>1, <1>2, <1>3, <1>4, <1>6, <3>1 DEF MineListed, BesideOwn, Mine
  <2> QED BY <1>1, <1>2, <1>4, <1>5, <1>6, <2>1, <2>2, <2>3, FailsStep
<1>7. CASE Fault("moved") /\ disk' = With(Without(disk, job[g].placed), p, Staged(g)) /\ users' = users \ {p}
  <2>1. mishaps \subseteq mishaps' /\ mishaps' \subseteq Env \cup {"tangle"} /\ "moved" \in mishaps'
    BY <1>1, <1>7 DEF Fault
  <2>2. disk' \in Folder /\ \A q \in Paths : disk'[q] = IF q = p THEN Staged(g) ELSE Without(disk, job[g].placed)[q]
    BY <1>3, <1>4, <1>7, Folders
  <2>3. OwnFilesChange(g)
    BY <1>2, <1>3, <1>4, <1>7, <2>2 DEF OwnFilesChange
  <2>4. ~StraysApart' /\ users' \subseteq users
    BY <1>7, <2>1 DEF StraysApart
  <2> QED BY <1>1, <1>2, <1>5, <2>1, <2>2, <2>3, <2>4, FailsStep
<1> QED BY <1>6, <1>7 DEF PlaceFails

LEMMA BesideFailsStep == ASSUME Inv, NEW g \in Games, NEW p \in Paths, BesideFails(g, p) PROVE Inv'
<1> USE DEF store, world
<1> DEFINE gone == Targets(g) \ job[g].todo
<1>1. /\ TypeOK /\ Shape(g) /\ ApartFrom /\ job \in [Games -> Job] /\ job[g] \in Job /\ disk \in Folder /\ beside \in Folder
      /\ job[g].pc = "beside" /\ job[g].ver \in Versions /\ Moving(g)
      /\ mishaps \subseteq Env \cup {"tangle"}
  BY DEF Inv, Shapes, BesideFails, TypeOK, Shape, Moving, Job
<1>2. /\ job' = [job EXCEPT ![g] = Failed(job[g], "error")] /\ row' = [row EXCEPT ![g].why = "error"]
      /\ UNCHANGED <<disk, users, record, offered, deleting, del, chk, resumed, latest, hit, edits, stops>>
      /\ beside' = Without(beside, gone) /\ mishaps' = mishaps \cup {"beside"} /\ "beside" \in Env /\ "error" \in Why
  BY <1>1 DEF BesideFails, Fails, Fault, Why
<1>3. gone \subseteq PathsOf(g) /\ gone \subseteq Paths /\ g # Nobody /\ NoFile.by = Nobody
  BY <1>1, Files, TypedPaths DEF Inv
<1>4. beside' \in Folder /\ \A q \in Paths : beside'[q] = IF q \in gone THEN NoFile ELSE beside[q]
  BY <1>1, <1>2, <1>3, Folders
<1>5. OwnFilesChange(g) /\ mishaps \subseteq mishaps' /\ mishaps' \subseteq Env \cup {"tangle"}
  BY <1>1, <1>2, <1>3, <1>4 DEF OwnFilesChange
<1>6. StraysApart' /\ Alone(g) => Mine(g)' \subseteq Listed(record[g].files) /\ \A q \in Paths : beside'[q].by # g
  <2> SUFFICES ASSUME StraysApart', Alone(g)
               PROVE  Mine(g)' \subseteq Listed(record[g].files) /\ \A q \in Paths : beside'[q].by # g
    OBVIOUS
  <2>1. MineListed(g) /\ BesideOwn(g)
    BY <1>2, <1>5 DEF Inv, Strays, StraysApart, Untangled
  <2> QED BY <1>1, <1>2, <1>3, <1>4, <2>1 DEF MineListed, BesideOwn, Mine
<1>7. WholesApart' /\ Alone(g) => \A q \in Listed(record[g].files) : disk'[q] = record[g].files[q] \/ q \in users'
  <2> SUFFICES ASSUME WholesApart', Alone(g)
               PROVE  \A q \in Listed(record[g].files) : disk'[q] = record[g].files[q] \/ q \in users'
    OBVIOUS
  <2>1. Whole(g) /\ ~(del.pc = "remove" /\ del.g = g)
    BY <1>1, <1>2, <1>5 DEF Inv, Wholes, WholesApart, StraysApart, Untangled, ApartFrom, TypeOK
  <2> QED BY <1>1, <1>2, <2>1 DEF Whole
<1>8. disk' \in Folder /\ users' \subseteq users
  BY <1>1, <1>2
<1> QED BY <1>1, <1>2, <1>4, <1>5, <1>6, <1>7, <1>8, FailsStep

LEMMA SwapFailsStep == ASSUME Inv, NEW g \in Games, NEW p \in Paths, SwapFails(g, p) PROVE Inv'
<1> USE DEF store, world
<1>1. /\ TypeOK /\ Shape(g) /\ ApartFrom /\ job \in [Games -> Job] /\ job[g] \in Job /\ disk \in Folder /\ beside \in Folder
      /\ job[g].pc = "swap" /\ p \in job[g].todo /\ job[g].ver \in Versions /\ Moving(g)
      /\ mishaps \subseteq Env \cup {"tangle"}
  BY DEF Inv, Shapes, SwapFails, TypeOK, Shape, Moving, Job
<1>2. /\ job' = [job EXCEPT ![g] = Failed(job[g], "error")] /\ row' = [row EXCEPT ![g].why = "error"]
      /\ UNCHANGED <<record, offered, deleting, del, chk, resumed, latest, hit, edits, stops>> /\ "error" \in Why
  BY <1>1 DEF SwapFails, Fails, Why
<1>3. g # Nobody /\ NoFile.by = Nobody /\ p \in PathsOf(g) /\ beside[p] \in File \cup {NoFile} /\ Staged(g) # NoFile
  BY <1>1, Files, TypedPaths DEF Inv, Shape, Folder, Staged
<1>4. /\ mishaps \subseteq mishaps' /\ mishaps' \subseteq Env \cup {"tangle"}
      /\ (beside[p] = NoFile /\ mishaps' = mishaps) \/ mishaps' \cap {"moved", "rename"} # {}
  BY <1>1, <1>2 DEF SwapFails, Fault
<1>5. StraysApart' => ~Alone(g)
  <2> SUFFICES ASSUME StraysApart', Alone(g) PROVE FALSE
    OBVIOUS
  <2>1. beside[p] = NoFile /\ mishaps' = mishaps
    BY <1>4 DEF StraysApart
  <2>2. BesideOwn(g)
    BY <1>2, <2>1 DEF Inv, Strays, StraysApart, Untangled
  <2> QED BY <1>1, <1>3, <2>1, <2>2 DEF BesideOwn
<1>6. WholesApart' => StraysApart'
  BY DEF WholesApart
<1>7. CASE UNCHANGED <<disk, beside, users>>
  <2>1. OwnFilesChange(g)
    BY <1>7 DEF OwnFilesChange
  <2> QED BY <1>1, <1>2, <1>4, <1>5, <1>6, <1>7, <2>1, FailsStep
<1>8. CASE disk' = With(disk, p, beside[p]) /\ beside' = With(beside, p, NoFile) /\ users' = users \ {p}
  <2>1. /\ disk' \in Folder /\ \A q \in Paths : disk'[q] = IF q = p THEN beside[p] ELSE disk[q]
        /\ beside' \in Folder /\ \A q \in Paths : beside'[q] = IF q = p THEN NoFile ELSE beside[q]
    BY <1>1, <1>3, <1>8, Folders
  <2>2. OwnFilesChange(g) /\ users' \subseteq users
    BY <1>3, <1>8, <2>1 DEF OwnFilesChange
  <2> QED BY <1>1, <1>2, <1>4, <1>5, <1>6, <2>1, <2>2, FailsStep
<1> QED BY <1>7, <1>8 DEF SwapFails

LEMMA SaveFailsStep == ASSUME Inv, NEW g \in Games, SaveFails(g) PROVE Inv'
<1> USE DEF store, world
<1>1. /\ TypeOK /\ Shape(g) /\ job \in [Games -> Job] /\ job[g] \in Job /\ disk \in Folder /\ beside \in Folder
      /\ job[g].pc = "save" /\ job[g].ver \in Versions /\ Moving(g) /\ job[g].placed \subseteq Paths
      /\ mishaps \subseteq Env \cup {"tangle"}
  BY DEF Inv, Shapes, SaveFails, TypeOK, Shape, Moving, Job
<1>2. /\ job' = [job EXCEPT ![g] = Failed(job[g], "error")] /\ row' = [row EXCEPT ![g].why = "error"]
      /\ UNCHANGED <<beside, users, record, offered, deleting, del, chk, resumed, latest, hit, edits, stops>>
      /\ disk' = Without(disk, job[g].placed) /\ mishaps' = mishaps \cup {"save"} /\ "save" \in Env /\ "error" \in Why
  BY <1>1 DEF SaveFails, Fails, Fault, Why
<1>3. g # Nobody /\ NoFile.by = Nobody /\ job[g].placed \subseteq PathsOf(g)
  BY <1>1, Files, TypedPaths DEF Inv
<1>4. disk' \in Folder /\ \A q \in Paths : disk'[q] = IF q \in job[g].placed THEN NoFile ELSE disk[q]
  BY <1>1, <1>2, Folders
<1>5. OwnFilesChange(g) /\ mishaps \subseteq mishaps' /\ mishaps' \subseteq Env \cup {"tangle"} /\ ~WholesApart'
  BY <1>1, <1>2, <1>3, <1>4 DEF OwnFilesChange, WholesApart
<1>6. StraysApart' /\ Alone(g) => Mine(g)' = {} /\ \A q \in Paths : beside'[q].by # g
  <2> SUFFICES ASSUME StraysApart', Alone(g) PROVE Mine(g)' = {} /\ \A q \in Paths : beside'[q].by # g
    OBVIOUS
  <2>1. MineListed(g) /\ BesideOwn(g)
    BY <1>2, <1>5 DEF Inv, Strays, StraysApart, Untangled
  <2> QED BY <1>1, <1>2, <1>3, <1>4, <2>1 DEF MineListed, BesideOwn, Mine
<1>7. beside' \in Folder /\ users' \subseteq users
  BY <1>1, <1>2
<1> QED BY <1>1, <1>2, <1>4, <1>5, <1>6, <1>7, FailsStep
LEMMA SaveStep == ASSUME Inv, NEW g \in Games, Save(g) PROVE Inv'
<1> USE DEF store, world
<1> DEFINE placed == job[g].placed
           files == [p \in Paths |-> IF p \in placed THEN Staged(g) ELSE NoFile]
           r == [in |-> TRUE, ver |-> job[g].ver, files |-> files]
           j == [job[g] EXCEPT !.pc = "saved"]
<1>1. /\ TypeOK /\ Shape(g) /\ AsPlaced(g) /\ job \in [Games -> Job] /\ job[g] \in Job /\ record \in [Games -> Record]
      /\ job[g].pc = "save" /\ job[g].ver \in Versions /\ job[g].ver \in 0 .. MaxVer /\ Moving(g)
      /\ placed = Targets(g) /\ placed \subseteq Paths /\ job[g].todo \cap placed = {}
      /\ mishaps \subseteq Env \cup {"tangle"}
  BY DEF Inv, Shapes, LookedAt, Save, TypeOK, Shape, Moving, Job
<1>2. /\ record' = [record EXCEPT ![g] = r] /\ job' = [job EXCEPT ![g] = j] /\ offered' = offered \ {g}
      /\ users' = users \ {p \in placed : disk[p] = Staged(g)}
      /\ UNCHANGED <<disk, beside, row, deleting, del, chk, resumed, latest, hit, edits, stops, mishaps>>
  BY <1>1 DEF Save
<1>3. /\ Staged(g) \in File /\ Staged(g).by = g /\ Staged(g) # NoFile /\ g # Nobody /\ placed \subseteq PathsOf(g)
      /\ Staged(g) = [by |-> g, ver |-> job[g].ver]
  BY <1>1, Files, TypedPaths DEF Staged, Inv
<1>4. /\ j \in Job /\ j.pc = "saved" /\ j.todo = job[g].todo /\ j.placed = placed /\ j.ver = job[g].ver
      /\ j.old = job[g].old /\ j.update = job[g].update
  BY <1>1 DEF Job, JobPC
<1> HIDE DEF j, placed
<1>5. files \in Folder /\ Listed(files) = placed /\ \A p \in placed : files[p] = Staged(g)
  BY <1>1, <1>3 DEF Folder, Listed
<1> HIDE DEF files
<1>6. r \in Record /\ r.in /\ r.files = files
  BY <1>1, <1>5 DEF Record
<1> HIDE DEF r
<1>7. record' \in [Games -> Record] /\ record'[g] = r /\ \A h \in Games \ {g} : record'[h] = record[h]
  BY <1>1, <1>2, <1>6
<1>8. TypeOK' /\ job'[g] = j /\ \A h \in Games \ {g} : job'[h] = job[h]
  <2>1. /\ disk' \in Folder /\ beside' \in Folder /\ row' \in [Games -> Row] /\ offered' \subseteq Games
        /\ users' \subseteq users /\ mishaps' \subseteq Env \cup {"tangle"}
    BY <1>1, <1>2 DEF TypeOK
  <2>2. j.todo \cap j.placed = {} /\ j.placed = Layout[g][j.ver]
    BY <1>1, <1>4 DEF Targets
  <2> QED BY <1>1, <1>2, <1>4, <1>7, <2>1, <2>2, TypedStep
<1>9. OwnFilesChange(g)
  BY <1>2, <1>3 DEF OwnFilesChange
<1>10. /\ \A p \in Paths : disk'[p].by = g \/ beside'[p].by = g => p \in PathsOf(g)
       /\ StraysApart' => StraysApart /\ ~(del.pc = "remove" /\ del.g = g)
       /\ WholesApart' => WholesApart
  BY <1>1, <1>2, <1>9, OwnOn
<1>11. OwnFiles(g, files)
  BY <1>3, <1>5 DEF OwnFiles
<1>12. Shape(g)'
  <2>1. OwnFiles(g, record'[g].files) /\ OwnFiles(g, job'[g].old)
    BY <1>1, <1>4, <1>6, <1>7, <1>8, <1>11 DEF Shape
  <2> QED BY <1>1, <1>4, <1>6, <1>7, <1>8, <1>10, <2>1 DEF Shape, OwnFiles, Moving
<1>13. TargetsLooked(g)' /\ AsPlaced(g)'
  BY <1>1, <1>2, <1>4, <1>5, <1>6, <1>7, <1>8 DEF TargetsLooked, AsPlaced, Moving
<1>14. StraysApart' /\ Alone(g) => MineListed(g)' /\ BesideOwn(g)'
  <2> SUFFICES ASSUME StraysApart', Alone(g) PROVE MineListed(g)' /\ BesideOwn(g)'
    OBVIOUS
  <2>1. MineListed(g) /\ BesideOwn(g)
    BY <1>10 DEF Inv, Strays
  <2>2. Mine(g)' \subseteq placed
    BY <1>1, <1>2, <2>1 DEF MineListed, Mine, placed
  <2>3. MineListed(g)'
    BY <1>2, <1>4, <1>5, <1>6, <1>7, <1>8, <1>10, <2>2 DEF MineListed
  <2>4. BesideOwn(g)'
    BY <1>1, <1>2, <1>4, <1>8, <2>1 DEF BesideOwn
  <2> QED BY <2>3, <2>4
<1>15. WholesApart' /\ Alone(g) => Whole(g)'
  <2> SUFFICES ASSUME WholesApart', Alone(g) PROVE Whole(g)'
    OBVIOUS
  <2>1. Whole(g)
    BY <1>10 DEF Inv, Wholes
  <2>2. \A p \in placed : disk[p] = Staged(g) \/ p \in users
    BY <1>1, <2>1 DEF Whole, placed
  <2>3. \A p \in placed : disk'[p] = files[p] \/ p \in users'
    BY <1>2, <1>5, <2>2
  <2> QED BY <1>4, <1>5, <1>6, <1>7, <1>8, <2>3 DEF Whole
<1>16. OwnInv(g)
  BY <1>4, <1>8, <1>12, <1>13, <1>14, <1>15 DEF OwnInv
<1> QED BY <1>1, <1>2, <1>7, <1>8, <1>9, <1>16, ByJob

-----------------------------------------------------------------------------
(* Records that go. *)

LEMMA Forgotten ==
  ASSUME Inv, TypeOK', NEW g \in Games, record' = [record EXCEPT ![g] = NoRecord],
         UNCHANGED <<disk, beside, job, resumed, stops, mishaps>>,
         deleting' \subseteq deleting, del' = del \/ (del' = DelIdle /\ del.g = g),
         chk'.pc # "idle" => chk'.g \in Games,
         users \subseteq users', \A p \in users' \ users : disk[p].by = g,
         \A p \in users' : p \in hit' \/ (p \in users /\ p \notin hit) \/ (~InWindow(p) /\ p \notin del.todo),
         StraysApart /\ Alone(g) => Mine(g)' = {}
  PROVE  Inv'
<1>1. /\ TypeOK /\ Shapes /\ LookedAt /\ ApartFrom /\ record \in [Games -> Record] /\ DelIdle.pc = "idle"
      /\ Untangled' = Untangled /\ StraysApart' = StraysApart /\ WholesApart' = WholesApart
  BY Records DEF Inv, TypeOK, Untangled, StraysApart, WholesApart
<1>2. \A h \in Games : record'[h] = IF h = g THEN NoRecord ELSE record[h]
  BY <1>1
<1>3. \A h \in Games : Targets(h)' = Targets(h) /\ Staged(h)' = Staged(h)
  BY DEF Targets, Staged
<1>4. Shapes'
  <2>1. ASSUME NEW h \in Games PROVE Shape(h)'
    <3>1. OwnFiles(h, record'[h].files) /\ (record'[h].in \/ record'[h] = NoRecord)
      BY <1>1, <1>2, Records DEF Shapes, Shape, OwnFiles
    <3> QED BY <1>1, <1>2, <1>3, <3>1 DEF Shapes, Shape, OwnFiles, Moving
  <2> QED BY <1>1, <2>1 DEF Shapes, OwnFiles
<1>5. LookedAt'
  <2>1. ASSUME NEW h \in Games PROVE TargetsLooked(h)' /\ AsPlaced(h)'
    <3>1. TargetsLooked(h)'
      <4> SUFFICES ASSUME Moving(h), NEW p \in Targets(h) \ Listed(job[h].old), p \in users', disk[p] # NoFile
                   PROVE  p \in hit'
        BY <1>3 DEF TargetsLooked, Moving
      <4>1. InWindow(p)
        BY DEF InWindow, Moving
      <4> QED BY <1>1, <4>1 DEF LookedAt, TargetsLooked
    <3>2. AsPlaced(h)'
      <4> SUFFICES ASSUME h # g, NEW p \in Listed(record[h].files), disk[p] = record[h].files[p] PROVE p \notin users'
        BY <1>2, Records DEF AsPlaced
      <4>1. disk[p].by = h /\ p \notin users
        BY <1>1 DEF Shapes, Shape, OwnFiles, LookedAt, AsPlaced
      <4> QED BY <4>1
    <3> QED BY <3>1, <3>2
  <2>2. DeleteLooked'
    <3>1. CASE del' = DelIdle
      BY <1>1, <3>1 DEF DeleteLooked
    <3>2. CASE del' = del
      BY <1>1, <3>2 DEF DeleteLooked, LookedAt
    <3> QED BY <3>1, <3>2
  <2> QED BY <2>1, <2>2 DEF LookedAt
<1>6. ApartFrom'
  BY <1>1, <1>2 DEF ApartFrom, TypeOK
<1>7. Strays'
  <2> SUFFICES ASSUME StraysApart, NEW h \in Games, Alone(h) PROVE MineListed(h)' /\ BesideOwn(h)'
    BY <1>1 DEF Strays, Alone
  <2>1. MineListed(h) /\ BesideOwn(h)
    BY DEF Inv, Strays
  <2>2. Mine(h)' \subseteq Mine(h) /\ (h = g => Mine(h)' = {})
    BY DEF Mine
  <2>3. MineListed(h)'
    BY <1>1, <1>2, <2>1, <2>2 DEF MineListed
  <2>4. BesideOwn(h)'
    BY <1>3, <2>1 DEF BesideOwn
  <2> QED BY <2>3, <2>4
<1>8. Wholes'
  <2> SUFFICES ASSUME WholesApart, NEW h \in Games, Alone(h) PROVE Whole(h)'
    BY <1>1 DEF Wholes, Alone
  <2>1. Whole(h)
    BY DEF Inv, Wholes
  <2> QED BY <1>1, <1>2, <1>3, <2>1, Records DEF Whole
<1> QED BY <1>4, <1>5, <1>6, <1>7, <1>8 DEF Inv
\* A game's record goes, and its files are the user's.
LEMMA LeftStep ==
  ASSUME Inv, NEW g \in Games, Forget(g), LeftToUser(g), DeleteEnded(g) \/ UNCHANGED <<deleting, del>>,
         del' = del \/ (del' = DelIdle /\ del.g = g), chk' \in Chk, chk'.pc # "idle" => chk'.g \in Games,
         UNCHANGED <<disk, beside, row, job, resumed, latest, edits, stops, mishaps>>
  PROVE  Inv'
<1> DEFINE S == {p \in Paths : disk[p].by = g}
           raced == {p \in Paths : InWindow(p)} \cup del.todo
<1>1. TypeOK /\ record \in [Games -> Record] /\ record' = [record EXCEPT ![g] = NoRecord] /\ offered' = offered \ {g}
  BY DEF Inv, TypeOK, Forget
<1>2. users' = users \cup S /\ hit' = (hit \ S) \cup (S \cap raced)
  BY DEF LeftToUser, Becomes
<1>3. /\ users \subseteq users' /\ \A p \in users' \ users : disk[p].by = g
      /\ \A p \in users' : p \in hit' \/ (p \in users /\ p \notin hit) \/ (~InWindow(p) /\ p \notin del.todo)
  BY <1>2
<1>4. users' \subseteq Paths /\ hit' \subseteq Paths
  BY <1>1, <1>2 DEF TypeOK
<1>5. Mine(g)' = {}
  BY <1>2 DEF Mine
<1>6. deleting' \subseteq deleting /\ del' \in Del /\ (del'.pc # "idle" => del'.g \in deleting' /\ del'.rec.in)
  BY <1>1, Records DEF TypeOK, DeleteEnded
<1>7. record' \in [Games -> Record] /\ offered' \subseteq Games
  BY <1>1, Records DEF TypeOK
<1>8. TypeOK'
  BY <1>1, <1>4, <1>6, <1>7 DEF TypeOK, Targets
<1> QED BY <1>1, <1>3, <1>5, <1>6, <1>8, Forgotten

LEMMA DropsStep == ASSUME Inv, CheckDrops PROVE Inv'
<1>1. PICK g \in Games : g = chk.g
  BY DEF Inv, Shapes, CheckDrops
<1>2. ChkIdle \in Chk /\ ChkIdle.pc = "idle"
  BY Records
<1>3. /\ Forget(g) /\ LeftToUser(g) /\ chk' = ChkIdle
      /\ UNCHANGED <<disk, beside, row, job, deleting, del, resumed, latest, edits, stops, mishaps>>
  BY <1>1 DEF CheckDrops
<1> QED BY <1>2, <1>3, LeftStep

LEMMA ForgetsStep == ASSUME Inv, DeleteForgets PROVE Inv'
<1> USE DEF store, world
<1>1. PICK g \in Games : g = del.g
  BY DEF Inv, TypeOK, DeleteForgets
<1>2. TypeOK /\ del.pc = "remove" /\ del.todo = {} /\ record \in [Games -> Record] /\ g \in deleting
  BY <1>1 DEF Inv, TypeOK, DeleteForgets
<1>3. /\ record' = [record EXCEPT ![g] = NoRecord] /\ offered' = offered \ {g}
      /\ del' = DelIdle /\ deleting' = deleting \ {g}
      /\ UNCHANGED <<disk, beside, row, job, chk, resumed, latest, users, hit, edits, stops, mishaps>>
  BY <1>1 DEF DeleteForgets, Forget, DeleteEnded
<1>4. record' \in [Games -> Record] /\ offered' \subseteq Games /\ DelIdle \in Del /\ DelIdle.pc = "idle"
  BY <1>2, <1>3, Records DEF TypeOK
<1>5. TypeOK'
  BY <1>2, <1>3, <1>4 DEF TypeOK, Targets
<1>6. StraysApart /\ Alone(g) => Mine(g)' = {}
  <2> SUFFICES ASSUME StraysApart, Alone(g) PROVE Mine(g)' = {}
    OBVIOUS
  <2>1. MineListed(g)
    BY DEF Inv, Strays
  <2> QED BY <1>1, <1>2, <1>3, <2>1 DEF MineListed, Mine
<1>7. chk'.pc # "idle" => chk'.g \in Games
  BY <1>3 DEF Inv, Shapes
<1>8. /\ users \subseteq users' /\ \A p \in users' \ users : disk[p].by = g
      /\ \A p \in users' : p \in hit' \/ (p \in users /\ p \notin hit) \/ (~InWindow(p) /\ p \notin del.todo)
  BY <1>3
<1>9. deleting' \subseteq deleting /\ del' = DelIdle /\ del.g = g
  BY <1>1, <1>3
<1> QED BY <1>3, <1>5, <1>6, <1>7, <1>8, <1>9, Forgotten

\* Nothing the invariant is about changes, but for deletes that end.
LEMMA Rest ==
  ASSUME Inv, TypeOK', UNCHANGED <<disk, beside, record, job, resumed, users, hit, stops>>, mishaps \subseteq mishaps',
         deleting' \subseteq deleting \/ \A g \in deleting' \ deleting : job[g].pc = "none",
         \/ del' = del
         \/ del' = DelIdle /\ (del.pc = "idle" \/ ~WholesApart'),
         chk'.pc # "idle" => chk'.g \in Games
  PROVE  Inv'
<1>1. /\ TypeOK /\ Shapes /\ LookedAt /\ ApartFrom /\ DelIdle.pc = "idle"
      /\ (Untangled' => Untangled) /\ (StraysApart' => StraysApart) /\ (WholesApart' => WholesApart)
  BY Records DEF Inv, Untangled, StraysApart, WholesApart
<1>2. \A h \in Games : Targets(h)' = Targets(h) /\ Staged(h)' = Staged(h) /\ Mine(h)' = Mine(h) /\ Moving(h)' = Moving(h)
  BY DEF Targets, Staged, Mine, Moving
<1>3. Shapes'
  BY <1>1, <1>2 DEF Shapes, Shape, OwnFiles
<1>4. LookedAt'
  BY <1>1, <1>2 DEF LookedAt, TargetsLooked, AsPlaced, DeleteLooked
<1>5. ApartFrom'
  BY <1>1 DEF ApartFrom, TypeOK
<1>6. Strays'
  BY <1>1, <1>2 DEF Inv, Strays, Alone, MineListed, BesideOwn
<1>7. Wholes'
  <2> SUFFICES ASSUME WholesApart', NEW h \in Games, Alone(h) PROVE Whole(h)'
    BY DEF Wholes, Alone
  <2>1. Whole(h)
    BY <1>1 DEF Inv, Wholes
  <2> QED BY <1>1, <1>2, <2>1 DEF Whole
<1> QED BY <1>3, <1>4, <1>5, <1>6, <1>7 DEF Inv
LEMMA RestSteps ==
  ASSUME Inv,
         \/ \E g \in Games : Delete(g) \/ CheckReads(g) \/ Publish(g) \/ Offer(g)
         \/ CheckLooks \/ CheckFails \/ DeleteFails \/ UNCHANGED vars
  PROVE  Inv'
<1> USE DEF store, world, vars
<1>1. /\ TypeOK /\ record \in [Games -> Record] /\ latest \in [Games -> Versions]
      /\ mishaps \subseteq Env \cup {"tangle"} /\ chk \in Chk
      /\ ChkIdle \in Chk /\ ChkIdle.pc = "idle" /\ DelIdle \in Del /\ DelIdle.pc = "idle"
      /\ chk.pc # "idle" => chk.g \in Games
  BY Records DEF Inv, TypeOK, Shapes
<1>2. ASSUME NEW g \in Games, Delete(g) PROVE Inv'
  <2>1. /\ UNCHANGED <<disk, beside, record, offered, row, job, del, chk, resumed, latest, users, hit, edits, stops, mishaps>>
        /\ deleting' = deleting \cup {g} /\ job[g].pc = "none"
    BY <1>2 DEF Delete, Busy
  <2>2. TypeOK'
    BY <1>1, <2>1 DEF TypeOK, Targets
  <2> QED BY <1>1, <2>1, <2>2, Rest
<1>3. CASE (\E g \in Games : CheckReads(g)) \/ CheckLooks \/ CheckFails
  <2>1. /\ UNCHANGED <<disk, beside, record, offered, row, job, deleting, del, resumed, latest, users, hit, edits, stops>>
        /\ mishaps \subseteq mishaps' /\ mishaps' \subseteq Env \cup {"tangle"}
    BY <1>1, <1>3 DEF CheckReads, CheckLooks, CheckFails, Fault
  <2>2. chk' \in Chk /\ (chk'.pc # "idle" => chk'.g \in Games)
    <3>1. \A g \in Games : [pc |-> "read", g |-> g, rec |-> record[g]] \in Chk
      BY <1>1 DEF Chk
    <3>2. [chk EXCEPT !.pc = "drop"] \in Chk
      BY <1>1 DEF Chk
    <3> QED BY <1>1, <1>3, <3>1, <3>2 DEF CheckReads, CheckLooks, CheckFails, Chk
  <2>3. TypeOK'
    BY <1>1, <2>1, <2>2 DEF TypeOK, Targets
  <2> QED BY <2>1, <2>2, <2>3, Rest
<1>4. ASSUME NEW g \in Games, Publish(g) \/ Offer(g) PROVE Inv'
  <2>1. /\ UNCHANGED <<disk, beside, record, row, job, deleting, del, chk, resumed, users, hit, edits, stops, mishaps>>
        /\ offered' = offered \/ offered' = offered \cup {g}
        /\ latest' = latest \/ (latest' = [latest EXCEPT ![g] = @ + 1] /\ latest[g] < MaxVer)
    BY <1>4 DEF Publish, Offer
  <2>2. latest' \in [Games -> Versions]
    BY <1>1, <2>1, BoundsAssumption DEF Versions
  <2>3. TypeOK'
    BY <1>1, <2>1, <2>2 DEF TypeOK, Targets
  <2> QED BY <1>1, <2>1, <2>3, Rest
<1>5. CASE DeleteFails
  <2>1. /\ UNCHANGED <<disk, beside, record, offered, row, job, chk, resumed, latest, users, hit, edits, stops>>
        /\ del' = DelIdle /\ deleting' = deleting \ {del.g} /\ mishaps' = mishaps \cup {"remove"} /\ "remove" \in Env
    BY <1>5 DEF DeleteFails, DeleteEnded, Fault
  <2>2. deleting' \subseteq deleting /\ mishaps \subseteq mishaps' /\ mishaps' \subseteq Env \cup {"tangle"} /\ ~WholesApart'
    BY <1>1, <2>1 DEF WholesApart
  <2>3. TypeOK'
    BY <1>1, <2>1, <2>2 DEF TypeOK, Targets
  <2> QED BY <1>1, <2>1, <2>2, <2>3, Rest
<1>6. CASE UNCHANGED vars
  <2>1. TypeOK'
    BY <1>1, <1>6 DEF TypeOK, Targets
  <2> QED BY <1>1, <1>6, <2>1, Rest
<1> QED BY <1>2, <1>3, <1>4, <1>5, <1>6

-----------------------------------------------------------------------------
(* A delete that reads, checks and removes. *)

\* Only the delete changes, and files of its game that go.
LEMMA DelStep ==
  ASSUME Inv, TypeOK', UNCHANGED <<beside, record, job, chk, resumed, users, hit, stops, mishaps>>,
         deleting' \subseteq deleting, disk' \in Folder,
         \A p \in Paths : disk'[p] = disk[p] \/ (disk'[p] = NoFile /\ del.pc = "remove" /\ p \in del.todo),
         del'.pc # "idle" => /\ OwnFiles(del'.g, del'.rec.files) /\ del'.todo \subseteq Listed(del'.rec.files)
                             /\ del'.pc = "check" => del'.todo = Listed(del'.rec.files)
                             /\ del.pc # "idle" => del'.g = del.g /\ del'.rec = del.rec
                             /\ Untangled => record[del'.g] \in {del'.rec, NoRecord},
         del.pc = "remove" => del'.pc = "remove",
         DeleteLooked',
         StraysApart => \A g \in Games : Alone(g) /\ del'.pc = "remove" /\ del'.g = g => Mine(g)' \subseteq del'.todo
  PROVE  Inv'
<1>1. /\ TypeOK /\ Shapes /\ LookedAt /\ ApartFrom
      /\ Untangled' = Untangled /\ StraysApart' = StraysApart /\ WholesApart' = WholesApart
      /\ NoFile.by = Nobody /\ \A h \in Games : h # Nobody
  BY Files DEF Inv, Untangled, StraysApart, WholesApart
<1>2. \A h \in Games : Targets(h)' = Targets(h) /\ Staged(h)' = Staged(h) /\ Mine(h)' \subseteq Mine(h) /\ Moving(h)' = Moving(h)
  BY <1>1 DEF Targets, Staged, Mine, Moving
<1>3. Shapes'
  BY <1>1, <1>2 DEF Shapes, Shape, OwnFiles
<1>4. LookedAt'
  <2>1. \A p \in Paths : disk'[p] # NoFile => disk'[p] = disk[p]
    OBVIOUS
  <2>2. ASSUME NEW h \in Games PROVE TargetsLooked(h)' /\ AsPlaced(h)'
    <3>1. Moving(h) => Targets(h) \subseteq Paths
      BY <1>1, TypedPaths, Files
    <3>2. TargetsLooked(h)'
      BY <1>1, <1>2, <2>1, <3>1 DEF LookedAt, TargetsLooked
    <3>3. AsPlaced(h)'
      BY <1>1, <2>1 DEF LookedAt, AsPlaced, Listed
    <3> QED BY <3>2, <3>3
  <2> QED BY <2>2 DEF LookedAt
<1>5. ApartFrom'
  BY <1>1 DEF ApartFrom
<1>6. \A h \in Games : Alone(h) /\ del.pc = "remove" /\ del.g # h =>
        \A p \in PathsOf(h) : disk'[p] = disk[p]
  <2> SUFFICES ASSUME NEW h \in Games, Alone(h), del.pc = "remove", del.g # h PROVE \A p \in PathsOf(h) : disk'[p] = disk[p]
    OBVIOUS
  <2>1. del.todo \subseteq PathsOf(del.g) /\ del.g \in Games
    BY <1>1 DEF Shapes, OwnFiles, TypeOK
  <2>2. PathsOf(del.g) \cap PathsOf(h) = {}
    BY <2>1 DEF Alone, PathsOf
  <2> QED BY <2>1, <2>2, Files
<1>7. Strays'
  <2> SUFFICES ASSUME StraysApart, NEW h \in Games, Alone(h) PROVE MineListed(h)' /\ BesideOwn(h)'
    BY <1>1 DEF Strays, Alone
  <2>1. MineListed(h) /\ BesideOwn(h) /\ Mine(h)' \subseteq Mine(h)
    BY <1>2 DEF Inv, Strays
  <2>2. del'.pc = "remove" /\ del'.g = h => Mine(h)' \subseteq del'.todo
    OBVIOUS
  <2>3. MineListed(h)'
    BY <2>1, <2>2 DEF MineListed
  <2>4. BesideOwn(h)'
    BY <1>2, <2>1 DEF BesideOwn
  <2> QED BY <2>3, <2>4
<1>8. Wholes'
  <2> SUFFICES ASSUME WholesApart, NEW h \in Games, Alone(h) PROVE Whole(h)'
    BY <1>1 DEF Wholes, Alone
  <2>1. Whole(h) /\ Listed(record[h].files) \subseteq Paths
    BY DEF Inv, Wholes, Listed
  <2>2. CASE del.pc # "remove"
    <3>1. \A p \in Paths : disk'[p] = disk[p]
      BY <2>2
    <3>2. job[h].placed \subseteq Paths
      BY <1>1 DEF TypeOK, Job
    <3> QED BY <1>2, <2>1, <2>2, <3>1, <3>2 DEF Whole
  <2>3. CASE del.pc = "remove" /\ del.g = h
    <3>1. job[h].pc = "none" /\ del'.g = h /\ del'.pc = "remove"
      BY <1>1, <2>3 DEF ApartFrom, TypeOK, WholesApart, StraysApart
    <3> QED BY <3>1 DEF Whole
  <2>4. CASE del.pc = "remove" /\ del.g # h
    <3>1. /\ Listed(record[h].files) \subseteq PathsOf(h)
          /\ job[h].pc \in {"place", "swap", "clear", "save"} => job[h].placed \subseteq PathsOf(h)
      BY <1>1, TypedPaths DEF Moving
    <3>2. \A p \in PathsOf(h) : disk'[p] = disk[p]
      BY <1>6, <2>4
    <3>3. ~(del.g = h /\ del.pc = "remove") /\ record'[h] = record[h] /\ job'[h] = job[h] /\ users' = users
      BY <2>4
    <3> QED BY <1>2, <2>1, <3>1, <3>2, <3>3 DEF Whole
  <2> QED BY <2>2, <2>3, <2>4
<1> QED BY <1>3, <1>4, <1>5, <1>7, <1>8 DEF Inv
LEMMA ReadsStep == ASSUME Inv, NEW g \in Games, DeleteReads(g) PROVE Inv'
<1> USE DEF store, world
<1> DEFINE d == [pc |-> "check", g |-> g, rec |-> record[g], todo |-> Listed(record[g].files)]
<1>1. /\ TypeOK /\ Shape(g) /\ AsPlaced(g) /\ record[g] \in Record /\ del.pc = "idle" /\ g \in deleting
      /\ disk' \in Folder /\ \A p \in Paths : disk'[p] = disk[p]
      /\ UNCHANGED <<disk, beside, record, offered, row, job, chk, resumed, latest, users, hit, edits, stops, mishaps>>
  BY DEF Inv, Shapes, LookedAt, TypeOK, DeleteReads
<1>2. CASE record[g].in
  <2>1. del' = d /\ deleting' = deleting
    BY <1>2 DEF DeleteReads
  <2>2. d \in Del /\ d.pc = "check" /\ d.g = g /\ d.rec = record[g] /\ d.todo = Listed(record[g].files)
    BY <1>1 DEF Del, Listed
  <2> HIDE DEF d
  <2>3. TypeOK'
    BY <1>1, <1>2, <2>1, <2>2 DEF TypeOK, Targets
  <2>4. DeleteLooked'
    BY <1>1, <2>1, <2>2 DEF DeleteLooked, AsPlaced
  <2>5. OwnFiles(del'.g, del'.rec.files)
    BY <1>1, <2>1, <2>2 DEF Shape
  <2> QED BY <1>1, <2>1, <2>2, <2>3, <2>4, <2>5, DelStep
<1>3. CASE ~record[g].in
  <2>1. del' = del /\ deleting' \subseteq deleting
    BY <1>3 DEF DeleteReads
  <2>2. TypeOK' /\ (chk'.pc # "idle" => chk'.g \in Games)
    BY <1>1, <2>1 DEF TypeOK, Targets, Inv, Shapes
  <2> QED BY <1>1, <2>1, <2>2, Rest
<1> QED BY <1>2, <1>3

LEMMA ChecksStep == ASSUME Inv, DeleteChecks PROVE Inv'
<1> USE DEF store, world
<1>1. PICK g \in Games : g = del.g
  BY DEF Inv, TypeOK, DeleteChecks
<1>2. /\ TypeOK /\ Shapes /\ LookedAt /\ ApartFrom /\ del \in Del /\ del.pc = "check" /\ g \in deleting /\ disk \in Folder
      /\ UNCHANGED <<disk, beside, row, job, chk, resumed, latest, edits, stops, mishaps>>
  BY <1>1 DEF Inv, TypeOK, DeleteChecks
<1>3. CASE Unchanged(del.rec)
  <2>1. del' = [del EXCEPT !.pc = "remove"] /\ UNCHANGED <<record, offered, deleting, users, hit>>
    BY <1>3 DEF DeleteChecks
  <2>2. del' \in Del /\ del'.pc = "remove" /\ del'.g = g /\ del'.rec = del.rec /\ del'.todo = del.todo
    BY <1>1, <1>2, <2>1 DEF Del
  <2>3. TypeOK'
    BY <1>1, <1>2, <2>1, <2>2 DEF TypeOK, Targets
  <2>4. del.todo = Listed(del.rec.files) /\ OwnFiles(g, del.rec.files)
    BY <1>1, <1>2 DEF Shapes
  <2>5. DeleteLooked'
    BY <1>2, <1>3, <2>1, <2>2, <2>4 DEF DeleteLooked, LookedAt, Unchanged
  <2>6. Untangled => job[g].pc = "none" /\ record[g] \in {del.rec, NoRecord}
    BY <1>1, <1>2 DEF ApartFrom
  <2>7. StraysApart /\ Alone(g) => Mine(g)' \subseteq del'.todo
    <3> SUFFICES ASSUME StraysApart, Alone(g) PROVE Mine(g)' \subseteq del'.todo
      OBVIOUS
    <3>1. Mine(g) \subseteq Listed(record[g].files)
      BY <2>6 DEF Inv, Strays, MineListed, StraysApart
    <3> QED BY <1>2, <2>1, <2>2, <2>4, <2>6, <3>1, Records DEF Mine, StraysApart
  <2>8. OwnFiles(del'.g, del'.rec.files)
    BY <2>2, <2>4
  <2>9. StraysApart => \A h \in Games : Alone(h) /\ del'.pc = "remove" /\ del'.g = h => Mine(h)' \subseteq del'.todo
    BY <2>2, <2>7
  <2> QED BY <1>1, <1>2, <2>1, <2>2, <2>3, <2>4, <2>5, <2>6, <2>8, <2>9, DelStep
<1>4. CASE ~Unchanged(del.rec)
  <2>1. Forget(g) /\ DeleteEnded(g) /\ LeftToUser(g)
    BY <1>1, <1>4 DEF DeleteChecks
  <2>2. del' = DelIdle /\ chk' \in Chk /\ (chk'.pc # "idle" => chk'.g \in Games)
    BY <1>2, <2>1 DEF DeleteEnded, TypeOK, Shapes
  <2> QED BY <1>1, <1>2, <2>1, <2>2, LeftStep
<1> QED BY <1>3, <1>4

LEMMA RemovesStep == ASSUME Inv, NEW p \in Paths, DeleteRemoves(p) PROVE Inv'
<1> USE DEF store, world
<1>1. PICK g \in Games : g = del.g
  BY DEF Inv, TypeOK, DeleteRemoves
<1>2. /\ TypeOK /\ Shapes /\ LookedAt /\ ApartFrom /\ del \in Del /\ del.pc = "remove" /\ p \in del.todo /\ disk \in Folder
      /\ UNCHANGED <<beside, record, offered, row, job, deleting, chk, resumed, latest, users, hit, edits, stops, mishaps>>
      /\ disk' = With(disk, p, NoFile) /\ del' = [del EXCEPT !.todo = @ \ {p}]
  BY DEF Inv, TypeOK, DeleteRemoves
<1>3. del' \in Del /\ del'.pc = "remove" /\ del'.g = g /\ del'.rec = del.rec /\ del'.todo = del.todo \ {p}
  BY <1>1, <1>2 DEF Del
<1>4. disk' \in Folder /\ \A q \in Paths : disk'[q] = IF q = p THEN NoFile ELSE disk[q]
  BY <1>2, Folders
<1>5. TypeOK'
  BY <1>1, <1>2, <1>3, <1>4 DEF TypeOK, Targets
<1>6. OwnFiles(g, del.rec.files) /\ del.todo \subseteq Listed(del.rec.files) /\ del.todo \subseteq Paths
  BY <1>1, <1>2 DEF Shapes, Del
<1>7. DeleteLooked'
  BY <1>2, <1>3, <1>4, <1>6 DEF DeleteLooked, LookedAt
<1>8. StraysApart => \A h \in Games : Alone(h) /\ del'.pc = "remove" /\ del'.g = h => Mine(h)' \subseteq del'.todo
  <2> SUFFICES ASSUME StraysApart, Alone(g) PROVE Mine(g)' \subseteq del'.todo
    BY <1>3
  <2>1. Mine(g) \subseteq del.todo
    BY <1>1, <1>2 DEF Inv, Strays, MineListed
  <2>2. g # Nobody /\ NoFile.by = Nobody
    BY Files
  <2> QED BY <1>2, <1>3, <1>4, <2>1, <2>2 DEF Mine
<1>9. OwnFiles(del'.g, del'.rec.files) /\ (Untangled => record[del'.g] \in {del'.rec, NoRecord})
  BY <1>1, <1>2, <1>3, <1>6 DEF ApartFrom
<1> QED BY <1>1, <1>2, <1>3, <1>4, <1>5, <1>6, <1>7, <1>8, <1>9, DelStep

-----------------------------------------------------------------------------
(* Around the code. *)

LEMMA UserStep == ASSUME Inv, NEW p \in Paths, UserActs(p) PROVE Inv'
<1> USE DEF store, world
<1>1. /\ TypeOK /\ Shapes /\ LookedAt /\ ApartFrom /\ disk \in Folder /\ edits < MaxEdits /\ edits \in 0 .. MaxEdits
      /\ UNCHANGED <<beside, record, offered, row, job, deleting, del, chk, resumed, latest, stops, mishaps>>
      /\ edits' = edits + 1 /\ users' = users \cup {p} /\ hit' = (hit \ {p}) \cup ({p} \cap {q \in Paths : InWindow(q)})
  BY DEF Inv, TypeOK, UserActs, Becomes
<1>2. PICK f \in {NoFile, [by |-> User, ver |-> 0]} : disk' = With(disk, p, f)
  BY DEF UserActs
<1>3. f \in File \cup {NoFile} /\ f.by \in {User, Nobody} /\ \A h \in Games : h # User /\ h # Nobody
  BY Files
<1>4. disk' \in Folder /\ \A q \in Paths : disk'[q] = IF q = p THEN f ELSE disk[q]
  BY <1>1, <1>2, <1>3, Folders
<1>5. edits' \in 0 .. MaxEdits
  BY <1>1, BoundsAssumption
<1>6. TypeOK'
  BY <1>1, <1>4, <1>5 DEF TypeOK, Targets
<1>7. /\ Untangled' = Untangled /\ StraysApart' = StraysApart /\ WholesApart' = WholesApart
      /\ \A h \in Games : Targets(h)' = Targets(h) /\ Staged(h)' = Staged(h) /\ Moving(h)' = Moving(h)
  BY <1>1 DEF Untangled, StraysApart, WholesApart, Targets, Staged, Moving
<1>8. Shapes'
  BY <1>1, <1>3, <1>4, <1>7 DEF Shapes, Shape, OwnFiles
<1>9. LookedAt'
  <2>1. ASSUME NEW h \in Games PROVE TargetsLooked(h)' /\ AsPlaced(h)'
    <3>1. Moving(h) => Targets(h) \subseteq Paths
      BY <1>1, TypedPaths, Files
    <3>2. Moving(h) /\ p \in Targets(h) => InWindow(p)
      BY DEF Moving, InWindow
    <3>3. TargetsLooked(h)'
      BY <1>1, <1>4, <1>7, <3>1, <3>2 DEF LookedAt, TargetsLooked
    <3>4. AsPlaced(h)'
      BY <1>1, <1>3, <1>4 DEF LookedAt, AsPlaced, Shapes, Shape, OwnFiles, Listed
    <3> QED BY <3>3, <3>4
  <2>2. DeleteLooked'
    <3>1. del.pc # "idle" => /\ del.g \in Games /\ OwnFiles(del.g, del.rec.files) /\ del.todo \subseteq Listed(del.rec.files)
                             /\ del.todo \subseteq Paths
      BY <1>1 DEF Shapes, TypeOK, Listed
    <3>2. del.pc = "remove" => \A q \in del.todo : q \in users' /\ disk'[q] # NoFile => q \in hit'
      BY <1>1, <1>4, <3>1 DEF LookedAt, DeleteLooked, InWindow
    <3>3. del.pc = "check" => \A q \in del.todo : q \in users' /\ disk'[q] = del.rec.files[q] => q \in hit'
      BY <1>1, <1>3, <1>4, <3>1 DEF LookedAt, DeleteLooked, OwnFiles
    <3> QED BY <1>1, <3>2, <3>3 DEF DeleteLooked
  <2> QED BY <2>1, <2>2 DEF LookedAt
<1>10. ApartFrom'
  BY <1>1, <1>7 DEF ApartFrom
<1>11. Strays'
  <2> SUFFICES ASSUME StraysApart, NEW h \in Games, Alone(h) PROVE MineListed(h)' /\ BesideOwn(h)'
    BY <1>7 DEF Strays, Alone
  <2>1. MineListed(h) /\ BesideOwn(h)
    BY DEF Inv, Strays
  <2>2. Mine(h)' \subseteq Mine(h)
    BY <1>1, <1>4 DEF Mine
  <2>3. MineListed(h)'
    BY <1>1, <2>1, <2>2 DEF MineListed
  <2>4. BesideOwn(h)'
    BY <1>1, <1>7, <2>1 DEF BesideOwn
  <2> QED BY <2>3, <2>4
<1>12. Wholes'
  <2> SUFFICES ASSUME WholesApart, NEW h \in Games, Alone(h) PROVE Whole(h)'
    BY <1>7 DEF Wholes, Alone
  <2>1. Whole(h) /\ Listed(record[h].files) \subseteq Paths /\ job[h].placed \subseteq Paths
    BY <1>1 DEF Inv, Wholes, Listed, TypeOK, Job
  <2> QED BY <1>1, <1>4, <1>7, <2>1 DEF Whole
<1> QED BY <1>6, <1>8, <1>9, <1>10, <1>11, <1>12 DEF Inv
\* After a stop, what is left of the invariant.
LEMMA OnceStopped == ASSUME TypeOK', Shapes', LookedAt', stops' # 0 PROVE Inv'
BY DEF Inv, ApartFrom, Strays, Wholes, Untangled, StraysApart, WholesApart

LEMMA StopStep == ASSUME Inv, Stop PROVE Inv'
<1> USE DEF store, world
<1>1. /\ TypeOK /\ Shapes /\ LookedAt /\ stops < MaxStops /\ stops \in 0 .. MaxStops /\ stops' = stops + 1
      /\ job' = [g \in Games |-> NoJob] /\ deleting' = {} /\ del' = DelIdle /\ chk' = ChkIdle /\ resumed' = FALSE
      /\ UNCHANGED <<disk, beside, record, offered, row, latest, users, hit, edits, mishaps>>
  BY DEF Inv, TypeOK, Stop
<1>2. \A g \in Games : job'[g] = NoJob
  BY <1>1
<1>3. stops' # 0 /\ stops' \in 0 .. MaxStops
  BY <1>1, BoundsAssumption
<1>4. TypeOK'
  BY <1>1, <1>2, <1>3, Jobs, Records DEF TypeOK, Targets
<1>5. ASSUME NEW g \in Games PROVE Shape(g)' /\ TargetsLooked(g)' /\ AsPlaced(g)'
  BY <1>1, <1>2, Jobs, Files DEF Shapes, Shape, OwnFiles, Moving, TargetsLooked, LookedAt, AsPlaced
<1>6. Shapes' /\ LookedAt'
  BY <1>1, <1>5, Records DEF Shapes, LookedAt, DeleteLooked, OwnFiles
<1> QED BY <1>3, <1>4, <1>6, OnceStopped

LEMMA ResumeStep == ASSUME Inv, Resume PROVE Inv'
<1> USE DEF store, world
<1>1. /\ TypeOK /\ Shapes /\ LookedAt /\ stops # 0 /\ resumed' = TRUE
      /\ UNCHANGED <<disk, beside, record, offered, deleting, del, chk, latest, users, hit, edits, stops>>
      /\ mishaps' \subseteq Env \cup {"tangle"} /\ row \in [Games -> Row] /\ job \in [Games -> Job]
  BY DEF Inv, TypeOK, ApartFrom, Resume
<1>2. row' \in [Games -> Row]
  <2>1. row' = [g \in Games |-> IF row[g].in /\ Landed(g) THEN NoRow ELSE row[g]]
    BY DEF Resume
  <2>2. \A g \in Games : row[g] \in Row /\ NoRow \in Row
    BY <1>1, Records
  <2> QED BY <2>1, <2>2
<1>3. ASSUME NEW g \in Games
      PROVE  /\ job'[g] \in Job
             /\ job'[g] = job[g] \/ /\ job'[g].pc \in {"queued", "failed"} /\ job'[g].old = Empty
                                    /\ job'[g].todo = {} /\ job'[g].placed = {}
  <2>1. job'[g] = IF ~row[g].in \/ Landed(g) \/ job[g].pc # "none" THEN job[g]
                  ELSE IF row[g].why = "none" THEN Queued(row[g].update)
                  ELSE Failed(Queued(row[g].update), row[g].why)
    BY DEF Resume
  <2>2. row[g].update \in BOOLEAN /\ row[g].why \in Why /\ job[g] \in Job
    BY <1>1 DEF Row
  <2>3. Queued(row[g].update) \in Job
    BY <2>2, Jobs
  <2> QED BY <2>1, <2>2, <2>3, Jobs
<1>4. job' \in [Games -> Job]
  <2>1. DOMAIN job' = Games /\ job' = [g \in Games |-> job'[g]]
    BY DEF Resume
  <2> QED BY <1>3, <2>1
<1>5. TypeOK'
  <2>1. \A g \in Games : /\ job'[g].todo \cap job'[g].placed = {}
                         /\ job'[g].pc \in {"clear", "save", "saved"} => job'[g].placed = Layout[g][job'[g].ver]
    BY <1>1, <1>3 DEF TypeOK, Targets
  <2> QED BY <1>1, <1>2, <1>4, <2>1 DEF TypeOK, Targets
<1>6. ASSUME NEW g \in Games PROVE Shape(g)' /\ TargetsLooked(g)' /\ AsPlaced(g)'
  <2>1. CASE job'[g] = job[g]
    BY <1>1, <2>1 DEF Shapes, LookedAt, Shape, OwnFiles, Moving, Targets, TargetsLooked, AsPlaced
  <2>2. CASE job'[g].pc \in {"queued", "failed"} /\ job'[g].old = Empty /\ job'[g].todo = {} /\ job'[g].placed = {}
    BY <1>1, <2>2, Files DEF Shapes, LookedAt, Shape, OwnFiles, Moving, TargetsLooked, AsPlaced
  <2> QED BY <1>3, <2>1, <2>2
<1>7. Shapes' /\ LookedAt'
  BY <1>1, <1>6 DEF Shapes, LookedAt, DeleteLooked, OwnFiles
<1> QED BY <1>1, <1>5, <1>7, OnceStopped

-----------------------------------------------------------------------------
(* The invariant. *)

LEMMA InvInit == Init => Inv
<1> SUFFICES ASSUME Init PROVE Inv
  OBVIOUS
<1>1. /\ disk = Empty /\ beside = Empty /\ \A p \in Paths : Empty[p] = NoFile
      /\ record = [g \in Games |-> NoRecord] /\ offered = {}
      /\ row = [g \in Games |-> NoRow] /\ job = [g \in Games |-> NoJob]
      /\ deleting = {} /\ del = DelIdle /\ chk = ChkIdle /\ resumed = TRUE
      /\ latest = [g \in Games |-> 1] /\ users = {} /\ hit = {} /\ edits = 0 /\ mishaps = {} /\ stops = 0
  BY DEF Init, Empty
<1>2. \A g \in Games : record[g] = NoRecord /\ job[g] = NoJob /\ g # Nobody
  BY <1>1, Files
<1>3. TypeOK
  <2>1. latest \in [Games -> Versions] /\ edits \in 0 .. MaxEdits /\ stops \in 0 .. MaxStops
    BY <1>1, BoundsAssumption DEF Versions
  <2>2. /\ record \in [Games -> Record] /\ row \in [Games -> Row] /\ job \in [Games -> Job]
        /\ disk \in Folder /\ beside \in Folder /\ del \in Del /\ chk \in Chk
    BY <1>1, Files, Jobs, Records
  <2> QED BY <1>1, <1>2, <2>1, <2>2, Jobs, Records DEF TypeOK
<1>4. Shapes
  BY <1>1, <1>2, Files, Jobs, Records DEF Shapes, Shape, OwnFiles, Moving
<1>5. LookedAt
  BY <1>1, <1>2, Jobs, Records DEF LookedAt, TargetsLooked, AsPlaced, DeleteLooked, Moving
<1>6. ApartFrom
  BY <1>1, <1>2, Jobs, Records DEF ApartFrom
<1>7. \A g \in Games : Mine(g) = {} /\ MineListed(g) /\ BesideOwn(g)
  BY <1>1, <1>2, Files, Jobs, Records DEF Mine, MineListed, BesideOwn
<1>8. \A g \in Games : Whole(g)
  BY <1>1, <1>2, Jobs, Records DEF Whole
<1> QED BY <1>3, <1>4, <1>5, <1>6, <1>7, <1>8 DEF Inv, Strays, Wholes

LEMMA InvStep == Inv /\ [Next]_vars => Inv'
<1> SUFFICES ASSUME Inv, [Next]_vars PROVE Inv'
  OBVIOUS
<1>1. ASSUME NEW g \in Games, Queue(g) \/ Cancel(g) \/ Download(g) PROVE Inv'
  BY <1>1, QueueStep, CalmSteps, StartStep, CheckStep, PlaceStep, PlaceFailsStep, BesideStep, BesideFailsStep,
     SwapStep, SwapFailsStep, ClearStep, SaveStep, SaveFailsStep DEF Download
<1>2. CASE Deletes
  BY <1>2, RestSteps, ReadsStep, RemovesStep, ChecksStep, ForgetsStep DEF Deletes
<1>3. CASE Checks
  BY <1>3, RestSteps, DropsStep DEF Checks
<1> QED BY <1>1, <1>2, <1>3, ResumeStep, UserStep, RestSteps, StopStep DEF Next

LEMMA InvHolds == Spec => []Inv
BY InvInit, InvStep, PTL DEF Spec
-----------------------------------------------------------------------------
(* Theorems. *)

\* Types: the variables keep their types, what an attempt has placed and what it has still to place
\* are apart, and all of it is placed by the time place or swap is through (downloads.go).
THEOREM TypesHold == Spec => []TypeOK
BY InvHolds, PTL DEF Inv

\* A failed place, a refused update, a failed SaveOwned and a refused, failed or repeated delete
\* leave no file of a game that its record doesn't list, and no update's file beside its target.
THEOREM NoStraysHolds == Spec => []NoStrays
<1>1. Inv => NoStrays
  <2> SUFFICES ASSUME Inv, stops = 0, mishaps \cap {"tangle", "moved", "rename"} = {}, NEW g \in Games, Alone(g)
               PROVE  RecordedOf(g)
    BY DEF NoStrays
  <2>1. MineListed(g) /\ BesideOwn(g)
    BY DEF Inv, Strays, StraysApart, Untangled
  <2> QED BY <2>1 DEF RecordedOf, AtRest, MineListed, BesideOwn, Mine, Listed
<1> QED BY <1>1, InvHolds, PTL

\* What the record of a game at rest lists is there as placed, unless the user changed it: neither an
\* update refused or failed before its swap nor a delete asked for again breaks it (swap, deleteGame).
THEOREM RecordTrueHolds == Spec => []RecordTrue
<1>1. Inv => RecordTrue
  <2> SUFFICES ASSUME Inv, stops = 0, mishaps \cap {"tangle", "moved", "rename", "save", "remove"} = {},
                      NEW g \in Games, Alone(g), AtRest(g), NEW p \in Listed(record[g].files)
               PROVE  disk[p] = record[g].files[p] \/ p \in users
    BY DEF RecordTrue
  <2>1. Whole(g)
    BY DEF Inv, Wholes, WholesApart, StraysApart, Untangled
  <2> QED BY <2>1 DEF AtRest, Whole
<1> QED BY <1>1, InvHolds, PTL

\* A file of the user's is replaced or removed only where an update's record lists it, or when it
\* came after the look at its path: with any layout, whatever fails and wherever the backend stops
\* (place, swap, SaveOwned's roll-back, deleteGame).
THEOREM UserFilesKeptHolds == Spec => UserFilesKept
<1>1. Inv /\ [Next]_vars => \A p \in Paths : Taken(p) => p \in hit \/ Replacing(p)
  <2> USE DEF store, world
  <2> SUFFICES ASSUME Inv, [Next]_vars, NEW p \in Paths, Taken(p) PROVE p \in hit \/ Replacing(p)
    OBVIOUS
  <2>1. /\ TypeOK /\ Shapes /\ LookedAt /\ p \in users /\ disk[p] # NoFile /\ disk'[p] # disk[p] /\ edits' = edits
        /\ disk \in Folder
    BY DEF Inv, Taken, TypeOK
  <2>2. ASSUME NEW g \in Games, Moving(g), p \in Targets(g), job[g].pc \in {"place", "swap", "clear", "save"}
        PROVE  p \in hit \/ Replacing(p)
    <3>1. p \in Listed(job[g].old) => job[g].pc \in {"swap", "clear", "save"}
      BY <2>1, <2>2, Files DEF Shapes, Shape
    <3> QED BY <2>1, <2>2, <3>1 DEF LookedAt, TargetsLooked, Replacing
  <2>3. ASSUME NEW g \in Games, Download(g) PROVE p \in hit \/ Replacing(p)
    <3>1. job[g].pc \in {"place", "swap", "clear", "save"} => Moving(g) /\ job[g].placed \subseteq Targets(g)
      BY <2>1, TypedPaths DEF Moving
    <3>2. job[g].pc \in {"place", "swap"} => job[g].todo \subseteq Targets(g)
      BY <2>1 DEF Shapes, Shape
    <3>3. ASSUME NEW q \in Paths, Place(g, q) \/ PlaceFails(g, q) \/ Swap(g, q) \/ SwapFails(g, q) PROVE p \in Targets(g)
      <4>1. job[g].pc \in {"place", "swap"} /\ q \in Targets(g) /\ job[g].placed \subseteq Targets(g)
        BY <3>1, <3>2, <3>3 DEF Place, PlaceFails, Swap, SwapFails
      <4>2. p = q \/ p \in job[g].placed
        BY <2>1, <3>3 DEF Place, PlaceFails, Swap, SwapFails, With, Without, Folder
      <4> QED BY <4>1, <4>2
    <3>4. CASE \E q \in Paths : Place(g, q) \/ PlaceFails(g, q) \/ Swap(g, q) \/ SwapFails(g, q)
      <4>1. job[g].pc \in {"place", "swap"} /\ p \in Targets(g)
        BY <3>3, <3>4 DEF Place, PlaceFails, Swap, SwapFails
      <4> QED BY <2>2, <3>1, <4>1
    <3>5. CASE ClearOld(g)
      BY <2>1, <3>5 DEF ClearOld, Without, Replacing
    <3>6. CASE SaveFails(g)
      <4>1. job[g].pc = "save" /\ p \in job[g].placed
        BY <2>1, <3>6 DEF SaveFails, Without
      <4> QED BY <2>2, <3>1, <4>1
    <3>7. disk' = disk \/ ClearOld(g) \/ SaveFails(g)
            \/ \E q \in Paths : Place(g, q) \/ PlaceFails(g, q) \/ Swap(g, q) \/ SwapFails(g, q)
      BY <2>3 DEF Download, Start, FetchFails, Check, Beside, BesideFails, Save, Installed
    <3> QED BY <2>1, <3>4, <3>5, <3>6, <3>7
  <2>4. ASSUME NEW q \in Paths, DeleteRemoves(q) PROVE p \in hit \/ Replacing(p)
    <3>1. del.pc = "remove" /\ p = q /\ q \in del.todo
      BY <2>1, <2>4 DEF DeleteRemoves, With, Folder
    <3> QED BY <2>1, <3>1 DEF LookedAt, DeleteLooked
  <2>5. \/ \E g \in Games : Download(g)
        \/ \E q \in Paths : DeleteRemoves(q)
    <3>1. \A q \in Paths : ~UserActs(q)
      BY <2>1, BoundsAssumption DEF UserActs, TypeOK
    <3>2. \A g \in Games : ~Queue(g) /\ ~Cancel(g) /\ ~Publish(g) /\ ~Offer(g)
      BY <2>1 DEF Queue, Cancel, Publish, Offer
    <3>3. ~Resume /\ ~Checks /\ ~Stop /\ disk' # disk
      BY <2>1 DEF Resume, Checks, CheckReads, CheckLooks, CheckFails, CheckDrops, Stop
    <3>4. Deletes => \E q \in Paths : DeleteRemoves(q)
      BY <2>1 DEF Deletes, Delete, DeleteReads, DeleteChecks, DeleteFails, DeleteForgets
    <3> QED BY <3>1, <3>2, <3>3, <3>4 DEF Next, vars
  <2> QED BY <2>3, <2>4, <2>5
<1> QED BY <1>1, InvHolds, PTL DEF Spec, UserFilesKept

================================================================================
