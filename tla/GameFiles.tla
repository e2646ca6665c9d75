------------------------------- MODULE GameFiles -------------------------------
(***************************************************************************)
(* What becomes of a game's files in the ROM folders, and of the record of *)
(* them in state.db: the end of a download (place, or swap for an update,  *)
(* then SaveOwned), deletes, CheckOwned on each library refresh, and the   *)
(* user, who may change any file at any time.  The queue is reduced to one *)
(* job and one row per game; DownloadQueue has the whole of it.            *)
(*                                                                         *)
(* One action is one file moved or removed, or one state.db transaction:   *)
(* the plugin can stop between any two, and everything else can happen     *)
(* between them.  One attempt of a download runs for each game.            *)
(***************************************************************************)
EXTENDS Naturals, FiniteSets

CONSTANTS
  Games,      \* ROM ids
  Paths,      \* paths under the ROM folders
  MaxVer,     \* bound: versions RomM has of a game, one after the other
  Layout,     \* Layout[g][v]: the paths PlanLayout gives version v of g
  User,       \* who a file that isn't the plugin's is by
  Nobody,     \* who the file that isn't there is by
  Env,        \* what happens around the code, of the names after "in Env" below
  MaxEdits,   \* bound: files the user changes, adds or removes
  MaxFaults,  \* bound: kinds of calls of the file system or of state.db that fail, each once
  MaxStops    \* bound: times the backend stops or dies

Versions == 1..MaxVer

ASSUME LayoutAssumption == Layout \in [Games -> [Versions -> (SUBSET Paths) \ {{}}]]
ASSUME BoundsAssumption == MaxVer \in Nat \ {0} /\ MaxEdits \in Nat /\ MaxFaults \in Nat /\ MaxStops \in Nat
ASSUME NamesAssumption == User \notin Games /\ Nobody \notin Games /\ User # Nobody

VARIABLES
  disk,       \* what is at each path
  beside,     \* what is at each path's newSuffix name
  record,     \* state.db's owned_roms, with their files and the version they are of
  offered,    \* games with update_available set
  row,        \* state.db's download_queue
  job,        \* d.jobs, with the locals of download, place and swap
  deleting,   \* d.deleting
  del,        \* the delete deleteMu lets run
  chk,        \* the game CheckOwned is at
  resumed,    \* Resume has run since the backend started
  latest,     \* the version RomM has of each game
  users,      \* auxiliary: paths whose file, or its absence, is the user's doing or was left to the user
  hit,        \* auxiliary: those that became so between a check of the path and what it was for
  mishaps,    \* calls that failed so far, of the names in Env; "tangle": a game queued during its delete
  edits, stops

store  == <<record, offered, row>>
world  == <<latest, users, hit, edits, stops>>
vars   == <<disk, beside, store, job, deleting, del, chk, resumed, world, mishaps>>

-----------------------------------------------------------------------------
(* Data. *)

\* A file as its size, modification time and SHA-1 tell it apart: whose it is and of which version.
File == [by : Games \cup {User}, ver : 0..MaxVer]
NoFile == [by |-> Nobody, ver |-> 0]
Folder == [Paths -> File \cup {NoFile}]
Empty == [p \in Paths |-> NoFile]

\* domain.OwnedROM: the files placed, and Snapshot as the version of RomM's it is of.
Record == [in : BOOLEAN, files : Folder, ver : 0..MaxVer]
NoRecord == [in |-> FALSE, files |-> Empty, ver |-> 0]

\* The paths a record or an update's old files list.
Listed(files) == {p \in Paths : files[p] # NoFile}

\* j.Problem: KindTargetExists, or any other.
Why == {"none", "exists", "error"}

\* domain.QueuedDownload
Row == [in : BOOLEAN, update : BOOLEAN, why : Why]
NoRow == [in |-> FALSE, update |-> FALSE, why |-> "none"]

\* Where an attempt stands: queued before it starts; fetch, from reading the record to the last
\* staged file; place and then save; or beside, swap and clear, then save; saved until the row goes.
\* todo is what a loop has left, placed what it placed.
JobPC == {"none", "queued", "fetch", "place", "beside", "swap", "clear", "save", "saved", "failed"}
Job == [pc : JobPC, update : BOOLEAN, ver : 0..MaxVer, old : Folder,
        todo : SUBSET Paths, placed : SUBSET Paths, why : Why]
NoJob == [pc |-> "none", update |-> FALSE, ver |-> 0, old |-> Empty,
          todo |-> {}, placed |-> {}, why |-> "none"]
Queued(update) == [NoJob EXCEPT !.pc = "queued", !.update = update]
Failed(j, why) == [NoJob EXCEPT !.pc = "failed", !.update = j.update, !.why = why]

Del == [pc : {"idle", "check", "remove"}, g : Games \cup {Nobody}, rec : Record, todo : SUBSET Paths]
DelIdle == [pc |-> "idle", g |-> Nobody, rec |-> NoRecord, todo |-> {}]
Chk == [pc : {"idle", "read", "drop"}, g : Games \cup {Nobody}, rec : Record]
ChkIdle == [pc |-> "idle", g |-> Nobody, rec |-> NoRecord]

Targets(g) == Layout[g][job[g].ver]
Staged(g) == [by |-> g, ver |-> job[g].ver]

\* CheckOwned, CheckUpdates and delete leave such games alone.
Busy(g) == job[g].pc # "none" \/ g \in deleting

\* Folders without the files at S; with one file at p.
Without(folder, S) == [p \in Paths |-> IF p \in S THEN NoFile ELSE folder[p]]
With(folder, p, f) == [folder EXCEPT ![p] = f]

\* A file that was looked at, for what hasn't been done to it yet.
InWindow(p) == \/ \E g \in Games : /\ job[g].pc \in {"place", "beside", "swap", "clear", "save"}
                                   /\ p \in Targets(g) \cup Listed(job[g].old)
               \/ del.pc = "remove" /\ p \in del.todo

\* What is at the paths S is the user's from now on, at those of raced after it was looked at.
Becomes(S, raced) == /\ users' = users \cup S
                     /\ hit' = (hit \ S) \cup (S \cap raced)

\* The files of a game the plugin stops managing are the user's.  A delete of it already asked for
\* goes on.
LeftToUser(g) == Becomes({p \in Paths : disk[p].by = g}, {p \in Paths : InWindow(p)} \cup del.todo)

Fault(name) == /\ name \in Env \ mishaps
               /\ Cardinality(mishaps \ {"tangle"}) < MaxFaults
               /\ mishaps' = mishaps \cup {name}

\* run's tail for an attempt that failed: the failure is kept, and saved.
Fails(g, why) == /\ job' = [job EXCEPT ![g] = Failed(@, why)]
                 /\ row' = [row EXCEPT ![g].why = why]

-----------------------------------------------------------------------------
(* The queue. *)

\* Queue: a recorded game only as its update, another only where nothing is; a failed one again.
Queue(g) == /\ job[g].pc \in {"none", "failed"}
            /\ IF g \in deleting THEN "tangle" \in Env /\ mishaps' = mishaps \cup {"tangle"}
                                 ELSE UNCHANGED mishaps
            /\ IF record[g].in THEN g \in offered
                               ELSE \A p \in Layout[g][latest[g]] : disk[p] = NoFile
            /\ LET update == IF job[g].pc = "failed" THEN job[g].update ELSE record[g].in
               IN /\ job' = [job EXCEPT ![g] = Queued(update)]
                  /\ row' = [row EXCEPT ![g] = [in |-> TRUE, update |-> update, why |-> "none"]]
            /\ UNCHANGED <<disk, beside, record, offered, deleting, del, chk, resumed, world>>

\* Cancel, or dismissing a failure; an attempt that has begun to place goes on.
Cancel(g) == /\ job[g].pc \in {"queued", "fetch", "failed"}
             /\ job' = [job EXCEPT ![g] = NoJob]
             /\ row' = [row EXCEPT ![g] = NoRow]
             /\ UNCHANGED <<disk, beside, record, offered, deleting, del, chk, resumed, world, mishaps>>

\* recorded: a row whose game already landed.
Landed(g) == record[g].in /\ (row[g].update => g \notin offered)

\* Resume: what landed leaves the queue, what the queue doesn't hold yet goes back into it.
Resume == /\ ~resumed
          /\ resumed' = TRUE
          /\ row' = [g \in Games |-> IF row[g].in /\ Landed(g) THEN NoRow ELSE row[g]]
          /\ job' = [g \in Games |->
                      IF ~row[g].in \/ Landed(g) \/ job[g].pc # "none" THEN job[g]
                      ELSE IF row[g].why = "none" THEN Queued(row[g].update)
                      ELSE Failed(Queued(row[g].update), row[g].why)]
          /\ mishaps' = IF \E g \in deleting : job'[g] # job[g] THEN mishaps \cup {"tangle"} ELSE mishaps
          /\ UNCHANGED <<disk, beside, record, offered, deleting, del, chk, world>>

-----------------------------------------------------------------------------
(* A download, from its record to its staged files. *)

\* Variant: an update that doesn't look at what is in its way.
NoTargetCheck(g) == TRUE

\* checkTarget for every path: free, or one of the files an update replaces.
Clear(g, files) == \A p \in Layout[g][latest[g]] : disk[p] = NoFile \/ files[p] # NoFile
TargetsClear(g) == \A p \in Targets(g) : disk[p] = NoFile \/ job[g].old[p] # NoFile

\* download reads the record an update replaces and what RomM has; without a record it fails.
Start(g) == /\ job[g].pc = "queued"
            /\ LET files == IF job[g].update THEN record[g].files ELSE Empty
                   gone == job[g].update /\ ~record[g].in
               IN \/ /\ ~gone
                     /\ job' = [job EXCEPT ![g].pc = "fetch", ![g].ver = latest[g], ![g].old = files]
                     /\ UNCHANGED row
                  \* What's in the way fails it now, unless only its extracted files will tell.
                  \/ gone /\ Fails(g, "error")
                  \/ ~gone /\ ~Clear(g, files) /\ Fails(g, "exists")
            /\ UNCHANGED <<disk, beside, record, offered, deleting, del, chk, resumed, world, mishaps>>

\* No sign-in, a transfer, an extraction or a full drive fails it before anything is placed.
FetchFails(g) == /\ job[g].pc \in {"queued", "fetch"}
                 /\ Fault("fetch")
                 /\ Fails(g, "error")
                 /\ UNCHANGED <<disk, beside, record, offered, deleting, del, chk, resumed, world>>

\* place and swap look at every target before they move anything.
Check(g) == /\ job[g].pc = "fetch"
            /\ IF TargetsClear(g)
               THEN /\ job' = [job EXCEPT ![g].pc = IF job[g].update THEN "beside" ELSE "place",
                                          ![g].todo = Targets(g)]
                    /\ UNCHANGED row
               ELSE Fails(g, "exists")
            /\ UNCHANGED <<disk, beside, record, offered, deleting, del, chk, resumed, world, mishaps>>

-----------------------------------------------------------------------------
(* place. *)

\* One file into its folder.  A rename replaces what is there by now.
Place(g, p) ==
  /\ job[g].pc = "place" /\ p \in job[g].todo
  /\ disk' = With(disk, p, Staged(g))
  /\ users' = users \ {p}
  /\ job' = [job EXCEPT ![g].todo = @ \ {p}, ![g].placed = @ \cup {p},
                        ![g].pc = IF job[g].todo = {p} THEN "save" ELSE "place"]
  /\ UNCHANGED <<beside, store, deleting, del, chk, resumed, latest, hit, edits, stops, mishaps>>

\* A file can't be moved: the ones moved before it go back out.
PlaceFails(g, p) ==
  /\ job[g].pc = "place" /\ p \in job[g].todo
  /\ \/ Fault("place") /\ disk' = Without(disk, job[g].placed) /\ UNCHANGED users
     \* It is where it goes, and moveFile's last os.Remove or the os.Stat after it fails.
     \/ /\ Fault("moved")
        /\ disk' = With(Without(disk, job[g].placed), p, Staged(g))
        /\ users' = users \ {p}
  /\ Fails(g, "error")
  /\ UNCHANGED <<beside, record, offered, deleting, del, chk, resumed, latest, hit, edits, stops>>

-----------------------------------------------------------------------------
(* swap. *)

\* Variant: straight over the old file.
BesideOver(g, p) ==
  /\ job[g].pc = "beside" /\ p \in job[g].todo
  /\ beside' = With(beside, p, Staged(g))
  /\ disk' = With(disk, p, Staged(g))
  /\ job' = IF job[g].todo = {p}
            THEN [job EXCEPT ![g].pc = "swap", ![g].todo = Targets(g)]
            ELSE [job EXCEPT ![g].todo = @ \ {p}]
  /\ UNCHANGED <<store, deleting, del, chk, resumed, world, mishaps>>

\* One file beside its target, replacing one an earlier update left there.
Beside(g, p) ==
  /\ job[g].pc = "beside" /\ p \in job[g].todo
  /\ beside' = With(beside, p, Staged(g))
  /\ job' = IF job[g].todo = {p}
            THEN [job EXCEPT ![g].pc = "swap", ![g].todo = Targets(g)]
            ELSE [job EXCEPT ![g].todo = @ \ {p}]
  /\ UNCHANGED <<disk, store, deleting, del, chk, resumed, world, mishaps>>

\* A file can't be moved beside its target: unready, and the old version stays.
BesideFails(g, p) ==
  /\ job[g].pc = "beside" /\ p \in job[g].todo
  /\ Fault("beside")
  /\ beside' = Without(beside, Targets(g) \ job[g].todo)
  /\ Fails(g, "error")
  /\ UNCHANGED <<disk, record, offered, deleting, del, chk, resumed, world>>

\* One file over its target.
Swap(g, p) ==
  /\ job[g].pc = "swap" /\ p \in job[g].todo
  /\ beside[p] # NoFile
  /\ disk' = With(disk, p, beside[p])
  /\ beside' = With(beside, p, NoFile)
  /\ users' = users \ {p}
  /\ job' = [job EXCEPT ![g].todo = @ \ {p}, ![g].placed = @ \cup {p},
                        ![g].pc = IF job[g].todo = {p} THEN "clear" ELSE "swap"]
  /\ UNCHANGED <<store, deleting, del, chk, resumed, latest, hit, edits, stops, mishaps>>

\* A rename fails, or finds nothing to rename, or the os.Stat after it fails: what was swapped
\* stays, and so does what wasn't.
SwapFails(g, p) ==
  /\ job[g].pc = "swap" /\ p \in job[g].todo
  /\ \/ /\ IF beside[p] = NoFile THEN UNCHANGED mishaps ELSE Fault("rename")
        /\ UNCHANGED <<disk, beside, users>>
     \/ /\ beside[p] # NoFile
        /\ Fault("moved")
        /\ disk' = With(disk, p, beside[p])
        /\ beside' = With(beside, p, NoFile)
        /\ users' = users \ {p}
  /\ Fails(g, "error")
  /\ UNCHANGED <<record, offered, deleting, del, chk, resumed, latest, hit, edits, stops>>

\* The old files the update no longer has go.
ClearOld(g) ==
  /\ job[g].pc = "clear"
  /\ disk' = Without(disk, Listed(job[g].old) \ job[g].placed)
  /\ job' = [job EXCEPT ![g].pc = "save"]
  /\ UNCHANGED <<beside, store, deleting, del, chk, resumed, world, mishaps>>

-----------------------------------------------------------------------------
(* The record, and the end of the download. *)

\* SaveOwned: the files as placed, in place of any earlier record, with no update offered.
Save(g) ==
  /\ job[g].pc = "save"
  /\ record' = [record EXCEPT ![g] = [in |-> TRUE, ver |-> job[g].ver,
                  files |-> [p \in Paths |-> IF p \in job[g].placed THEN Staged(g) ELSE NoFile]]]
  /\ offered' = offered \ {g}
  /\ users' = users \ {p \in job[g].placed : disk[p] = Staged(g)}
  /\ job' = [job EXCEPT ![g].pc = "saved"]
  /\ UNCHANGED <<disk, beside, row, deleting, del, chk, resumed, latest, hit, edits, stops, mishaps>>

\* Variant: the files stay where they are.
SaveFailsQuietly(g) ==
  /\ job[g].pc = "save"
  /\ Fault("save")
  /\ Fails(g, "error")
  /\ UNCHANGED <<disk, beside, record, offered, deleting, del, chk, resumed, world>>

\* Without a record the placed files go; for an update, that is the new version over the old one.
SaveFails(g) ==
  /\ job[g].pc = "save"
  /\ Fault("save")
  /\ disk' = Without(disk, job[g].placed)
  /\ Fails(g, "error")
  /\ UNCHANGED <<beside, record, offered, deleting, del, chk, resumed, world>>

\* run takes an installed game out of the queue.
Installed(g) ==
  /\ job[g].pc = "saved"
  /\ job' = [job EXCEPT ![g] = NoJob]
  /\ row' = [row EXCEPT ![g] = NoRow]
  /\ UNCHANGED <<disk, beside, record, offered, deleting, del, chk, resumed, world, mishaps>>

-----------------------------------------------------------------------------
(* Deletes. *)

\* delete: games not busy are marked under d.mu, and runDeletes takes them one by one.
Delete(g) == /\ record[g].in /\ ~Busy(g)
             /\ deleting' = deleting \cup {g}
             /\ UNCHANGED <<disk, beside, store, job, del, chk, resumed, world, mishaps>>

\* deleteGame reads the record; a game without one is done.
DeleteReads(g) ==
  /\ del.pc = "idle" /\ g \in deleting
  /\ IF record[g].in
     THEN /\ del' = [pc |-> "check", g |-> g, rec |-> record[g], todo |-> Listed(record[g].files)]
          /\ UNCHANGED deleting
     ELSE deleting' = deleting \ {g} /\ UNCHANGED del
  /\ UNCHANGED <<disk, beside, store, job, chk, resumed, world, mishaps>>

\* unchanged, of every file: as placed, or gone.
Unchanged(rec) == \A p \in Listed(rec.files) : disk[p] \in {rec.files[p], NoFile}

\* DeleteOwned.
Forget(g) == /\ record' = [record EXCEPT ![g] = NoRecord]
             /\ offered' = offered \ {g}

DeleteEnded(g) == del' = DelIdle /\ deleting' = deleting \ {g}

\* A file changed: the game is the user's now, and nothing goes.
DeleteChecks ==
  /\ del.pc = "check"
  /\ IF Unchanged(del.rec)
     THEN del' = [del EXCEPT !.pc = "remove"] /\ UNCHANGED <<record, offered, deleting, users, hit>>
     ELSE Forget(del.g) /\ DeleteEnded(del.g) /\ LeftToUser(del.g)
  /\ UNCHANGED <<disk, beside, row, job, chk, resumed, latest, edits, stops, mishaps>>

DeleteRemoves(p) ==
  /\ del.pc = "remove" /\ p \in del.todo
  /\ disk' = With(disk, p, NoFile)
  /\ del' = [del EXCEPT !.todo = @ \ {p}]
  /\ UNCHANGED <<beside, store, job, deleting, chk, resumed, world, mishaps>>

\* A file can't be read or removed, or its save not set aside, or the record not dropped: the record
\* stays, for another try.
DeleteFails ==
  /\ del.pc # "idle"
  /\ Fault("remove")
  /\ DeleteEnded(del.g)
  /\ UNCHANGED <<disk, beside, store, job, chk, resumed, world>>

DeleteForgets ==
  /\ del.pc = "remove" /\ del.todo = {}
  /\ Forget(del.g) /\ DeleteEnded(del.g)
  /\ UNCHANGED <<disk, beside, row, job, chk, resumed, world, mishaps>>

-----------------------------------------------------------------------------
(* CheckOwned. *)

\* The record of a game that isn't busy, read once d.mu is free again.
CheckReads(g) == /\ chk.pc = "idle" /\ ~Busy(g) /\ record[g].in
                 /\ chk' = [pc |-> "read", g |-> g, rec |-> record[g]]
                 /\ UNCHANGED <<disk, beside, store, job, deleting, del, resumed, world, mishaps>>

\* drift: some file isn't as placed.
Drifted(files) == \E p \in Listed(files) : disk[p] # files[p]

CheckLooks == /\ chk.pc = "read"
              /\ chk' = IF Drifted(chk.rec.files) THEN [chk EXCEPT !.pc = "drop"] ELSE ChkIdle
              /\ UNCHANGED <<disk, beside, store, job, deleting, del, resumed, world, mishaps>>

\* The files can't be looked at, or the record not dropped.
CheckFails == /\ chk.pc # "idle"
              /\ Fault("check")
              /\ chk' = ChkIdle
              /\ UNCHANGED <<disk, beside, store, job, deleting, del, resumed, world>>

\* The record goes, whatever it says by now.
CheckDrops == /\ chk.pc = "drop"
              /\ Forget(chk.g) /\ LeftToUser(chk.g)
              /\ chk' = ChkIdle
              /\ UNCHANGED <<disk, beside, row, job, deleting, del, resumed, latest, edits, stops, mishaps>>

-----------------------------------------------------------------------------
(* Around the code. *)

\* The user puts a file of theirs at p, or takes away what is there.
UserActs(p) ==
  /\ "edit" \in Env /\ edits < MaxEdits
  /\ \/ disk' = With(disk, p, [by |-> User, ver |-> 0])
     \/ disk[p] # NoFile /\ disk' = With(disk, p, NoFile)
  /\ Becomes({p}, {q \in Paths : InWindow(q)})
  /\ edits' = edits + 1
  /\ UNCHANGED <<beside, store, job, deleting, del, chk, resumed, latest, stops, mishaps>>

\* RomM's files of a game change.
Publish(g) == /\ latest[g] < MaxVer
              /\ latest' = [latest EXCEPT ![g] = @ + 1]
              /\ UNCHANGED <<disk, beside, store, job, deleting, del, chk, resumed,
                             users, hit, edits, stops, mishaps>>

\* CheckUpdates finds a recorded game's snapshot isn't RomM's any more.
Offer(g) == /\ record[g].in /\ ~Busy(g) /\ record[g].ver # latest[g] /\ g \notin offered
            /\ offered' = offered \cup {g}
            /\ UNCHANGED <<disk, beside, record, row, job, deleting, del, chk, resumed, world, mishaps>>

\* The backend stops or dies, and starts again: what was in memory is gone.
Stop == /\ "stop" \in Env /\ stops < MaxStops
        /\ stops' = stops + 1
        /\ job' = [g \in Games |-> NoJob]
        /\ deleting' = {} /\ del' = DelIdle /\ chk' = ChkIdle
        /\ resumed' = FALSE
        /\ UNCHANGED <<disk, beside, store, latest, users, hit, edits, mishaps>>

-----------------------------------------------------------------------------
Init == /\ disk = Empty /\ beside = Empty
        /\ record = [g \in Games |-> NoRecord] /\ offered = {}
        /\ row = [g \in Games |-> NoRow] /\ job = [g \in Games |-> NoJob]
        /\ deleting = {} /\ del = DelIdle /\ chk = ChkIdle /\ resumed = TRUE
        /\ latest = [g \in Games |-> 1]
        /\ users = {} /\ hit = {} /\ edits = 0 /\ mishaps = {} /\ stops = 0

Download(g) == \/ Start(g) \/ FetchFails(g) \/ Check(g)
               \/ \E p \in Paths : Place(g, p) \/ PlaceFails(g, p)
               \/ \E p \in Paths : Beside(g, p) \/ BesideFails(g, p)
               \/ \E p \in Paths : Swap(g, p) \/ SwapFails(g, p)
               \/ ClearOld(g) \/ Save(g) \/ SaveFails(g) \/ Installed(g)

Deletes == \/ \E g \in Games : Delete(g) \/ DeleteReads(g)
           \/ \E p \in Paths : DeleteRemoves(p)
           \/ DeleteChecks \/ DeleteFails \/ DeleteForgets

Checks == \/ \E g \in Games : CheckReads(g)
          \/ CheckLooks \/ CheckFails \/ CheckDrops

Next == \/ \E g \in Games : Queue(g) \/ Cancel(g) \/ Download(g)
        \/ Resume \/ Deletes \/ Checks
        \/ \E p \in Paths : UserActs(p)
        \/ \E g \in Games : Publish(g) \/ Offer(g)
        \/ Stop

Spec == Init /\ [][Next]_vars

-----------------------------------------------------------------------------
(* Properties. *)

\* Types; and the locals of an attempt and of a delete fit its game (download, deleteGame).
TypeOK ==
  /\ disk \in Folder /\ beside \in Folder
  /\ record \in [Games -> Record] /\ offered \subseteq Games
  /\ row \in [Games -> Row] /\ job \in [Games -> Job]
  /\ deleting \subseteq Games /\ del \in Del /\ chk \in Chk /\ resumed \in BOOLEAN
  /\ latest \in [Games -> Versions] /\ users \subseteq Paths /\ hit \subseteq Paths
  /\ edits \in 0..MaxEdits /\ mishaps \subseteq Env \cup {"tangle"} /\ stops \in 0..MaxStops
  /\ \A g \in Games : /\ job[g].todo \cap job[g].placed = {}
                      /\ job[g].pc \in {"clear", "save", "saved"} => job[g].placed = Targets(g)
  /\ del.pc # "idle" => del.g \in deleting /\ del.rec.in

\* A game nothing is moving or removing files of: no attempt past fetch, no delete past its check.
AtRest(g) == /\ job[g].pc \in {"none", "queued", "fetch", "failed"}
             /\ ~(del.g = g /\ del.pc = "remove")

\* A file at p that is the user's, and is replaced or removed by a step that isn't the user's.
Taken(p) == p \in users /\ disk[p] # NoFile /\ disk'[p] # disk[p] /\ edits' = edits

\* An update of some game lists p among the files it replaces.
Replacing(p) == \E g \in Games : job[g].pc \in {"swap", "clear", "save"} /\ p \in Listed(job[g].old)

\* What the user put in a ROM folder, or was left there, the plugin replaces or removes only at a
\* path an update's record lists, or when it came between the check of that path (checkFree,
\* unchanged) and the move or removal: place, its roll-back, swap, SaveOwned's roll-back and
\* deleteGame otherwise keep away from it, whatever fails and wherever the backend stops.
UserFilesKept == [][\A p \in Paths : Taken(p) => p \in hit \/ Replacing(p)]_vars

\* Files of a game at rest are files its record lists, and no update's file is left beside its
\* target.
RecordedOf(g) == AtRest(g) => \A p \in Paths :
                   /\ disk[p].by = g /\ p \notin users => record[g].files[p] # NoFile
                   /\ beside[p].by # g
Recorded == \A g \in Games : RecordedOf(g)

\* A game none of whose files, of any version, goes where another's does.
Alone(g) == \A h \in Games \ {g}, v, w \in Versions : Layout[g][v] \cap Layout[h][w] = {}

\* A failed move, a failed SaveOwned and a refused, failed or repeated delete leave nothing the
\* plugin downloaded that it could never update or delete (downloads.go:808).  What a stop or a
\* failed rename of swap leaves waits for the next attempt; a game queued during its delete, and one
\* that shares a path with another, may leave more.
NoStrays == stops = 0 /\ mishaps \cap {"tangle", "moved", "rename"} = {} =>
              \A g \in Games : Alone(g) => RecordedOf(g)

\* The record of a game at rest is true: every file it lists is there as placed, unless the user
\* changed it since.  A refused or failed update leaves the old version whole (swap), but for one
\* that fails once it has begun to replace it, and a delete that fails goes on when asked again.
\* Of games that share no path with another.
RecordTrue ==
  stops = 0 /\ mishaps \cap {"tangle", "moved", "rename", "save", "remove"} = {} =>
    \A g \in Games : Alone(g) /\ AtRest(g) => \A p \in Listed(record[g].files) :
      disk[p] = record[g].files[p] \/ p \in users

\* "Without a record the files would be User-managed, and the plugin could never update or delete
\* them" (downloads.go:808): they have one, whatever is queued, updated and deleted meanwhile.
NoneForgotten == stops = 0 /\ mishaps \subseteq {"tangle"} => Recorded

\* docs/downloads.md:24, "The plugin never overwrites a file it didn't download", and a file put at
\* a path after the check of it set aside.  An update replaces what its record lists without a look
\* at it (replaces).
NeverOverwrites == [][\A p \in Paths : Taken(p) => p \in hit]_vars

\* downloads.go:628: a download that isn't an update "never replaces anything already there".
PlacesWhereFree == [][\A g \in Games : job[g].pc = "place" /\ job'[g].pc \in {"place", "save"} =>
                        \A p \in job'[g].placed \ job[g].placed : disk[p] = NoFile]_vars

\* docs/downloads.md:12-13: the queue picks up where it left off, so a download that finds its place
\* taken finds something there that isn't its own.
NotInItsOwnWay == \A g \in Games : job[g].why = "exists" =>
                    \E p \in Paths : disk[p].by \notin {g, Nobody}

\* drift.go:13: CheckOwned stops recording a game whose files changed or went.
DropsDrifted == [][chk.pc = "drop" /\ chk'.pc = "idle" /\ record[chk.g].in /\ ~record'[chk.g].in =>
                    Drifted(record[chk.g].files)]_vars
================================================================================
