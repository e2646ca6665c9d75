--------------------------------- MODULE Parts ---------------------------------
(***************************************************************************)
(* The parts of the plugin that keep to themselves: the backend process    *)
(* and the calls relayed to it (Supervisor, whose names are used as they   *)
(* are), games found in the ROM folder (Finding), the requests of a        *)
(* download (Transfer), the update a game is offered (Updates), BIOS files *)
(* (Bios), the files of state.db and settings (Stores), game layouts       *)
(* (Layouts), and the room on the drives (Room).  A behaviour is of one of *)
(* Chosen, which its first state chooses; the others' variables are Unused *)
(* in it.                                                                  *)
(***************************************************************************)
EXTENDS Supervisor, Sequences

CONSTANTS
  Chosen,    \* the parts a behaviour may be of
  Bound,     \* each part's MaxMoves, by its name
  MaxGame, Paths, Home, Contents, Holds, Callers, MaxFinds, MaxChecks, \* of Finding
  Size, Retries, MaxLapses, MaxStops,            \* of Transfer
  GameVersions,                                  \* of Updates
  Firmware, Platform, Name,                      \* of Bios
  Schemas, keepBackups, Hosts, Tokens,           \* of Stores
  Shapes, GameName, Systems, MaxFiles,           \* of Layouts
  Order, Sizes, Archives, Card, Capacity, spaceMargin \* of Room

VARIABLES
  whose,                                         \* whose behaviour this is
  moves, check, call, job, rec, pc, romm, received, \* of several parts
  server, wrote, file, owned, linked, find, found, runs, leaving, panics, overlap, back, \* of Finding
  signedIn, listed, partial, saved, part, at, body, dogs, furthest, tries, lapses, stops,
  leftover,                                      \* of Transfer
  flag, deleting, due,                           \* of Updates
  disk, busy, checked,                           \* of Bios
  knows, from, db, bak, aside, last, settings, token, op, cut, \* of Stores
  files, system, ignored, had,                   \* of Layouts
  staged, other, alone                           \* of Room

Unused == "unused"

-----------------------------------------------------------------------------
(* The instances. *)

F == INSTANCE Finding WITH MaxMoves <- Bound.finding
ASSUME FindingAssumptions == F!Assumptions
T == INSTANCE Transfer
ASSUME TransferAssumptions == T!Assumptions
U == INSTANCE Updates WITH Versions <- GameVersions, MaxMoves <- Bound.updates
B == INSTANCE Bios WITH MaxMoves <- Bound.bios
ASSUME BiosAssumptions == B!Assumptions
S == INSTANCE Stores WITH Servers <- Hosts, MaxMoves <- Bound.stores
ASSUME StoresAssumptions == S!Assumptions
L == INSTANCE Layouts WITH game <- GameName, MaxMoves <- Bound.layouts
ASSUME LayoutAssumptions == L!Assumptions
R == INSTANCE Room WITH Size <- Sizes, MaxMoves <- Bound.room
ASSUME RoomAssumptions == R!Assumptions

-----------------------------------------------------------------------------
(* Their behaviours. *)

finding == <<server, wrote, file, owned, linked, find, found, runs, leaving, panics, overlap, back>>
transfer == <<signedIn, listed, partial, saved, part, at, body, dogs, furthest, tries, lapses, stops, leftover>>
updates == <<flag, deleting, due>>
bios == <<disk, busy, checked>>
stores == <<knows, from, db, bak, aside, last, settings, token, op, cut>>
layouts == <<files, system, ignored, had>>
room == <<staged, other, alone>>
partsVars == <<whose, vars, moves, check, call, job, rec, pc, romm, received,
               finding, transfer, updates, bios, stores, layouts, room>>

PartsInit ==
  /\ whose \in Chosen
  /\ IF whose = "relay" THEN Init
     ELSE /\ loop = Unused /\ state = Unused /\ ready = Unused /\ wake = Unused /\ crashes = Unused
          /\ restartReq = Unused /\ stopping = Unused /\ command = Unused /\ proc = Unused /\ os = Unused
          /\ hand = Unused /\ stdin = Unused /\ calls = Unused /\ stop = Unused /\ asked = Unused
          /\ requests = Unused
  /\ IF whose = "finding" THEN F!Init
     ELSE /\ server = Unused /\ wrote = Unused /\ file = Unused /\ owned = Unused /\ linked = Unused
          /\ find = Unused /\ found = Unused /\ runs = Unused /\ leaving = Unused /\ panics = Unused
          /\ overlap = Unused /\ back = Unused
  /\ IF whose = "transfer" THEN T!Init
     ELSE /\ signedIn = Unused /\ listed = Unused /\ partial = Unused /\ saved = Unused
          /\ part = Unused /\ at = Unused /\ body = Unused /\ dogs = Unused
          /\ furthest = Unused /\ tries = Unused /\ lapses = Unused /\ stops = Unused /\ leftover = Unused
  /\ IF whose = "updates" THEN U!Init
     ELSE flag = Unused /\ deleting = Unused /\ due = Unused
  /\ IF whose = "bios" THEN B!Init
     ELSE disk = Unused /\ busy = Unused /\ checked = Unused
  /\ IF whose = "stores" THEN S!Init
     ELSE /\ knows = Unused /\ from = Unused /\ db = Unused /\ bak = Unused /\ aside = Unused
          /\ last = Unused /\ settings = Unused /\ token = Unused /\ op = Unused /\ cut = Unused
  /\ IF whose = "layouts" THEN L!Init
     ELSE files = Unused /\ system = Unused /\ ignored = Unused /\ had = Unused
  /\ IF whose = "room" THEN R!Init
     ELSE staged = Unused /\ other = Unused /\ alone = Unused
  /\ whose \notin {"finding", "updates", "bios", "stores", "layouts", "room"} => moves = Unused
  /\ whose \notin {"finding", "updates"} => check = Unused
  /\ whose \notin {"finding", "updates", "bios", "room"} => call = Unused
  /\ whose \notin {"finding", "updates", "room"} => job = Unused
  /\ whose \notin {"transfer", "updates", "bios", "layouts"} => rec = Unused
  /\ whose \notin {"transfer", "stores"} => pc = Unused
  /\ whose \notin {"transfer", "updates"} => romm = Unused
  /\ whose \notin {"transfer", "room"} => received = Unused

\* A step of each.
Relay(step) ==
  /\ whose = "relay" /\ step
  /\ UNCHANGED <<whose, moves, check, call, job, rec, pc, romm, received, finding, transfer, updates, bios,
                 stores, layouts, room>>
Find(step) ==
  /\ whose = "finding" /\ step
  /\ UNCHANGED <<whose, vars, rec, pc, romm, received, transfer, updates, bios, stores, layouts, room>>
Transfer(step) ==
  /\ whose = "transfer" /\ step
  /\ UNCHANGED <<whose, vars, moves, check, call, job, finding, updates, bios, stores, layouts, room>>
Update(step) ==
  /\ whose = "updates" /\ step
  /\ UNCHANGED <<whose, vars, pc, received, finding, transfer, bios, stores, layouts, room>>
Firm(step) ==
  /\ whose = "bios" /\ step
  /\ UNCHANGED <<whose, vars, check, job, pc, romm, received, finding, transfer, updates, stores, layouts, room>>
Store(step) ==
  /\ whose = "stores" /\ step
  /\ UNCHANGED <<whose, vars, check, call, job, rec, romm, received, finding, transfer, updates, bios, layouts, room>>
Lay(step) ==
  /\ whose = "layouts" /\ step
  /\ UNCHANGED <<whose, vars, check, call, job, pc, romm, received, finding, transfer, updates, bios, stores, room>>
Make(step) ==
  /\ whose = "room" /\ step
  /\ UNCHANGED <<whose, vars, check, rec, pc, romm, finding, transfer, updates, bios, stores, layouts>>

PartsNext ==
  \/ Relay(Next) \/ Find(F!Next) \/ Transfer(T!Next) \/ Update(U!Next) \/ Firm(B!Next) \/ Store(S!Next)
  \/ Lay(L!Next) \/ Make(R!Next)
PartsSpec == PartsInit /\ [][PartsNext]_partsVars

\* The fairness of each.
PartsFairness ==
  /\ WF_partsVars(Relay(RunStep)) /\ WF_partsVars(Relay(StopKills)) /\ WF_partsVars(Relay(Stopped))
  /\ WF_partsVars(Relay(os = "closing" /\ Exits))
  /\ \A c \in Calls : WF_partsVars(Relay(CallSent(c)))
  /\ \A r \in F!Finds : WF_partsVars(Find(F!Run(r)))
  /\ \A j \in F!Checks : WF_partsVars(Find(F!Compare(j)))
  /\ \A u \in Callers : WF_partsVars(Find(F!Call(u)))
  /\ WF_partsVars(Find(F!ForgetFinds))
  /\ WF_partsVars(Transfer(T!Work)) /\ WF_partsVars(Transfer(T!SignIn))
  /\ WF_partsVars(Update(U!Day)) /\ WF_partsVars(Update(U!Downloading)) /\ WF_partsVars(Update(U!Calling))
  /\ \A c \in U!Checkers : WF_partsVars(Update(U!Checking(c)))
PartsFairSpec == PartsSpec /\ PartsFairness

-----------------------------------------------------------------------------
(* Their properties, each of its own behaviours: the modules state them. *)

\* Finding: the file a record lists holds what RomM has (ondeck.go Adopt, onDeckJob.stale).
AdoptedTrue == whose = "finding" => F!AdoptedTrue
\* Finding: no entry is found for two games (find.go findIn, runFind).
FoundApart == whose = "finding" => F!FoundApart
\* Transfer: what is placed is whole and of one version, or offered as having an update
\* (downloads.go download, fetch, samePartial).
WholeOrOffered == whose = "transfer" => T!WholeOrOffered
\* Bios: downloads of a platform's files never replace one another's (bios.go start, checkFree).
PlacedOnce == [][whose = "bios" => B!PlacesApart]_partsVars
\* Stores: a migration begins with a whole copy of what it changes (state/store.go backup).
BackedUp == whose = "stores" => S!BackedUp
\* Stores: a sign-in cut short is the one before or after (settings/store.go SaveSignIn).
BeforeOrAfter == whose = "stores" => S!BeforeOrAfter
\* Layouts: a change of the game's files is always offered (downloads.go UpdateAvailable, HasUpdate).
ChangeOffered == whose = "layouts" => L!ChangeOffered
\* Layouts: every file of a set has a place of its own, and the playlist lists every disc once
\* (layout.go PlanLayout, Discs).
SetWhole == whose = "layouts" => L!PlacedApart /\ L!DiscsListed
\* Room: what the queue took on fits (downloads.go checkSpace).
Committed == whose = "room" => R!Committed
\* Room: what a plan fits has room (bulk.go PlanAll).
PlanHolds == whose = "room" => R!PlanHolds

\* Supervisor: no call waits for an answer of a process that is gone, and a backend of another protocol gets
\* none (main.py _fail_pending, _handshake).
CallsServed == whose = "relay" => PendingServed /\ RefusedServesNone
\* Supervisor: no restart is lost (main.py restart, _wait_for_restart).
RestartsHeard == (whose = "relay" /\ asked) ~> (whose = "relay" /\ (~asked \/ stopping))
\* Finding: a search and an Adopt all come to an end (find.go runFind, AdoptFound).
FindSettles ==
  /\ (whose = "finding" /\ find.running) ~> (whose = "finding" /\ ~find.running)
  /\ (whose = "finding" /\ find.adopting) ~> (whose = "finding" /\ ~find.adopting)
\* Transfer: a download ends, placed or failed (downloads.go attempts).
Ends == (whose = "transfer" /\ ~T!Over) ~> (whose = "transfer" /\ T!Over)
\* Updates: a game left alone is offered as having an update exactly when it has one
\* (updates.go CheckUpdates, SweepUpdates).
FlagSettles == <>[](whose = "updates" => U!Settled)

-----------------------------------------------------------------------------
(* Where the code departs from what it says of itself. *)

\* Layouts: "whose files on the Server changed since the plugin downloaded it" (domain/download.go:31): a
\* game whose files are as they were when it was downloaded is offered no update.
OfferedIfChanged == whose = "layouts" => L!OfferedIfChanged
\* Stores: what was last written is in state.db or set aside (state/store.go RestoreBackup).
LastKept == whose = "stores" => S!LastKept
\* The parts state the others.
WholeAlways == whose = "transfer" => T!WholeAlways
StalledWhenQuiet == [][whose = "transfer" => T!NotShortened]_partsVars
IgnoredStays == [][whose = "updates" => U!StaysIgnored]_partsVars
StoppedAlone == [][whose = "updates" => U!DropsAlone]_partsVars
AdoptedAlways == whose = "finding" => F!AdoptedAlways
FindRecorded == whose = "finding" => F!FindRecorded
RecordOfServer == whose = "finding" => F!RecordOfServer
CheckedAnew == [][whose = "finding" => F!AsksAnew]_partsVars
StayAsTheyAre == [][whose = "bios" => B!LeavesAlone]_partsVars
OnlyGoneDropped == [][whose = "bios" => B!KeepsFitting]_partsVars
BackedUpAlways == whose = "stores" => S!BackedUpAlways
SignInWhole == whose = "stores" => S!SignInWhole
RestoredWhole == whose = "stores" => S!RestoredWhole
NotEmptied == whose = "stores" => S!NotEmptied
CommittedAlways == whose = "room" => R!CommittedAlways
=============================================================================
