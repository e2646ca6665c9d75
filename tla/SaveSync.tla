------------------------------- MODULE SaveSync -------------------------------
(***************************************************************************)
(* What a sync does to one game's save: the passes of saves.go, the        *)
(* choices of conflicts.go, the slots of saveslots.go, and the restores    *)
(* and deletes that share passMu with them, next to an emulator and        *)
(* another device that write whenever they like.                           *)
(*                                                                         *)
(* RomM is modelled as the repository's tests model it: it compares the    *)
(* Deck's save with the newest of its slot, by what this Deck synced       *)
(* before, or by time.  Times are numbers: version v of RomM's is written  *)
(* at 2 * v, and a Deck's save between two of them, or late by its clock.  *)
(***************************************************************************)
EXTENDS Integers, Sequences, FiniteSets

CONSTANTS
  Slots,        \* RomM's slots of the game
  Autosave,     \* the one syncs begin with
  Keep,         \* saveBackups: backups kept of a game
  Skew,         \* how late the Deck's clock may be, in half versions
  MaxContents,  \* bound: saves the emulator and the other device make
  MaxCalls,     \* bound: calls of the user's
  MaxRemoved,   \* bound: saves deleted on RomM
  MaxFaults     \* bound: requests and records that fail, and backends that stop

ASSUME SlotsAssumption == Autosave \in Slots
ASSUME KeepAssumption == Keep \in Nat \ {0}
ASSUME BoundsAssumption == {Skew, MaxContents, MaxCalls, MaxRemoved, MaxFaults} \subseteq Nat

VARIABLES
  deck,         \* the save on the Deck: its content and when it was written
  playing,      \* the emulator runs
  held,         \* the save it holds
  romm,         \* RomM's saves of the game, oldest first: content, slot, whether deleted
  known,        \* the ones RomM knows this Deck synced
  slot,         \* the slot the game syncs in
  rec,          \* its SaveRecord
  backups,      \* its backups, newest first
  op,           \* what holds passMu
  call,         \* a call of the user's that waits for passMu
  made, calls, removed, faults,
  slipped       \* auxiliary: saves the emulator wrote between a download's write and the look that follows

disk   == <<rec, slot, backups>>
server == <<romm, known>>
bounds == <<made, calls, removed, faults>>
vars == <<deck, playing, held, server, disk, op, call, bounds, slipped>>

-----------------------------------------------------------------------------
(* Data.  A content is a number, 0 for no save at all. *)

None == 0
Contents == 1 .. MaxContents
Content == 0 .. MaxContents
Version == [content : Contents, slot : Slots \cup {"parked"}, gone : BOOLEAN]
States == {"none", "synced", "conflict", "removed", "waiting", "failed"}
Record == [slot : Slots, local : Content, server : Nat, state : States, conflict : Nat, parked : Content]
Blank(s) == [slot |-> s, local |-> None, server |-> 0, state |-> "none", conflict |-> 0, parked |-> None]

\* Calls: Sync, the Sync of SwitchSlot, Resolve with either choice, SwitchSlot, RestoreBackup, setAside.
Kinds == {"sync", "leave", "keepDeck", "keepServer", "switch", "restore", "delete"}
OpPC == {"off", "ask", "upload", "park", "check", "fetch", "write", "confirm", "reread", "put", "set",
         "restore", "remove"}
Op == [pc : OpPC, kind : Kinds, local : Content, at : Nat, id : Nat, new : Record, seen : Nat, from : Slots,
       what : Content, late : BOOLEAN]
Idle == [pc |-> "off", kind |-> "sync", local |-> None, at |-> 0, id |-> 0,
         new |-> Blank(Autosave), seen |-> 0, from |-> Autosave, what |-> None, late |-> FALSE]
NoCall == [kind |-> "none", to |-> Autosave, what |-> None, seen |-> 0]
Call == [kind : {"none", "choose", "leaving", "left", "restore", "delete"}, to : Slots, what : Content, seen : Nat]

Ids == DOMAIN romm
At(v) == 2 * v
In(s) == {v \in Ids : romm[v].slot = s /\ ~romm[v].gone}
Newest(s) == IF In(s) = {} THEN 0 ELSE CHOOSE v \in In(s) : \A w \in In(s) : w <= v
Was(v) == IF v \in Ids THEN romm[v].content ELSE None

\* When a save written now says it was.
Now == {t \in 0 .. At(Len(romm)) + 1 : t >= At(Len(romm)) + 1 - Skew}

\* savePass.record: what is known of a save in another slot says nothing of this one.
Known == IF rec.slot = slot THEN rec ELSE Blank(slot)

\* backupSave puts a save first of its backups, and lets go of the oldest.
Backed(c) ==
  IF c = None THEN backups
  ELSE SubSeq(<<c>> \o backups, 1, IF Len(backups) < Keep THEN Len(backups) + 1 ELSE Keep)

Cleared(r) == IF r.state = "conflict" THEN r ELSE [r EXCEPT !.conflict = 0, !.parked = None]
Put(o, r) == [o EXCEPT !.pc = "put", !.new = Cleared(r)]

-----------------------------------------------------------------------------
(* RomM. *)

\* When the Deck's save was last changed, as the plan's request has it.
UpdatedAt(o) ==
  IF Known.local = None THEN o.at
  ELSE IF Known.local = o.local THEN At(Known.server)
  ELSE IF o.at > At(Known.server) THEN o.at ELSE At(Known.server) + 1

\* compare_save_state, of a save that isn't the slot's newest.
Compared(at, h) ==
  IF h \in known THEN IF at > At(h) THEN "upload" ELSE "no_op"
  ELSE IF at > At(h) THEN "upload" ELSE IF at < At(h) THEN "download" ELSE "conflict"

\* A slot this Deck synced and that is empty now was emptied.
Emptied == \E v \in known : romm[v].slot = slot

\* RomM's plan of the save: an action, and the save it names.
Plans(o) ==
  LET h == Newest(slot) IN
  IF h = 0 THEN IF o.local = None THEN {"nothing"} ELSE IF Emptied THEN {"upload", "delete"} ELSE {"upload"}
  ELSE IF o.local = None THEN {"download"}
  ELSE IF o.local = romm[h].content THEN {"no_op"}
  ELSE {Compared(UpdatedAt(o), h)}

Stored(c, s) == Append(romm, [content |-> c, slot |-> s, gone |-> FALSE])

-----------------------------------------------------------------------------
(* A pass. *)

Fault == faults < MaxFaults /\ faults' = faults + 1

\* An operation that fails: a sync says so in the record, a choice changes nothing, and a switch goes
\* back to the slot it left.
Fails ==
  /\ op' = IF op.kind \in {"sync", "leave"} THEN Put(op, [Known EXCEPT !.state = "failed"]) ELSE Idle
  /\ slot' = IF op.kind = "switch" THEN op.from ELSE slot
  /\ call' = IF op.kind = "switch" THEN NoCall ELSE call

Synced(o, local, id) == [Known EXCEPT !.local = local, !.server = id, !.state = "synced"]

\* conflict: the Deck's save is parked on RomM, unless it is already.
Conflicts(o, id) ==
  LET r == [Known EXCEPT !.state = "conflict", !.conflict = id] IN
  IF o.local = None \/ r.parked = o.local THEN Put(o, r) ELSE [o EXCEPT !.pc = "park", !.new = r]

\* A pass of the game begins: its save is read.
Begin(kind, seen) ==
  /\ op.pc = "off"
  /\ op' = [Idle EXCEPT !.pc = "ask", !.kind = kind, !.local = deck.content, !.at = deck.at, !.seen = seen]

Sync ==
  /\ Begin("sync", 0)
  /\ UNCHANGED <<deck, playing, held, server, disk, call, bounds, slipped>>

\* The user opens a conflict, and chooses later.
Choose ==
  /\ call = NoCall /\ calls < MaxCalls /\ calls' = calls + 1
  /\ rec.state = "conflict" /\ rec.slot = slot
  /\ call' = [NoCall EXCEPT !.kind = "choose", !.seen = rec.conflict]
  /\ UNCHANGED <<deck, playing, held, server, disk, op, made, removed, faults, slipped>>

\* Resolve, with the save of RomM's the user saw.
Resolve(kind) ==
  /\ call.kind = "choose" /\ op.pc = "off"
  /\ call' = NoCall
  /\ IF kind = "keepServer" /\ playing THEN UNCHANGED op ELSE Begin(kind, call.seen)
  /\ UNCHANGED <<deck, playing, held, server, disk, bounds, slipped>>

\* step, of what RomM planned.
Steps(action) ==
  LET h == Newest(slot)
      o == [op EXCEPT !.id = h, !.kind = IF op.kind = "leave" THEN "leave" ELSE "sync"] IN
  CASE action = "nothing"  -> Put(o, [Known EXCEPT !.state = "synced"])
    [] action = "no_op"    -> Put(o, IF o.local = Was(h) THEN Synced(o, o.local, h) ELSE [Known EXCEPT !.state = "synced"])
    [] action = "delete"   -> Put(o, [Known EXCEPT !.state = "removed"])
    [] action = "conflict" -> Conflicts(o, h)
    [] action = "upload"   -> [o EXCEPT !.pc = "upload"]
    [] action = "download" -> [o EXCEPT !.pc = "check"]

\* RomM plans the sync.  A choice is carried out only on the save it was made for.
Ask ==
  /\ op.pc = "ask"
  /\ \E action \in Plans(op) :
       LET h == Newest(slot) o == [op EXCEPT !.id = h] IN
       op' = IF op.kind \in {"sync", "leave"} \/ h = 0 \/ op.local = Was(h) THEN Steps(action)
             ELSE IF h # op.seen THEN Conflicts(o, h)
             ELSE IF op.kind = "keepServer" THEN [o EXCEPT !.pc = "check"]
             ELSE [o EXCEPT !.pc = "upload"]
  /\ UNCHANGED <<deck, playing, held, server, disk, call, bounds, slipped>>

\* RomM can't be asked: nothing changes, and a switch ends here.
AskFails ==
  /\ op.pc = "ask" /\ Fault
  /\ op' = Idle
  /\ call' = IF op.kind = "leave" THEN NoCall ELSE call
  /\ UNCHANGED <<deck, playing, held, server, disk, made, calls, removed, slipped>>

\* The slot's newest save is another device's, and the user didn't choose to overwrite it.
Refused == Newest(slot) # 0 /\ Newest(slot) \notin known /\ op.kind # "keepDeck"

\* Variant: a refused upload is taken for a failure.
UploadRefusedFails ==
  /\ op.pc = "upload" /\ op.local # None /\ Refused
  /\ Fails
  /\ UNCHANGED <<deck, playing, held, server, rec, backups, bounds, slipped>>

UploadRefused ==
  /\ op.pc = "upload" /\ op.local # None /\ Refused
  /\ op' = Conflicts(op, op.id)
  /\ UNCHANGED <<deck, playing, held, server, disk, call, bounds, slipped>>

\* Variant: the record takes the save as it is once uploaded.
UploadReread ==
  /\ op.pc = "upload" /\ op.local # None /\ ~Refused
  /\ romm' = Stored(op.local, slot) /\ known' = known \cup {Len(romm')}
  /\ op' = Put(op, Synced(op, deck.content, Len(romm')))
  /\ UNCHANGED <<deck, playing, held, disk, call, bounds, slipped>>

Upload ==
  /\ op.pc = "upload" /\ op.local # None /\ ~Refused
  /\ romm' = Stored(op.local, slot) /\ known' = known \cup {Len(romm')}
  /\ op' = Put(op, Synced(op, op.local, Len(romm')))
  /\ UNCHANGED <<deck, playing, held, disk, call, bounds, slipped>>

\* An upload fails, whether RomM stored it or not.
UploadFails ==
  /\ op.pc = "upload"
  /\ \/ op.local = None /\ UNCHANGED <<server, faults>>
     \/ Fault /\ UNCHANGED server
     \/ Fault /\ op.local # None /\ ~Refused /\ romm' = Stored(op.local, slot) /\ known' = known \cup {Len(romm')}
  /\ Fails
  /\ UNCHANGED <<deck, playing, held, rec, backups, made, calls, removed, slipped>>

\* The Deck's save in a conflict is kept on RomM in no slot, unless that fails.
Park ==
  /\ op.pc = "park"
  /\ \/ romm' = Stored(op.local, "parked") /\ op' = Put(op, [op.new EXCEPT !.parked = op.local]) /\ UNCHANGED faults
     \/ Fault /\ op' = Put(op, op.new) /\ UNCHANGED romm
  /\ known' = known
  /\ UNCHANGED <<deck, playing, held, disk, call, made, calls, removed, slipped>>

\* A download waits for the emulator, which ends a switch.
Waits ==
  /\ op.pc = "check" /\ playing
  /\ IF op.kind = "switch" THEN Fails
     ELSE op' = Put(op, [Known EXCEPT !.state = "waiting"]) /\ UNCHANGED <<slot, call>>
  /\ UNCHANGED <<deck, playing, held, server, rec, backups, bounds, slipped>>

\* The save is read again, and must be what it was.
\* Variant: the save isn't read again.
CheckBlind ==
  /\ op.pc = "check" /\ ~playing
  /\ op' = [op EXCEPT !.pc = "fetch"] /\ UNCHANGED <<slot, call>>
  /\ UNCHANGED <<deck, playing, held, server, rec, backups, bounds, slipped>>

Check ==
  /\ op.pc = "check" /\ ~playing
  /\ IF deck.content = op.local THEN op' = [op EXCEPT !.pc = "fetch"] /\ UNCHANGED <<slot, call>> ELSE Fails
  /\ UNCHANGED <<deck, playing, held, server, rec, backups, bounds, slipped>>

\* RomM's save is downloaded, and the Deck's backed up.
Fetch ==
  /\ op.pc = "fetch" /\ ~romm[op.id].gone
  /\ backups' = Backed(op.local)
  /\ op' = [op EXCEPT !.pc = "write"]
  /\ UNCHANGED <<deck, playing, held, server, rec, slot, call, bounds, slipped>>

\* RomM's save can't be had, or the Deck's not be backed up or written.
DownloadFails ==
  /\ op.pc \in {"fetch", "write"}
  /\ IF op.pc = "fetch" /\ romm[op.id].gone THEN UNCHANGED faults ELSE Fault
  /\ Fails
  /\ UNCHANGED <<deck, playing, held, server, rec, backups, made, calls, removed, slipped>>

Write ==
  /\ op.pc = "write"
  /\ \E t \in Now : deck' = [content |-> romm[op.id].content, at |-> t]
  /\ op' = [op EXCEPT !.pc = "confirm"]
  /\ UNCHANGED <<playing, held, server, disk, call, bounds, slipped>>

\* RomM is told, or isn't.
Confirm ==
  /\ op.pc = "confirm"
  /\ \/ ~romm[op.id].gone /\ known' = known \cup {op.id} /\ UNCHANGED faults
     \/ romm[op.id].gone /\ UNCHANGED <<known, faults>>
     \/ Fault /\ UNCHANGED known
  /\ op' = [op EXCEPT !.pc = "reread"]
  /\ UNCHANGED <<deck, playing, held, romm, disk, call, made, calls, removed, slipped>>

\* The record takes the save as the Deck holds it now.
Reread ==
  /\ op.pc = "reread"
  /\ op' = Put(op, Synced(op, IF deck.content = None THEN Was(op.id) ELSE deck.content, op.id))
  /\ UNCHANGED <<deck, playing, held, server, disk, call, bounds, slipped>>

\* The record is put, or isn't, and passMu let go.
PutRecord ==
  /\ op.pc = "put"
  /\ \/ rec' = op.new /\ UNCHANGED faults
     \/ Fault /\ UNCHANGED rec
  /\ op' = Idle
  /\ call' = CASE op.kind = "leave" -> [call EXCEPT !.kind = "left"]
               [] op.kind = "switch" -> NoCall
               [] OTHER -> call
  /\ UNCHANGED <<deck, playing, held, server, slot, backups, made, calls, removed, slipped>>

-----------------------------------------------------------------------------
(* SwitchSlot: a pass of the slot it leaves, and then the newest save of the other. *)

SwitchAsked(to) ==
  /\ call = NoCall /\ calls < MaxCalls /\ calls' = calls + 1
  /\ to # slot /\ ~playing
  /\ call' = [NoCall EXCEPT !.kind = "leaving", !.to = to]
  /\ UNCHANGED <<deck, playing, held, server, disk, op, made, removed, faults, slipped>>

Leave ==
  /\ call.kind = "leaving"
  /\ Begin("leave", 0)
  /\ UNCHANGED <<deck, playing, held, server, disk, call, bounds, slipped>>

\* switchable: the save must be as the sync left it, in step with RomM's, or gone from there.
Switchable ==
  /\ rec.slot = slot /\ rec.state \in {"synced", "removed"}
  /\ deck.content # None => deck.content = rec.local

\* The save is read, and RomM's slots are listed.
SwitchReads ==
  /\ call.kind = "left" /\ op.pc = "off"
  /\ IF Switchable
       THEN /\ op' = [Idle EXCEPT !.pc = "set", !.kind = "switch", !.local = deck.content,
                                  !.id = Newest(call.to), !.from = slot]
            /\ UNCHANGED call
       ELSE call' = NoCall /\ UNCHANGED op
  /\ UNCHANGED <<deck, playing, held, server, disk, bounds, slipped>>

\* The game syncs in the slot from here on.  adopt: its newest save replaces the Deck's.
SwitchSets ==
  /\ op.pc = "set"
  /\ slot' = call.to
  /\ LET r == Blank(call.to) IN
     op' = IF op.id = 0 THEN Put(op, r)
           ELSE IF op.local # None /\ op.local = Was(op.id)
             THEN Put(op, [r EXCEPT !.local = op.local, !.server = op.id, !.state = "synced"])
             ELSE [op EXCEPT !.pc = "check"]
  /\ UNCHANGED <<deck, playing, held, server, rec, backups, call, bounds, slipped>>

-----------------------------------------------------------------------------
(* RestoreBackup, and setAside's removal of a game's save with the game. *)

RestoreAsked ==
  /\ call = NoCall /\ calls < MaxCalls /\ calls' = calls + 1
  /\ ~playing
  /\ \E i \in DOMAIN backups : call' = [NoCall EXCEPT !.kind = "restore", !.what = backups[i]]
  /\ UNCHANGED <<deck, playing, held, server, disk, op, made, removed, faults, slipped>>

\* The backup is read, and the save it replaces backed up.
RestoreReads ==
  /\ call.kind = "restore" /\ op.pc = "off"
  /\ call' = NoCall
  /\ IF (\E i \in DOMAIN backups : backups[i] = call.what) /\ deck.content # call.what
       THEN /\ backups' = Backed(deck.content)
            /\ op' = [Idle EXCEPT !.pc = "restore", !.kind = "restore", !.local = deck.content,
                                  !.what = call.what, !.late = playing]
       ELSE UNCHANGED <<backups, op>>
  /\ UNCHANGED <<deck, playing, held, server, rec, slot, bounds, slipped>>

RestoreWrites ==
  /\ op.pc = "restore"
  /\ \E t \in Now : deck' = [content |-> op.what, at |-> t]
  /\ op' = Idle
  /\ UNCHANGED <<playing, held, server, disk, call, bounds, slipped>>

\* deletion: a save may go with its game when RomM holds it as it is here.
Deletable ==
  /\ deck.content # None /\ ~playing
  /\ rec.slot = slot /\ rec.state = "synced" /\ rec.server # 0 /\ rec.local = deck.content

DeleteAsked ==
  /\ call = NoCall /\ calls < MaxCalls /\ calls' = calls + 1
  /\ Deletable
  /\ call' = [NoCall EXCEPT !.kind = "delete"]
  /\ UNCHANGED <<deck, playing, held, server, disk, op, made, removed, faults, slipped>>

\* Once the game's files and record are gone, its save is backed up, and then removed.
DeleteReads ==
  /\ call.kind = "delete" /\ op.pc = "off"
  /\ call' = NoCall
  /\ IF deck.content = None THEN UNCHANGED <<backups, op>>
     ELSE /\ backups' = Backed(deck.content)
          /\ op' = [Idle EXCEPT !.pc = "remove", !.kind = "delete", !.local = deck.content, !.late = playing]
  /\ UNCHANGED <<deck, playing, held, server, rec, slot, bounds, slipped>>

DeleteRemoves ==
  /\ op.pc = "remove"
  /\ deck' = [content |-> None, at |-> 0]
  /\ op' = Idle
  /\ UNCHANGED <<playing, held, server, disk, call, bounds, slipped>>

-----------------------------------------------------------------------------
(* Everyone else. *)

\* What the operation under way looked at last may be overtaken by an emulator that starts after.
Looked == {"fetch", "write", "restore", "remove"}
Overtakes == [op EXCEPT !.late = @ \/ op.pc \in Looked]

EmulatorStarts ==
  /\ ~playing
  /\ playing' = TRUE /\ held' = deck.content
  /\ op' = Overtakes
  /\ UNCHANGED <<deck, server, disk, call, bounds, slipped>>

Slips(c) == slipped' = IF op.pc \in {"confirm", "reread"} THEN slipped \cup {c} ELSE slipped

EmulatorWrites ==
  /\ playing /\ made < MaxContents
  /\ made' = made + 1
  /\ \E t \in Now : deck' = [content |-> made', at |-> t]
  /\ held' = made' /\ Slips(made')
  /\ UNCHANGED <<playing, server, disk, op, call, calls, removed, faults>>

\* Closing, it may write the save it holds once more, changed or not.
EmulatorCloses ==
  /\ playing
  /\ playing' = FALSE /\ held' = None
  /\ \/ UNCHANGED <<deck, slipped>>
     \/ held # None /\ Slips(held) /\ \E t \in Now : deck' = [content |-> held, at |-> t]
  /\ UNCHANGED <<server, disk, op, call, bounds>>

OtherDevice(s) ==
  /\ made < MaxContents
  /\ made' = made + 1
  /\ romm' = Stored(made', s)
  /\ UNCHANGED <<deck, playing, held, known, disk, op, call, calls, removed, faults, slipped>>

RommDeletes(v) ==
  /\ removed < MaxRemoved /\ removed' = removed + 1
  /\ ~romm[v].gone
  /\ romm' = [romm EXCEPT ![v].gone = TRUE]
  /\ UNCHANGED <<deck, playing, held, known, disk, op, call, made, calls, faults, slipped>>

\* The backend stops, or crashes, and starts again.
Restart ==
  /\ op.pc # "off" \/ call # NoCall
  /\ Fault
  /\ op' = Idle /\ call' = NoCall
  /\ UNCHANGED <<deck, playing, held, server, disk, made, calls, removed, slipped>>

-----------------------------------------------------------------------------

Init ==
  /\ deck = [content |-> None, at |-> 0] /\ playing = FALSE /\ held = None
  /\ romm = <<>> /\ known = {}
  /\ slot = Autosave /\ rec = Blank(Autosave) /\ backups = <<>>
  /\ op = Idle /\ call = NoCall
  /\ made = 0 /\ calls = 0 /\ removed = 0 /\ faults = 0
  /\ slipped = {}

\* What goes on by itself, once passMu is taken.
Goes ==
  \/ Ask \/ UploadRefused \/ Upload \/ Park \/ Waits \/ Check \/ Fetch \/ Write \/ Confirm \/ Reread \/ PutRecord
  \/ SwitchSets \/ RestoreWrites \/ DeleteRemoves \/ AskFails \/ UploadFails \/ DownloadFails
Calls == Leave \/ SwitchReads \/ RestoreReads \/ DeleteReads

Next ==
  \/ Sync \/ Goes \/ Calls
  \/ Choose \/ Resolve("keepDeck") \/ Resolve("keepServer")
  \/ RestoreAsked \/ DeleteAsked \/ \E s \in Slots : SwitchAsked(s) \/ OtherDevice(s)
  \/ EmulatorStarts \/ EmulatorWrites \/ EmulatorCloses
  \/ Restart \/ \E v \in Ids : RommDeletes(v)

Spec == Init /\ [][Next]_vars

\* Goroutines run on, passMu is handed to whoever waits, and the pull goes on.
LiveSpec == Spec /\ WF_vars(Goes) /\ SF_vars(Calls) /\ SF_vars(Sync)

-----------------------------------------------------------------------------
(* Properties. *)

TypeOK ==
  /\ deck \in [content : Content, at : Nat] /\ playing \in BOOLEAN /\ held \in Content
  /\ romm \in Seq(Version) /\ known \subseteq Ids
  /\ slot \in Slots /\ rec \in Record
  /\ backups \in Seq(Contents) /\ Len(backups) <= Keep
  /\ op \in Op /\ call \in Call
  /\ made \in Content /\ slipped \subseteq Contents

Held(c) == (\E i \in DOMAIN backups : backups[i] = c) \/ \E v \in Ids : romm[v].content = c /\ ~romm[v].gone

\* The steps of the plugin's that put a save in place of the Deck's, or remove it.
Replaces == op.pc \in {"write", "restore", "remove"} /\ op'.pc \in {"confirm", "off"} /\ deck' # deck

\* A save of the Deck's that a download, a restore, a switch or a delete replaces or removes is in the
\* game's backups or on RomM, unless an emulator started after the plugin looked for one and wrote it
\* (saves.go:957, activity.go:108, savedelete.go:87).
ReplacedKept == [][Replaces => deck.content = None \/ op.late \/ Held(deck.content)]_vars

\* A record's two sides are the same save: what it takes for the Deck's when the two last matched is
\* RomM's save it names, unless an emulator wrote into the look after a download (saves.go:989).
SidesTrue == rec.server # 0 => rec.local = Was(rec.server) \/ rec.local \in slipped

\* What a record says is parked is on RomM in no slot, unless RomM deleted it (conflicts.go:11).
Parked == rec.parked # None => \E v \in Ids : romm[v].slot = "parked" /\ romm[v].content = rec.parked

\* A record is true of both sides, and of what a conflict set aside, whatever failed, was lost or came
\* between the steps that made it.
RecordTrue == SidesTrue /\ Parked

\* The same, of every record: the Deck's save and RomM's that it names matched (domain/saves.go:50).
MatchedOnce == rec.server # 0 => rec.local = Was(rec.server)

\* A switch strands nothing only this Deck had: the save it takes out of the slot is one RomM was given,
\* with the same exception (saveslots.go:41).
SwitchStrands ==
  [][slot' # slot /\ op.pc = "set" /\ deck.content = op.local /\ op.local \notin slipped \cup {None}
     => \E v \in Ids : romm[v].content = op.local]_vars

\* A save that changed on both sides since they matched is left to the user (docs/save-sync.md:58).
NeitherOverwritten ==
  [][op.kind = "sync" /\ op.pc = "write" /\ op'.pc = "confirm" /\ Known.server # 0
     => deck.content \in {None, Known.local} \/ op.late]_vars

\* The save of RomM's that the user's choice overwrites is the one the user saw (conflicts.go:44).
SeenOverwritten ==
  [][op.kind = "keepDeck" /\ op.pc = "upload" /\ Len(romm') > Len(romm) /\ op' # op
     => Newest(slot) \in {0, op.seen}]_vars

\* RomM knows of a sync that its record was never put of.
Unrecorded == \E v \in known : v > Known.server /\ romm[v].slot = slot

\* Left alone, the Deck's save and RomM's come to match, or the user is told that they don't, where what
\* syncs is recorded (saves.go:588).
Converges ==
  []<>(\/ deck.content = Was(Newest(slot))
       \/ playing \/ rec.state \in {"conflict", "removed"}
       \/ Unrecorded \/ slipped # {})
===============================================================================
