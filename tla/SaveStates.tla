------------------------------ MODULE SaveStates ------------------------------
(***************************************************************************)
(* How one game's save states sync (states.go): the states the Deck holds  *)
(* that changed are uploaded, the newest state RomM has from elsewhere is  *)
(* put in the target slot and the extra one, and this Deck's uploads are   *)
(* trimmed to what the game keeps; LoadState, which does the same for a    *)
(* state the user picked; next to the emulator, another device, the user   *)
(* on RomM's pages, failures and stops.                                    *)
(*                                                                         *)
(* Passes and LoadState hold passMu, so one operation goes on at a time.   *)
(* A state is a number; state v of RomM's list was created at 2 * v, and   *)
(* one on the Deck written between two of them.                            *)
(***************************************************************************)
EXTENDS Integers, Sequences, FiniteSets

CONSTANTS
  StateSlots,   \* the emulator's state slots
  StateKeeps,   \* the counts uploads may be trimmed to, 0 for every one
  Default,      \* DefaultStateSettings: how states sync until the user changes it
  Prefs,        \* the settings the user may set for the game, or for all games: some of its fields
  Foreign,      \* states StateFor can't read: of another core, or damaged
  MaxStates,    \* bound: states the emulator and the other device make
  MaxCalls,     \* bound: calls of the user's, and states the user deletes on RomM
  MaxFaults     \* bound: requests, reads and records that fail, and backends that stop

AutoSlot == "auto"  \* domain.StateSlotAuto
NoExtra == ""

ASSUME SlotsAssumption == AutoSlot \in StateSlots /\ NoExtra \notin StateSlots
ASSUME KeepsAssumption == StateKeeps \subseteq Nat
ASSUME DefaultAssumption ==
  Default \in [sync : BOOLEAN, target : StateSlots, extra : StateSlots \cup {NoExtra}, keep : StateKeeps]
ASSUME PrefsAssumption == \A p \in Prefs : "sync" \in DOMAIN p => p.sync \in BOOLEAN
ASSUME BoundsAssumption == {MaxStates, MaxCalls, MaxFaults} \subseteq Nat

VARIABLES
  deck,      \* the state in each slot: what it is, and when it was written
  playing,   \* the emulator runs
  romm,      \* RomM's list, oldest first: the state, its core, whether it is gone
  own,       \* state_prefs: the game's own settings
  global,    \* settings.json: those of the games that don't set their own
  seen,      \* state_files: the state sync last saw in each slot
  uploads,   \* state_uploads: the states of RomM's this Deck recorded it put there
  game,      \* its state_games row: what was placed, whether one waits
  op,        \* the pass, or LoadState, under way, and what it read
  made, calls, faults,
  sent       \* auxiliary: the states of RomM's this Deck did put there

prefs == <<own, global>>
records == <<prefs, seen, uploads, game>>
bounds == <<made, calls, faults>>
vars == <<deck, playing, romm, records, op, bounds, sent>>

-----------------------------------------------------------------------------
(* Data. *)

None == 0
States == 1 .. MaxStates
Settings == [sync : BOOLEAN, target : StateSlots, extra : StateSlots \cup {NoExtra}, keep : StateKeeps]
Entry == [state : States, core : BOOLEAN, gone : BOOLEAN]
Ids == DOMAIN romm
At(v) == 2 * v
Now == At(Len(romm)) + 1

\* StateFor: a state of another core, or one that isn't a state, can't be converted.
Readable(state) == state \notin Foreign

Game == [placed : Nat, waiting : BOOLEAN]
Idle == [pc |-> "off", load |-> 0, set |-> Default, list |-> {}, listed |-> TRUE, todo |-> {}, slot |-> AutoSlot,
         what |-> None, up |-> 0, blocked |-> FALSE, ours |-> {}, newest |-> 0, drop |-> {}, game |-> [placed |-> 0, waiting |-> FALSE],
         late |-> {}]
PCs == {"off", "list", "files", "upload", "add", "saw", "choose", "fetch", "place", "placed", "trim", "forget", "end"}
Op == [pc : PCs, load : Nat, set : Settings, list : SUBSET Nat, listed : BOOLEAN, todo : SUBSET StateSlots, slot : StateSlots,
       what : 0 .. MaxStates, up : Nat, blocked : BOOLEAN, ours : SUBSET Nat, newest : Nat, drop : SUBSET Nat, game : Game,
       late : SUBSET StateSlots]

NoPrefs == [f \in {} |-> TRUE]

\* StatePrefs.Apply: s with the settings p sets over it.
Apply(p, s) == [f \in DOMAIN s |-> IF f \in DOMAIN p THEN p[f] ELSE s[f]]
StateSettings == Apply(own, Apply(global, Default))

\* The settings p sets, and q's others.
Over(p, q) == [f \in DOMAIN p \cup DOMAIN q |-> IF f \in DOMAIN p THEN p[f] ELSE q[f]]

\* validStatePrefs.
Valid(p) ==
  /\ "target" \in DOMAIN p => p.target \in StateSlots
  /\ "extra" \in DOMAIN p => p.extra \in StateSlots \cup {NoExtra}
  /\ "keep" \in DOMAIN p => p.keep \in StateKeeps

\* The slots RomM's state goes in.
Placing(s) == {s.target} \cup (IF s.extra = NoExtra THEN {} ELSE {s.extra})

Newest(S) == CHOOSE v \in S : \A w \in S : w <= v

-----------------------------------------------------------------------------
(* RomM's API, and the records. *)

\* States.
Listed == {v \in Ids : ~romm[v].gone}

\* UploadState, of a state of the Deck's.
UploadState(state) ==
  /\ romm' = Append(romm, [state |-> state, core |-> TRUE, gone |-> FALSE])
  /\ sent' = sent \cup {Len(romm')}

\* DownloadState.
Downloadable(v) == ~romm[v].gone

\* DeleteStates: those already gone count as deleted.
DeleteStates(ids) == romm' = [v \in Ids |-> IF v \in ids THEN [romm[v] EXCEPT !.gone = TRUE] ELSE romm[v]]

PutStateFile(slot, state) == seen' = [seen EXCEPT ![slot] = state]
AddUploadedState(v) == uploads' = uploads \cup {v}
ForgetUploadedStates(ids) == uploads' = uploads \ ids
PutStateGame(g) == game' = g

-----------------------------------------------------------------------------
(* A pass of the game. *)

\* syncStates, for a game whose states sync; nothing about the game is read before.
Sync ==
  /\ op.pc = "off" /\ StateSettings.sync
  /\ op' = [Idle EXCEPT !.pc = "list", !.set = StateSettings, !.game = [game EXCEPT !.waiting = FALSE]]
  /\ UNCHANGED <<deck, playing, romm, records, bounds, sent>>

\* LoadState of a state the user picked from the list.
LoadState(v) ==
  /\ op.pc = "off" /\ ~playing
  /\ calls < MaxCalls /\ calls' = calls + 1
  /\ op' = [Idle EXCEPT !.pc = "list", !.load = v, !.set = StateSettings]
  /\ UNCHANGED <<deck, playing, romm, records, made, faults, sent>>

Fault == faults < MaxFaults /\ faults' = faults + 1

\* A step that fails: LoadState gives up, and a pass goes on without it.
Fail(next) == op' = IF op.load # 0 THEN Idle ELSE next

\* One slot is done with.
Done(o) == [o EXCEPT !.pc = "files", !.todo = @ \ {o.slot}, !.slot = AutoSlot, !.what = None, !.up = 0]
\* Variant: a slot whose state couldn't be uploaded is replaced all the same.
DoneUnblocked(o) == Done(o)
Blocked(o) == [Done(o) EXCEPT !.blocked = @ \/ o.slot \in Placing(o.set)]

\* States: a pass looks at every slot, LoadState at those it will replace.
List ==
  /\ op.pc = "list"
  /\ op' = IF op.load \notin Listed \cup {0} THEN Idle
           ELSE [op EXCEPT !.pc = "files", !.list = Listed,
                           !.todo = IF op.load = 0 THEN StateSlots ELSE Placing(op.set)]
  /\ UNCHANGED <<deck, playing, romm, records, bounds, sent>>

\* The list's failure is kept, and the Deck's states are uploaded first.
ListFails ==
  /\ op.pc = "list" /\ Fault
  /\ Fail([op EXCEPT !.pc = "files", !.listed = FALSE, !.todo = StateSlots])
  /\ UNCHANGED <<deck, playing, romm, records, made, calls, sent>>

\* A slot is read: one that is empty, or holds what was last seen there, is passed over.
Read(s) ==
  /\ op.pc = "files" /\ s \in op.todo
  /\ LET o == [op EXCEPT !.slot = s, !.what = deck[s].state, !.late = @ \ {s}] IN
     op' = IF deck[s].state \in {None, seen[s]} THEN Done(o) ELSE [o EXCEPT !.pc = "upload"]
  /\ UNCHANGED <<deck, playing, romm, records, bounds, sent>>

ReadFails(s) ==
  /\ op.pc = "files" /\ s \in op.todo /\ deck[s].state # None /\ Fault
  /\ Fail(Blocked([op EXCEPT !.slot = s]))
  /\ UNCHANGED <<deck, playing, romm, records, made, calls, sent>>

\* Variant: a state that can't be read is tried again by every pass.
UnreadableUnseen ==
  /\ op.pc = "upload" /\ ~Readable(op.what)
  /\ Fail(Blocked(op))
  /\ UNCHANGED <<deck, playing, romm, records, bounds, sent>>

\* uploadState of one StateFor can't read: it is recorded as seen, and the slot isn't touched this time.
Unreadable ==
  /\ op.pc = "upload" /\ ~Readable(op.what)
  /\ PutStateFile(op.slot, op.what)
  /\ Fail(Blocked(op))
  /\ UNCHANGED <<deck, playing, romm, prefs, uploads, game, bounds, sent>>

\* UploadState.
Upload ==
  /\ op.pc = "upload" /\ Readable(op.what)
  /\ UploadState(op.what)
  /\ op' = [op EXCEPT !.pc = "add", !.up = Len(romm')]
  /\ UNCHANGED <<deck, playing, records, bounds>>

\* The request fails, or its answer is lost.
UploadFails ==
  /\ op.pc = "upload" /\ Readable(op.what) /\ Fault
  /\ \/ UNCHANGED <<romm, sent>>
     \/ UploadState(op.what)
  /\ Fail(Blocked(op))
  /\ UNCHANGED <<deck, playing, records, made, calls>>

Add ==
  /\ op.pc = "add"
  /\ AddUploadedState(op.up)
  /\ op' = [op EXCEPT !.pc = "saw"]
  /\ UNCHANGED <<deck, playing, romm, prefs, seen, game, bounds, sent>>

\* PutStateFile of what was uploaded; the list was made before this upload.
Saw ==
  /\ op.pc = "saw"
  /\ PutStateFile(op.slot, op.what)
  /\ op' = Done([op EXCEPT !.list = @ \cup {op.up}])
  /\ UNCHANGED <<deck, playing, romm, prefs, uploads, game, bounds, sent>>

RecordFails ==
  /\ op.pc \in {"add", "saw"} /\ Fault
  /\ Fail(Blocked(op))
  /\ UNCHANGED <<deck, playing, romm, records, made, calls, sent>>

-----------------------------------------------------------------------------
(* RomM's state goes in its slots. *)

\* The states of RomM's list of the Deck's core that this Deck didn't record as its own.
Elsewhere(list, ours) == {v \in list \ ours : romm[v].core}

\* What becomes of the newest of them: the Deck's is newer, the emulator runs, or it is placed.
Chosen(o) ==
  LET from == Elsewhere(o.list, o.ours)
      n == Newest(from)
      skip == [o EXCEPT !.pc = "trim", !.late = {}] IN
  IF from = {} \/ o.blocked THEN skip
  ELSE IF n = o.game.placed THEN skip
  ELSE IF deck[o.set.target].state # None /\ deck[o.set.target].at >= At(n) THEN [skip EXCEPT !.game.placed = n]
  ELSE IF playing THEN [skip EXCEPT !.game.waiting = TRUE]
  ELSE [o EXCEPT !.pc = "fetch", !.newest = n]

Choose ==
  /\ op.pc = "files" /\ op.todo = {}
  /\ op' = IF op.load # 0 THEN [op EXCEPT !.pc = "fetch", !.newest = op.load]
           ELSE IF ~op.listed THEN [op EXCEPT !.pc = "end"]
           ELSE Chosen([op EXCEPT !.ours = uploads])
  /\ UNCHANGED <<deck, playing, romm, records, bounds, sent>>

Trimming(o) == [o EXCEPT !.pc = "trim", !.newest = 0, !.todo = {}, !.slot = AutoSlot, !.what = None, !.late = {}]

\* DownloadState and StateFor of placeState.
Fetch ==
  /\ op.pc = "fetch"
  /\ LET e == romm[op.newest] IN
     IF ~Downloadable(op.newest) \/ ~e.core \/ ~Readable(e.state) THEN Fail(Trimming(op))
     ELSE op' = [op EXCEPT !.pc = "place", !.todo = Placing(op.set), !.what = e.state]
  /\ UNCHANGED <<deck, playing, romm, records, bounds, sent>>

\* A request, a write or a record of placeState fails: some slots may have been written.
PlaceFails ==
  /\ op.pc \in {"fetch", "place", "placed"} /\ Fault
  /\ Fail(Trimming(op))
  /\ UNCHANGED <<deck, playing, romm, records, made, calls, sent>>

Place(s) ==
  /\ op.pc = "place" /\ s \in op.todo
  /\ deck' = [deck EXCEPT ![s] = [state |-> op.what, at |-> Now]]
  /\ op' = [op EXCEPT !.pc = "placed", !.slot = s]
  /\ UNCHANGED <<playing, romm, records, bounds, sent>>

\* PutStateFile of what was placed; after the last slot, the state counts as placed.
Placed ==
  /\ op.pc = "placed"
  /\ PutStateFile(op.slot, op.what)
  /\ op' = IF op.todo # {op.slot} THEN [op EXCEPT !.pc = "place", !.todo = @ \ {op.slot}]
           ELSE [Trimming(op) EXCEPT !.pc = IF op.load = 0 THEN "trim" ELSE "end", !.game.placed = op.newest]
  /\ UNCHANGED <<deck, playing, romm, prefs, uploads, game, bounds, sent>>

-----------------------------------------------------------------------------
(* trimStates, and the end. *)

\* Variant: the newest go.
SurplusNewest(S, keep) ==
  IF keep = 0 THEN {} ELSE {v \in S : Cardinality({w \in S : w < v}) >= keep}

\* The ones of S past the newest keep, 0 for every one.
Surplus(S, keep) ==
  IF keep = 0 THEN {} ELSE {v \in S : Cardinality({w \in S : w > v}) >= keep}

\* DeleteStates of this Deck's uploads past the newest keep; ones already gone count as deleted.
Trim ==
  /\ op.pc = "trim"
  /\ LET drop == Surplus(op.ours \cap op.list, op.set.keep) IN
     /\ DeleteStates(drop)
     /\ op' = [op EXCEPT !.pc = "forget", !.drop = drop \cup (op.ours \ op.list), !.ours = {}, !.list = {}]
  /\ UNCHANGED <<deck, playing, records, bounds, sent>>

\* DeleteStates fails, perhaps after some went: those stay recorded until a list shows they are gone.
TrimFails ==
  /\ op.pc = "trim" /\ Fault
  /\ \E drop \in SUBSET Surplus(op.ours \cap op.list, op.set.keep) :
       DeleteStates(drop)
  /\ op' = [op EXCEPT !.pc = "forget", !.drop = op.ours \ op.list, !.ours = {}, !.list = {}]
  /\ UNCHANGED <<deck, playing, records, made, calls, sent>>

\* ForgetUploadedStates.
Forget ==
  /\ op.pc = "forget"
  /\ ForgetUploadedStates(op.drop)
  /\ op' = [op EXCEPT !.pc = "end", !.drop = {}]
  /\ UNCHANGED <<deck, playing, romm, prefs, seen, game, bounds, sent>>

\* PutStateGame.
End ==
  /\ op.pc = "end"
  /\ PutStateGame(op.game)
  /\ op' = Idle
  /\ UNCHANGED <<deck, playing, romm, prefs, seen, uploads, bounds, sent>>

\* ForgetUploadedStates, or PutStateGame, fails.
EndFails ==
  /\ op.pc \in {"forget", "end"} /\ Fault
  /\ op' = IF op.pc = "end" THEN Idle ELSE [op EXCEPT !.pc = "end", !.drop = {}]
  /\ UNCHANGED <<deck, playing, romm, records, made, calls, sent>>

\* The backend stops, or crashes, and starts again.
Restart ==
  /\ op.pc # "off" /\ Fault
  /\ op' = Idle
  /\ UNCHANGED <<deck, playing, romm, records, made, calls, sent>>

-----------------------------------------------------------------------------
(* The user, the emulator, and the other device. *)

\* The game's own settings, all at once.
SetStatePrefs(p) ==
  /\ Valid(p)
  /\ calls < MaxCalls /\ calls' = calls + 1
  /\ own' = p
  /\ UNCHANGED <<deck, playing, romm, global, seen, uploads, game, op, made, faults, sent>>

\* The settings p sets, leaving the rest.
SetGlobalStateSettings(p) ==
  /\ Valid(p)
  /\ calls < MaxCalls /\ calls' = calls + 1
  /\ global' = Over(p, global)
  /\ UNCHANGED <<deck, playing, romm, own, seen, uploads, game, op, made, faults, sent>>

EmulatorStarts ==
  /\ ~playing /\ playing' = TRUE
  /\ UNCHANGED <<deck, romm, records, op, bounds, sent>>

Make == made < MaxStates /\ made' = made + 1

\* It keeps a state in a slot, its auto-state as it closes among them.
EmulatorWrites(s) ==
  /\ playing /\ Make
  /\ deck' = [deck EXCEPT ![s] = [state |-> made', at |-> Now]]
  /\ op' = IF op.pc = "off" THEN op ELSE [op EXCEPT !.late = @ \cup {s}]
  /\ UNCHANGED <<playing, romm, records, calls, faults, sent>>

EmulatorCloses ==
  /\ playing /\ playing' = FALSE
  /\ UNCHANGED <<deck, romm, records, op, bounds, sent>>

OtherDevice(core) ==
  /\ Make
  /\ romm' = Append(romm, [state |-> made', core |-> core, gone |-> FALSE])
  /\ UNCHANGED <<deck, playing, records, op, calls, faults, sent>>

RommDeletes(v) ==
  /\ v \in Listed
  /\ calls < MaxCalls /\ calls' = calls + 1
  /\ romm' = [romm EXCEPT ![v].gone = TRUE]
  /\ UNCHANGED <<deck, playing, records, op, made, faults, sent>>

-----------------------------------------------------------------------------

Init ==
  /\ deck = [s \in StateSlots |-> [state |-> None, at |-> 0]]
  /\ playing = FALSE
  /\ romm = <<>>
  /\ own = NoPrefs /\ global = NoPrefs
  /\ seen = [s \in StateSlots |-> None]
  /\ uploads = {}
  /\ game = [placed |-> 0, waiting |-> FALSE]
  /\ op = Idle
  /\ made = 0 /\ calls = 0 /\ faults = 0
  /\ sent = {}

\* What the goroutine that holds passMu does, short of failing.
Step ==
  \/ List \/ (\E s \in StateSlots : Read(s)) \/ Unreadable \/ Upload \/ Add \/ Saw
  \/ Choose \/ Fetch \/ (\E s \in StateSlots : Place(s)) \/ Placed \/ Trim \/ Forget \/ End

Fails ==
  \/ ListFails \/ (\E s \in StateSlots : ReadFails(s)) \/ UploadFails \/ RecordFails \/ PlaceFails
  \/ TrimFails \/ EndFails \/ Restart

Outside ==
  \/ EmulatorStarts \/ (\E s \in StateSlots : EmulatorWrites(s)) \/ EmulatorCloses
  \/ (\E core \in BOOLEAN : OtherDevice(core)) \/ (\E v \in Ids : RommDeletes(v))

Next ==
  \/ Sync \/ (\E v \in Listed : LoadState(v)) \/ (\E p \in Prefs : SetStatePrefs(p) \/ SetGlobalStateSettings(p))
  \/ Step \/ Fails \/ Outside

Spec == Init /\ [][Next]_vars

\* The goroutine runs on, and another pass comes.
FairSpec == Spec /\ WF_vars(Step) /\ WF_vars(Sync)

-----------------------------------------------------------------------------
(* Properties. *)

TypeOK ==
  /\ deck \in [StateSlots -> [state : 0 .. MaxStates, at : Nat]]
  /\ playing \in BOOLEAN
  /\ romm \in Seq(Entry)
  /\ StateSettings \in Settings
  /\ seen \in [StateSlots -> 0 .. MaxStates]
  /\ uploads \subseteq Ids /\ sent \subseteq Ids
  /\ game \in Game
  /\ op \in Op
  /\ made \in 0 .. MaxStates
  /\ {calls, faults} \subseteq Nat

Kept(state) == \E v \in Ids : romm[v].state = state

\* What is recorded as seen in a slot, and so may be replaced without a word, is a state RomM was
\* given, or one that can't be read: whatever failed between the upload and the records, and whoever
\* wrote the slot meanwhile.
SeenStored == \A s \in StateSlots : seen[s] \in Foreign \cup {None} \/ Kept(seen[s])

\* placeState replaces no state of the Deck's that RomM was never given, unless it can't be read or
\* the emulator wrote it after the slot was read for upload (states.go:241, :691).
ReplacedStored ==
  [][\A s \in StateSlots : Place(s) => deck[s].state \in Foreign \cup {None} \/ Kept(deck[s].state) \/ s \in op.late]_vars

\* As the package's comment has it (states.go:19): a state the Deck holds that isn't on RomM yet is
\* uploaded before anything replaces it.
UploadedFirst ==
  [][\A s \in StateSlots : Place(s) => deck[s].state = None \/ Kept(deck[s].state) \/ s \in op.late]_vars

\* trimStates deletes only states this Deck uploaded, each with Keep newer uploads of this Deck's:
\* never another device's, and never one of the newest, however out of date the list it works from.
TrimmedOld ==
  [][Trim \/ TrimFails =>
       \A v \in Listed \ {w \in Ids : ~romm'[w].gone} :
         v \in sent /\ Cardinality({w \in sent : w > v}) >= op.set.keep]_vars

\* Nothing is left to do: every state was seen, and RomM's newest from elsewhere was placed or can't be.
Settled ==
  LET from == Elsewhere(Listed, uploads) IN
  /\ \A s \in StateSlots : deck[s].state \in {None, seen[s]}
  /\ from # {} => game.placed = Newest(from) \/ ~Readable(romm[Newest(from)].state)

\* Once the emulator stays closed and the game's states keep syncing, passes reach a state that
\* lasts: no slot is uploaded over and over, and nothing blocks RomM's newest for good.
StatesSettle == <>[](StateSettings.sync /\ ~playing) => <>[]Settled
=============================================================================
