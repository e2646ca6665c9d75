----------------------------- MODULE SaveRequests -----------------------------
(***************************************************************************)
(* When saves sync: the requests of saves.go and the passes that answer    *)
(* them, and the loop that asks for passes on its own.                     *)
(*                                                                         *)
(* One action is one critical section of Saves.mu, one sync of one game in *)
(* a pass, or one turn of Run's loop.  What a pass does to a save is left  *)
(* to SaveSync: here a save only differs from what last synced, and RomM's *)
(* is only newer.                                                          *)
(***************************************************************************)
EXTENDS Integers, FiniteSets

CONSTANTS
  Games,        \* games whose saves sync
  Emus,         \* emulators
  EmuOf,        \* the emulator ES-DE launches each game with
  Workers,      \* goroutines that run work
  Callers,      \* goroutines that call Opened, or Sync themselves
  MaxWrites,    \* bound: saves emulators and other devices write
  MaxAsks,      \* bound: calls of the user's
  MaxFaults     \* bound: failures of RomM's, and times it can't be asked

ASSUME EmuOfAssumption == EmuOf \in [Games -> Emus]
ASSUME ThreadsAssumption == Workers # {} /\ Workers \cap Callers = {}
ASSUME BoundsAssumption == MaxWrites \in Nat /\ MaxAsks \in Nat /\ MaxFaults \in Nat

Threads == Workers \cup Callers

VARIABLES
  pending, pendingAll, pendingManual,   \* what the next sync covers
  current, currentAll,                  \* what the running sync covers
  working,      \* a goroutine runs the queued syncs
  recent,       \* lastEnd is less than openGap ago
  waits,        \* a download may be waiting for its emulator
  wrote,        \* saves the plugin wrote too recently for the watch to take note: an older write counts for none
  thr,          \* what each goroutine has left to do
  loop,         \* where Run stands
  armed,        \* saves whose settle timers run
  settled,      \* saves whose timers fired, that Run hasn't taken
  rec,          \* each game's SaveRecord.State
  differs,      \* saves that aren't what their record says was last synced
  unread,       \* saves written since a pass last read them
  newer,        \* games RomM has a newer save of
  playing,      \* emulators that run
  ready,        \* Saves.ready: signed in, with a device and save folders
  writes, asks, faults,
  owed,         \* auxiliary: games asked for that no pass read since
  asked,        \* auxiliary: games the user asked for since work last took what is pending
  missed         \* auxiliary: written saves passed over: taken for the plugin's own, or no sync could run

request == <<pending, pendingAll, pendingManual, working>>
running == <<current, currentAll, recent>>
save    == <<differs, unread, newer>>
watch   == <<armed, settled, wrote, missed>>
world   == <<playing, ready, writes, asks, faults>>
aux     == <<owed, asked>>
vars == <<request, running, waits, thr, loop, watch, rec, save, world, aux>>

-----------------------------------------------------------------------------
(* Data. *)

Plan == {"none", "upload", "download", "conflict"}
States == {"new", "synced", "waiting", "conflict", "failed"}
ThreadPC == {"off", "top", "check", "lock", "plan", "step", "report", "open", "after"}
Thread == [pc : ThreadPC, all : BOOLEAN, ids : SUBSET Games, manual : BOOLEAN,
           plan : [Games -> Plan], todo : SUBSET Games, waiting : BOOLEAN, mine : SUBSET Games]
Off == [pc |-> "off", all |-> FALSE, ids |-> {}, manual |-> FALSE,
        plan |-> [g \in Games |-> "none"], todo |-> {}, waiting |-> FALSE, mine |-> {}]
Top == [Off EXCEPT !.pc = "top"]

LoopPC == {"select", "set", "ask", "compare"}
Loop == [pc : LoopPC, ids : SUBSET Games, still : BOOLEAN]
Select == [pc |-> "select", ids |-> {}, still |-> FALSE]

Goto(x, pc) == thr' = [thr EXCEPT ![x].pc = pc]

\* The games a request or a pass covers: every game when all is set.
Cover(all, ids) == IF all THEN Games ELSE ids
Covers(x) == Cover(thr[x].all, thr[x].ids)

\* A pass holds passMu.
PassFree == \A x \in Threads : thr[x].pc \notin {"plan", "step"}

Runs(g) == EmuOf[g] \in playing

\* Saves.syncing.
Syncing(g) == pendingAll \/ currentAll \/ g \in pending \/ g \in current

-----------------------------------------------------------------------------
(* request, and the calls that make one. *)

\* request: th is what the threads do next.  A goroutine starts unless one works.
Ask(th, ids, all, manual) ==
  /\ pendingAll' = (pendingAll \/ all)
  /\ pending' = pending \cup ids
  /\ pendingManual' = (pendingManual \/ manual)
  /\ working' = TRUE
  /\ IF working THEN thr' = th ELSE \E w \in Workers : thr[w].pc = "off" /\ thr' = [th EXCEPT ![w] = Top]
  /\ owed' = owed \cup Cover(all, ids)
  /\ asked' = IF manual THEN asked \cup Cover(all, ids) ELSE asked

\* Start: Sync now, of a game or of every game.
Start(ids, all) ==
  /\ ready /\ asks < MaxAsks /\ (all <=> ids = {})
  /\ asks' = asks + 1
  /\ Ask(thr, ids, all, TRUE)
  /\ UNCHANGED <<running, waits, loop, watch, rec, save, playing, ready, writes, faults>>

\* Opened looks whether a sync ran or runs just now, and asks for one otherwise.
Opened(c) ==
  /\ thr[c].pc = "off" /\ asks < MaxAsks /\ ~working /\ ~recent
  /\ asks' = asks + 1
  /\ thr' = [thr EXCEPT ![c] = [Off EXCEPT !.pc = "open", !.all = TRUE]]
  /\ UNCHANGED <<request, running, waits, loop, watch, rec, save, playing, ready, writes, faults, aux>>

OpenedAsks(c) ==
  /\ thr[c].pc = "open"
  /\ Ask([thr EXCEPT ![c] = Off], {}, TRUE, FALSE)
  /\ UNCHANGED <<running, waits, loop, watch, rec, save, world>>

\* SwitchSlot (manual) and carryOver sync one game themselves.
SyncOne(c, g, manual) ==
  /\ thr[c].pc = "off" /\ asks < MaxAsks /\ ready
  /\ manual => ~Runs(g)
  /\ asks' = asks + 1
  /\ thr' = [thr EXCEPT ![c] = [Off EXCEPT !.pc = "lock", !.ids = {g}, !.manual = manual]]
  /\ UNCHANGED <<request, running, waits, loop, watch, rec, save, playing, ready, writes, faults, aux>>

\* Then they ask for another sync, once the slot switched or the save moved, or they are done.
AfterSync(c) ==
  /\ thr[c].pc = "after"
  /\ \/ Ask([thr EXCEPT ![c] = Off], thr[c].ids, FALSE, thr[c].manual)
     \/ thr' = [thr EXCEPT ![c] = Off] /\ UNCHANGED <<request, aux>>
  /\ UNCHANGED <<running, waits, loop, watch, rec, save, world>>

-----------------------------------------------------------------------------
(* work. *)

\* What is pending becomes what the next pass covers.
Take(w) ==
  /\ thr[w].pc = "top" /\ (pendingAll \/ pending # {})
  /\ thr' = [thr EXCEPT ![w] = [Off EXCEPT !.pc = "check", !.all = pendingAll,
       !.ids = IF pendingAll THEN {} ELSE pending, !.manual = pendingManual, !.mine = asked]]
  /\ current' = pending /\ currentAll' = pendingAll
  /\ pending' = {} /\ pendingAll' = FALSE /\ pendingManual' = FALSE
  /\ asked' = {}
  /\ UNCHANGED <<working, recent, waits, loop, watch, rec, save, world, owed>>

\* Nothing is pending: the goroutine ends.
Rest(w) ==
  /\ thr[w].pc = "top" /\ ~pendingAll /\ pending = {}
  /\ working' = FALSE
  /\ thr' = [thr EXCEPT ![w] = Off]
  /\ UNCHANGED <<pending, pendingAll, pendingManual, running, waits, loop, watch, rec, save, world, aux>>

\* A sync nobody asked for that can't run is skipped.
Skip(w) ==
  /\ thr[w].pc = "check" /\ ~ready /\ ~thr[w].manual
  /\ thr' = [thr EXCEPT ![w] = [Top EXCEPT !.mine = thr[w].mine]]
  /\ current' = {} /\ currentAll' = FALSE
  /\ owed' = owed \ Covers(w) /\ missed' = missed \cup (Covers(w) \cap unread)
  /\ UNCHANGED <<request, recent, waits, loop, armed, settled, wrote, rec, save, world, asked>>

Begin(w) ==
  /\ thr[w].pc = "check" /\ (ready \/ thr[w].manual)
  /\ Goto(w, "lock")
  /\ UNCHANGED <<request, running, waits, loop, watch, rec, save, world, aux>>

\* Variant: what is pending is emptied at the end of a pass, with what was asked for meanwhile.
ReportEmptying(w) ==
  /\ thr[w].pc = "report"
  /\ pending' = {} /\ pendingAll' = FALSE /\ pendingManual' = FALSE
  /\ current' = {} /\ currentAll' = FALSE /\ recent' = TRUE
  /\ waits' = (waits \/ thr[w].waiting)
  /\ thr' = [thr EXCEPT ![w] = Top]
  /\ UNCHANGED <<working, loop, watch, rec, save, world, aux>>

\* The pass is over: the games it covered are no longer current, and the end is told.
Report(w) ==
  /\ thr[w].pc = "report"
  /\ current' = {} /\ currentAll' = FALSE /\ recent' = TRUE
  /\ waits' = (waits \/ thr[w].waiting)
  /\ thr' = [thr EXCEPT ![w] = Top]
  /\ UNCHANGED <<request, loop, watch, rec, save, world, aux>>

-----------------------------------------------------------------------------
(* Sync. *)

\* What x does once its pass is over: work reports it, the others go on.
Over(x) == IF x \in Workers
             THEN [Off EXCEPT !.pc = "report", !.manual = thr[x].manual, !.waiting = thr[x].waiting, !.mine = thr[x].mine]
             ELSE [Off EXCEPT !.pc = "after", !.ids = thr[x].ids, !.manual = thr[x].manual]

\* passMu is taken, and ready asked.  A Sync that can't run ends.
Lock(x) ==
  /\ thr[x].pc = "lock" /\ PassFree
  /\ IF ready THEN Goto(x, "plan") /\ UNCHANGED <<owed, missed>>
     ELSE /\ thr' = [thr EXCEPT ![x] = Over(x)]
          /\ owed' = IF x \in Workers THEN owed \ Covers(x) ELSE owed
          /\ missed' = missed \cup (Covers(x) \cap unread)
  /\ UNCHANGED <<request, running, waits, loop, armed, settled, wrote, rec, save, world, asked>>

PlanOf(g) == CASE g \in differs /\ g \in newer -> "conflict"
               [] g \in differs /\ g \notin newer -> "upload"
               [] g \notin differs /\ g \in newer -> "download"
               [] OTHER -> "none"

\* Variant: a game that waits already is left to the next turn of retryWaiting.
NegotiateOthers(x) ==
  /\ thr[x].pc = "plan"
  /\ thr' = [thr EXCEPT ![x] = [@ EXCEPT !.pc = "step", !.todo = {g \in Covers(x) : rec[g] # "waiting"},
                                         !.plan = [g \in Games |-> IF g \in Covers(x) THEN PlanOf(g) ELSE "none"]]]
  /\ unread' = unread \ Covers(x) /\ missed' = missed \ Covers(x)
  /\ owed' = owed \ Covers(x)
  /\ UNCHANGED <<request, running, waits, loop, armed, settled, wrote, rec, differs, newer, world, asked>>

\* The saves are read, and RomM plans what syncing them takes.
Negotiate(x) ==
  /\ thr[x].pc = "plan"
  /\ thr' = [thr EXCEPT ![x] = [@ EXCEPT !.pc = "step", !.todo = Covers(x),
                                         !.plan = [g \in Games |-> IF g \in Covers(x) THEN PlanOf(g) ELSE "none"]]]
  /\ unread' = unread \ Covers(x) /\ missed' = missed \ Covers(x)
  /\ owed' = owed \ Covers(x)
  /\ UNCHANGED <<request, running, waits, loop, armed, settled, wrote, rec, differs, newer, world, asked>>

\* RomM can't be asked: the pass ends.
NegotiateFails(x) ==
  /\ thr[x].pc = "plan" /\ faults < MaxFaults
  /\ faults' = faults + 1
  /\ thr' = [thr EXCEPT ![x] = Over(x)]
  /\ unread' = unread \ Covers(x) /\ missed' = missed \ Covers(x)
  /\ owed' = owed \ Covers(x)
  /\ UNCHANGED <<request, running, waits, loop, armed, settled, wrote, rec, differs, newer,
                 playing, ready, writes, asks, asked>>

\* The game's step is done, its record put.
Done(x, g, state) ==
  /\ rec' = [rec EXCEPT ![g] = state]
  /\ thr' = [thr EXCEPT ![x] = [thr[x] EXCEPT !.todo = @ \ {g}, !.waiting = @ \/ state = "waiting"]]

\* An upload, which RomM refuses when another device's save came first.
Upload(x, g) ==
  /\ thr[x].pc = "step" /\ g \in thr[x].todo /\ thr[x].plan[g] = "upload"
  /\ Done(x, g, IF g \in newer THEN "conflict" ELSE "synced")
  /\ differs' = IF g \in newer \/ g \in unread THEN differs ELSE differs \ {g}
  /\ UNCHANGED <<request, running, waits, loop, watch, unread, newer, world, aux>>

\* A download waits for the emulator.
Waits(x, g) ==
  /\ thr[x].pc = "step" /\ g \in thr[x].todo /\ thr[x].plan[g] = "download" /\ Runs(g)
  /\ Done(x, g, "waiting")
  /\ UNCHANGED <<request, running, waits, loop, watch, save, world, aux>>

\* The save is downloaded and written, of which the watch hears.
Download(x, g) ==
  /\ thr[x].pc = "step" /\ g \in thr[x].todo /\ thr[x].plan[g] = "download" /\ ~Runs(g) /\ g \notin unread
  /\ Done(x, g, "synced")
  /\ newer' = newer \ {g}
  /\ wrote' = [wrote EXCEPT ![g] = "recent"]
  /\ armed' = armed \cup {g}
  /\ UNCHANGED <<request, running, waits, loop, settled, missed, differs, unread, world, aux>>

\* A conflict, or two saves that match.
Compare(x, g) ==
  /\ thr[x].pc = "step" /\ g \in thr[x].todo /\ thr[x].plan[g] \in {"conflict", "none"}
  /\ Done(x, g, IF thr[x].plan[g] = "conflict" THEN "conflict" ELSE "synced")
  /\ UNCHANGED <<request, running, waits, loop, watch, save, world, aux>>

\* A step fails: RomM does, or the save changed since the plan.
StepFails(x, g) ==
  /\ thr[x].pc = "step" /\ g \in thr[x].todo /\ thr[x].plan[g] \in {"upload", "download"}
  /\ \/ faults < MaxFaults /\ faults' = faults + 1
     \/ thr[x].plan[g] = "download" /\ ~Runs(g) /\ g \in unread /\ UNCHANGED faults
  /\ Done(x, g, "failed")
  /\ UNCHANGED <<request, running, waits, loop, watch, save, playing, ready, writes, asks, aux>>

\* passMu is let go.
PassEnds(x) ==
  /\ thr[x].pc = "step" /\ thr[x].todo = {}
  /\ thr' = [thr EXCEPT ![x] = Over(x)]
  /\ UNCHANGED <<request, running, waits, loop, watch, rec, save, world, aux>>

Pass(x) ==
  \/ Lock(x) \/ Negotiate(x) \/ NegotiateFails(x) \/ PassEnds(x)
  \/ \E g \in Games : Upload(x, g) \/ Waits(x, g) \/ Download(x, g) \/ Compare(x, g) \/ StepFails(x, g)

-----------------------------------------------------------------------------
(* Run's loop, one case at a time. *)

\* The periodic pull; emulators' settings that changed ask for the same.
Pull ==
  /\ loop.pc = "select"
  /\ Ask(thr, {}, TRUE, FALSE)
  /\ UNCHANGED <<running, waits, loop, watch, rec, save, world>>

\* A save's timer fires, its emulator having written nothing for a while.
Fire(g) ==
  /\ g \in armed
  /\ armed' = armed \ {g} /\ settled' = settled \cup {g}
  /\ UNCHANGED <<request, running, waits, loop, wrote, missed, thr, rec, save, world, aux>>

\* saveWritten takes what the plugin wrote itself for that.
Settled(g) ==
  /\ loop.pc = "select" /\ g \in settled
  /\ settled' = settled \ {g}
  /\ wrote' = [wrote EXCEPT ![g] = "no"]
  /\ IF wrote[g] = "recent"
       THEN UNCHANGED loop /\ missed' = IF g \in unread THEN missed \cup {g} ELSE missed
       ELSE loop' = [Select EXCEPT !.pc = "compare", !.ids = {g}] /\ UNCHANGED missed
  /\ UNCHANGED <<request, running, waits, armed, thr, rec, save, world, aux>>

\* Variant: the save is taken for what last synced while any pass runs.
WrittenUnlessBusy ==
  /\ loop.pc = "compare"
  /\ loop' = Select
  /\ IF (loop.ids \subseteq differs) /\ ~working THEN Ask(thr, loop.ids, FALSE, FALSE)
     ELSE UNCHANGED <<request, thr, aux>>
  /\ UNCHANGED <<running, waits, watch, rec, save, world>>

\* A save that is what last synced has nothing to upload; another asks for its game's sync.
Written ==
  /\ loop.pc = "compare"
  /\ loop' = Select
  /\ IF loop.ids \subseteq differs THEN Ask(thr, loop.ids, FALSE, FALSE) ELSE UNCHANGED <<request, thr, aux>>
  /\ UNCHANGED <<running, waits, watch, rec, save, world>>

\* retryWaiting reads waits, and then which games wait, whose emulators closed and whose didn't.
Poll ==
  /\ loop.pc = "select" /\ waits
  /\ loop' = [pc |-> "set", ids |-> {g \in Games : rec[g] = "waiting" /\ ~Runs(g)},
              still |-> \E g \in Games : rec[g] = "waiting" /\ Runs(g)]
  /\ UNCHANGED <<request, running, waits, watch, thr, rec, save, world, aux>>

\* It writes waits as it found it then.
RetrySet ==
  /\ loop.pc = "set"
  /\ waits' = loop.still
  /\ loop' = IF loop.ids = {} THEN Select ELSE [loop EXCEPT !.pc = "ask"]
  /\ UNCHANGED <<request, running, watch, thr, rec, save, world, aux>>

RetryAsk ==
  /\ loop.pc = "ask"
  /\ loop' = Select
  /\ Ask(thr, loop.ids, FALSE, FALSE)
  /\ UNCHANGED <<running, waits, watch, rec, save, world>>

-----------------------------------------------------------------------------
(* Everyone else. *)

Play(e) ==
  /\ playing' = IF e \in playing THEN playing \ {e} ELSE playing \cup {e}
  /\ UNCHANGED <<request, running, waits, loop, watch, thr, rec, save, ready, writes, asks, faults, aux>>

\* An emulator writes a save: the watch hears of it, and its timer starts over.
EmulatorWrites(g) ==
  /\ Runs(g) /\ writes < MaxWrites
  /\ writes' = writes + 1
  /\ differs' = differs \cup {g} /\ unread' = unread \cup {g}
  /\ armed' = armed \cup {g}
  /\ UNCHANGED <<request, running, waits, loop, settled, wrote, missed, thr, rec, newer, playing, ready, asks, faults, aux>>

\* Another device uploads a save of the game.
OtherDevice(g) ==
  /\ writes < MaxWrites /\ g \notin newer
  /\ writes' = writes + 1
  /\ newer' = newer \cup {g}
  /\ UNCHANGED <<request, running, waits, loop, watch, thr, rec, differs, unread, playing, ready, asks, faults, aux>>

\* The sign-in, the device or the folders come or go.
ReadyTurns ==
  /\ ready' = ~ready
  /\ IF ready THEN faults < MaxFaults /\ faults' = faults + 1 ELSE UNCHANGED faults
  /\ UNCHANGED <<request, running, waits, loop, watch, thr, rec, save, playing, writes, asks, aux>>

\* Time passes since the last sync, and since a write of the plugin's.
GapPasses ==
  /\ recent /\ recent' = FALSE
  /\ UNCHANGED <<request, current, currentAll, waits, loop, watch, thr, rec, save, world, aux>>

WriteAges(g) ==
  /\ wrote[g] = "recent"
  /\ wrote' = [wrote EXCEPT ![g] = "no"]
  /\ UNCHANGED <<request, running, waits, loop, armed, settled, missed, thr, rec, save, world, aux>>

-----------------------------------------------------------------------------

Init ==
  /\ pending = {} /\ pendingAll = FALSE /\ pendingManual = FALSE /\ working = FALSE
  /\ current = {} /\ currentAll = FALSE /\ recent = FALSE
  /\ waits = TRUE
  /\ thr = [x \in Threads |-> Off] /\ loop = Select
  /\ armed = {} /\ settled = {} /\ wrote = [g \in Games |-> "no"] /\ missed = {}
  /\ rec = [g \in Games |-> "new"]
  /\ differs = {} /\ unread = {} /\ newer = {}
  /\ playing = {} /\ ready = TRUE /\ writes = 0 /\ asks = 0 /\ faults = 0
  /\ owed = {} /\ asked = {}

Work(w) == Take(w) \/ Rest(w) \/ Skip(w) \/ Begin(w) \/ Report(w)
Call(c) == OpenedAsks(c) \/ AfterSync(c)
Turn == Written \/ RetrySet \/ RetryAsk

Next ==
  \/ \E w \in Workers : Work(w)
  \/ \E x \in Threads : Pass(x)
  \/ \E c \in Callers : Call(c) \/ Opened(c) \/ \E g \in Games, m \in BOOLEAN : SyncOne(c, g, m)
  \/ \E ids \in SUBSET Games, all \in BOOLEAN : Start(ids, all)
  \/ Pull \/ Poll \/ Turn
  \/ \E g \in Games : Fire(g) \/ Settled(g) \/ EmulatorWrites(g) \/ OtherDevice(g) \/ WriteAges(g)
  \/ \E e \in Emus : Play(e)
  \/ ReadyTurns \/ GapPasses

Spec == Init /\ [][Next]_vars

\* Goroutines run on, passMu is handed to whoever waits, and the ticker of the pull goes on.
Fairness ==
  /\ \A w \in Workers : WF_vars(Work(w))
  /\ \A c \in Callers : WF_vars(Call(c))
  /\ \A x \in Threads : WF_vars(Pass(x))
  /\ WF_vars(Turn) /\ SF_vars(Pull)

LiveSpec == Spec /\ Fairness

-----------------------------------------------------------------------------
(* Properties. *)

TypeOK ==
  /\ pending \subseteq Games /\ current \subseteq Games
  /\ {pendingAll, pendingManual, currentAll, working, recent, waits, ready} \subseteq BOOLEAN
  /\ wrote \in [Games -> {"no", "recent"}]
  /\ thr \in [Threads -> Thread] /\ loop \in Loop
  /\ armed \subseteq Games /\ settled \subseteq Games /\ missed \subseteq Games
  /\ rec \in [Games -> States]
  /\ differs \subseteq Games /\ unread \subseteq Games /\ newer \subseteq Games
  /\ playing \subseteq Emus
  /\ writes \in 0 .. MaxWrites /\ asks \in 0 .. MaxAsks /\ faults \in 0 .. MaxFaults
  /\ owed \subseteq Games /\ asked \subseteq Games

\* The queued syncs are run by one goroutine at a time, and by one as long as any is queued
\* (saves.go:276).
OneWorker ==
  /\ \A w, v \in Workers : thr[w].pc # "off" /\ thr[v].pc # "off" => w = v
  /\ working <=> \E w \in Workers : thr[w].pc # "off"
  /\ pendingAll \/ pending # {} => working

\* A game somebody asked to sync shows as syncing until a pass has read its save since: a request
\* that comes while work takes what is pending, or while a pass runs, is never dropped
\* (saves.go:256).
RequestsKept == \A g \in owed : Syncing(g)

\* What the user asked for is never taken for a sync nobody asked for, whose failure isn't told
\* (saves.go:296).
AskedHeard ==
  /\ asked # {} => pendingManual
  /\ \A w \in Workers : thr[w].mine # {} => thr[w].manual

\* A save its emulator wrote is on its way to a pass, from the watch to the request, unless the plugin
\* wrote the same save just before, or no sync could run (saves.go:194, 296).
WritesHeard ==
  \A g \in (unread \cap differs) \ missed :
    g \in armed \/ g \in settled \/ (loop.pc = "compare" /\ g \in loop.ids) \/ Syncing(g)

\* waits is set while a game's download may be waiting for its emulator to close (saves.go:192).
WaitingWatched ==
  \A g \in Games : rec[g] = "waiting" =>
    waits \/ Syncing(g) \/ (loop.pc = "ask" /\ g \in loop.ids)

\* Requests do what Coalescing promises of them, in whatever order goroutines ask, syncs run and Sync is
\* called directly, and whatever fails: the flags and sets request and work keep are one queue, what a
\* sync covers is what was queued when it began, and every game asked for is covered in the end
\* (saves.go:256, 275, 310).
Promise ==
  INSTANCE Coalescing WITH queued <- Cover(pendingAll, pending), covered <- Cover(currentAll, current), busy <- working
Coalesces == Promise!Spec

\* A download that waits goes on once its emulator is closed and RomM can be asked: the pull finds it
\* even when retryWaiting doesn't (saves.go:370, 478).
WaitingEnds == \A g \in Games : rec[g] = "waiting" ~> (rec[g] # "waiting" \/ Runs(g) \/ ~ready)
===============================================================================
