-------------------------------- MODULE Library --------------------------------
(***************************************************************************)
(* The Catalog's refresh (catalog.go), what it keeps of games this Deck    *)
(* has a record of (removed.go), and the calls that change the server      *)
(* under it (server.go): Edit URL, Forget server, Clear cache.             *)
(*                                                                         *)
(* A refresh asks RomM for the games changed since its cursor a page at a  *)
(* time, for every id RomM has, and applies both in one transaction.  One  *)
(* action is one request, one transaction, or one section of Catalog.mu.   *)
(* A game is its id; RomM never gives an id again.  Time is the number of  *)
(* changes made on RomM's side.                                            *)
(***************************************************************************)
EXTENDS Integers, FiniteSets

CONSTANTS
  Contents,     \* what a game's files can hold
  MaxId,        \* bound: the ids RomM gives
  PageSize,     \* catalogPageSize
  MaxChanges,   \* bound: games changed, imported and deleted on RomM
  MaxCalls,     \* bound: calls of the user's that change the server or clear the Catalog
  MaxFaults     \* bound: requests that fail, and sign-ins that end

None == "none"
ASSUME ContentsAssumption == None \notin Contents
ASSUME BoundsAssumption == {MaxId, PageSize, MaxChanges, MaxCalls, MaxFaults} \subseteq Nat /\ PageSize > 0

Ids == 1 .. MaxId
Addresses == {1, 2}    \* the server's address, and the one the user may move to
NoServer == 0

VARIABLES
  same,      \* the two addresses are of one RomM
  romm,      \* each RomM's games: what they hold, and when they last changed
  signin,    \* the address signed in to, and whether its token still counts
  roms,      \* the Catalog's games: whose, as of when, and the removed mark
  cursor,    \* the newest change among the games a refresh received
  synced,    \* syncedAt isn't zero
  run,       \* the refresh under way, and what it read
  problem,   \* Catalog.problem
  retry,     \* the retry timer runs
  rec,       \* this Deck's records: whose game, and what its files hold
  jobs,      \* games in the download queue
  call,      \* the user's call under way
  changes, calls, faults,
  shifted,   \* auxiliary: RomM's games changed while a refresh was receiving its pages
  late       \* auxiliary: a refresh or a download of the old server outlived a change of servers

catalog == <<roms, cursor, synced>>
timer == <<problem, retry>>
deck == <<rec, jobs>>
bounds == <<changes, calls, faults>>
aux == <<shifted, late>>
vars == <<same, romm, signin, catalog, run, timer, deck, call, bounds, aux>>

-----------------------------------------------------------------------------
(* Data. *)

Now == changes + 1
Game == [content : Contents \cup {None}, at : Nat]
Row == [of : {NoServer} \cup Addresses, at : Nat, removed : BOOLEAN]
NoRow == [of |-> NoServer, at |-> 0, removed |-> FALSE]
Record == [of : {NoServer} \cup Addresses, content : Contents \cup {None}]
NoRecord == [of |-> NoServer, content |-> None]

Kinds == {"none", "unreachable", "other"}
Run == [pc : {"off", "sync", "page", "ids", "gone", "match", "apply", "end"}, address : {NoServer} \cup Addresses,
        full : BOOLEAN, cursor : Nat, offset : Nat, got : [Ids -> Nat], keep : SUBSET Ids, retain : SUBSET Ids,
        gone : [Ids -> Contents \cup {None}], known : SUBSET Ids, err : Kinds]
Off == [pc |-> "off", address |-> NoServer, full |-> FALSE, cursor |-> 0, offset |-> 0, got |-> [i \in Ids |-> 0], keep |-> {},
        retain |-> {}, gone |-> [i \in Ids |-> None], known |-> {}, err |-> "none"]

Call == [pc : {"off", "wait", "drop", "stop", "empty", "last"}, forgets : BOOLEAN]
NoCall == [pc |-> "off", forgets |-> FALSE]
Jobs == {"none", "runs", "cancelled"}

\* The RomM at an address.
At(a) == romm[IF same THEN 1 ELSE a]
Has(a) == {i \in Ids : At(a)[i].content # None}

\* activeSignIn: none, or signed out, and there is nothing to sync with.
activeSignIn == IF signin.active THEN signin.address ELSE NoServer

Shown == {i \in Ids : roms[i].of # NoServer}
OwnedIDs == {i \in Ids : rec[i] # NoRecord}
Received(r) == {i \in Ids : r.got[i] > 0}

MaxOf(S) == CHOOSE n \in S : \A m \in S : m <= n

-----------------------------------------------------------------------------
(* RomM's API, as the refresh asks it. *)

\* ROMs, ordered by id: those changed after since, when it isn't zero.
Changed(a, since) == {i \in Has(a) : since = 0 \/ At(a)[i].at > since}
Before(S, i) == Cardinality({j \in S : j < i})
ROMs(a, since, offset) ==
  LET all == Changed(a, since)
  IN {i \in all : Before(all, i) >= offset /\ Before(all, i) < offset + PageSize}

ROMIDs(a) == Has(a)

-----------------------------------------------------------------------------
(* The Catalog's file. *)

\* Variant: the games this Deck holds a record of go with the others.
ApplyUnretained ==
  LET upserted(i) == IF run.got[i] > 0 THEN [of |-> run.address, at |-> run.got[i], removed |-> FALSE]
                     ELSE IF run.full THEN NoRow ELSE roms[i]
      newest == MaxOf({run.cursor} \cup {run.got[i] : i \in Ids})
  IN /\ roms' = [i \in Ids |-> IF run.full \/ i \in run.keep THEN upserted(i) ELSE NoRow]
     /\ cursor' = IF newest = 0 THEN cursor ELSE newest
     /\ synced' = TRUE

\* Apply: one transaction.
Apply ==
  LET kept == IF run.full THEN run.retain ELSE Ids
      upserted(i) == IF run.got[i] > 0 THEN [of |-> run.address, at |-> run.got[i], removed |-> FALSE]
                     ELSE IF i \in kept THEN roms[i] ELSE NoRow
      listed(i) == run.full \/ i \in run.keep \cup run.retain
      newest == MaxOf({run.cursor} \cup {run.got[i] : i \in Ids})
  IN /\ roms' = [i \in Ids |-> IF ~listed(i) \/ upserted(i) = NoRow THEN NoRow
                               ELSE [upserted(i) EXCEPT !.removed = @ \/ i \in run.retain]]
     /\ cursor' = IF newest = 0 THEN cursor ELSE newest
     /\ synced' = TRUE

\* Variant: what the last sync was is kept.
ClearKeepsMeta ==
  /\ roms' = [i \in Ids |-> NoRow]
  /\ UNCHANGED <<cursor, synced>>

\* Clear.
Clear ==
  /\ roms' = [i \in Ids |-> NoRow]
  /\ cursor' = 0 /\ synced' = FALSE

-----------------------------------------------------------------------------
(* The refresh. *)

\* Refresh: nothing happens while one runs, or without a sign-in, and the retry it replaces is off.
\* An unforced one of a fresh Catalog, which does nothing, is the call that never came.
Refresh ==
  IF activeSignIn = NoServer \/ run.pc # "off" THEN UNCHANGED <<run, retry>>
  ELSE run' = [Off EXCEPT !.pc = "sync"] /\ retry' = FALSE

\* The user, a sign-in that lands, the start, or the QAM opening.
Asked ==
  /\ run.pc = "off" /\ activeSignIn # NoServer
  /\ Refresh
  /\ UNCHANGED <<same, romm, signin, catalog, problem, deck, call, bounds, aux>>

Retry ==
  /\ retry
  /\ IF activeSignIn = NoServer \/ run.pc # "off" THEN retry' = FALSE /\ UNCHANGED run ELSE Refresh
  /\ UNCHANGED <<same, romm, signin, catalog, problem, deck, call, bounds, aux>>

\* sync reads the sign-in and what the last one left; without a sign-in there is nothing to do.
Sync ==
  /\ run.pc = "sync"
  /\ run' = IF activeSignIn = NoServer THEN [run EXCEPT !.pc = "end"]
            ELSE [run EXCEPT !.pc = "page", !.address = activeSignIn, !.full = ~synced,
                             !.cursor = IF synced THEN cursor ELSE 0]
  /\ UNCHANGED <<same, romm, signin, catalog, timer, deck, call, bounds, aux>>

Page ==
  /\ run.pc = "page"
  /\ LET page == ROMs(run.address, run.cursor, run.offset)
     IN run' = [run EXCEPT !.got = [i \in Ids |-> IF i \in page THEN At(run.address)[i].at ELSE @[i]],
                           !.offset = IF Cardinality(page) < PageSize THEN 0 ELSE @ + PageSize,
                           !.pc = IF Cardinality(page) = PageSize THEN "page" ELSE IF run.full THEN "gone" ELSE "ids"]
  /\ UNCHANGED <<same, romm, signin, catalog, timer, deck, call, bounds, aux>>

KeepIds ==
  /\ run.pc = "ids"
  /\ run' = [run EXCEPT !.pc = "gone", !.keep = ROMIDs(run.address)]
  /\ UNCHANGED <<same, romm, signin, catalog, timer, deck, call, bounds, aux>>

\* Rematch reads the records of games RomM no longer has. Those in the queue are left as they are,
\* and nothing new on RomM can match one.
Gone ==
  /\ run.pc = "gone"
  /\ LET gone == OwnedIDs \ (Received(run) \cup run.keep)
         look == IF Received(run) = {} THEN {} ELSE {i \in gone : jobs[i] = "none"}
     IN run' = [run EXCEPT !.pc = IF look = {} THEN "apply" ELSE "match",
                           !.retain = gone \ look, !.known = OwnedIDs,
                           !.gone = [i \in Ids |-> IF i \in look THEN rec[i].content ELSE None]]
  /\ UNCHANGED <<same, romm, signin, catalog, timer, deck, call, bounds, aux>>

\* rematchIn lists RomM's games once more, and moves the record it read of a game imported again to the
\* lowest id that holds the same. MoveOwned takes the place of what either id has.
Looked == {i \in Ids : run.gone[i] # None}
Matches(i) == {j \in Has(activeSignIn) : /\ j \notin run.known /\ jobs[j] = "none"
                                         /\ At(activeSignIn)[j].content = run.gone[i]}
Match(i) ==
  /\ run.pc = "match" /\ i \in Looked /\ activeSignIn # NoServer
  /\ \E j \in Matches(i) :
       /\ \A k \in Matches(i) : j <= k
       /\ rec' = [rec EXCEPT ![i] = NoRecord, ![j] = [of |-> activeSignIn, content |-> run.gone[i]]]
       /\ run' = [run EXCEPT !.gone[i] = None, !.known = @ \cup {j}]
  /\ UNCHANGED <<same, romm, signin, catalog, timer, jobs, call, bounds, aux>>

\* The rest are Removed from RomM: nothing holds the same, or RomM couldn't be asked.
Matched ==
  /\ run.pc = "match"
  /\ run' = [run EXCEPT !.pc = "apply", !.retain = @ \cup Looked, !.gone = Off.gone]
  /\ IF activeSignIn = NoServer \/ \A i \in Looked : Matches(i) = {} THEN UNCHANGED faults
     ELSE faults < MaxFaults /\ faults' = faults + 1
  /\ UNCHANGED <<same, romm, signin, catalog, timer, deck, call, changes, calls, aux>>

Applied ==
  /\ run.pc = "apply"
  /\ Apply
  /\ run' = [Off EXCEPT !.pc = "end"]
  /\ UNCHANGED <<same, romm, signin, timer, deck, call, bounds, aux>>

\* A request fails, or the transaction: only what RomM was to answer is tried again later.
RequestFails ==
  /\ run.pc \in {"page", "ids", "apply"}
  /\ faults < MaxFaults /\ faults' = faults + 1
  /\ \E err \in {"unreachable", "other"} :
       /\ run.pc = "apply" => err = "other"
       /\ run' = [Off EXCEPT !.pc = "end", !.err = err]
  /\ UNCHANGED <<same, romm, signin, catalog, timer, deck, call, changes, calls, aux>>

\* Variant: only a forced refresh, or one of a Catalog never synced, is tried again.
EndUnlessSynced ==
  /\ run.pc = "end"
  /\ run' = Off
  /\ problem' = run.err
  /\ retry' = (retry \/ (run.err = "unreachable" /\ ~synced))
  /\ UNCHANGED <<same, romm, signin, catalog, deck, call, bounds, aux>>

End ==
  /\ run.pc = "end"
  /\ run' = Off
  /\ problem' = run.err
  /\ retry' = (retry \/ run.err = "unreachable")
  /\ UNCHANGED <<same, romm, signin, catalog, deck, call, bounds, aux>>

-----------------------------------------------------------------------------
(* Calls that change the server. *)

Calls(forgets, pc) ==
  /\ call = NoCall /\ calls < MaxCalls /\ calls' = calls + 1
  /\ call' = [pc |-> pc, forgets |-> forgets]
Then(pc) == call' = [call EXCEPT !.pc = pc]

\* recognizedBy: every record checked is of the same game at the new address.
recognizedBy(a) == \A i \in OwnedIDs : At(a)[i].content = rec[i].content

\* Move: the sign-in now names the new address.
Move(a) ==
  /\ Calls(FALSE, "stop") /\ signin.active /\ a # signin.address
  /\ recognizedBy(a)
  /\ signin' = [signin EXCEPT !.address = a]
  /\ UNCHANGED <<same, romm, catalog, run, timer, deck, changes, faults, aux>>

\* clear_cache.
ClearCache ==
  /\ Calls(FALSE, "stop")
  /\ UNCHANGED <<same, romm, signin, catalog, run, timer, deck, changes, faults, aux>>

\* Catalog.Clear stops the retry, and then empties the file.
StopRetry ==
  /\ call.pc = "stop"
  /\ retry' = FALSE /\ problem' = "none"
  /\ Then("empty")
  /\ UNCHANGED <<same, romm, signin, catalog, run, deck, bounds, aux>>

\* A refresh that read the sign-in and the cursor will apply what it receives to the emptied Catalog.
Outlives == run.pc \notin {"off", "sync", "end"}

Empty ==
  /\ call.pc = "empty"
  /\ Clear
  /\ late' = (late \/ Outlives)
  /\ Then("last")
  /\ UNCHANGED <<same, romm, signin, run, timer, deck, bounds, shifted>>

\* The call gives up where it stands.
EmptyFails ==
  /\ call.pc = "empty"
  /\ faults < MaxFaults /\ faults' = faults + 1
  /\ late' = TRUE
  /\ call' = NoCall
  /\ UNCHANGED <<same, romm, signin, catalog, run, timer, deck, changes, calls, shifted>>

ThenRefresh ==
  /\ call.pc = "last" /\ ~call.forgets
  /\ Refresh
  /\ call' = NoCall
  /\ UNCHANGED <<same, romm, signin, catalog, problem, deck, bounds, aux>>

\* Forget: forgetServer cancels every download, and waits for the queue to be empty.
Forget ==
  /\ Calls(TRUE, "wait") /\ signin.address # NoServer
  /\ jobs' = [i \in Ids |-> IF jobs[i] = "none" THEN "none" ELSE "cancelled"]
  /\ UNCHANGED <<same, romm, signin, catalog, run, timer, rec, changes, faults, aux>>

\* Variant: the records go once the wait is over, whatever still runs.
WaitedAnyway ==
  /\ call.pc = "wait"
  /\ Then("drop")
  /\ UNCHANGED <<same, romm, signin, catalog, run, timer, deck, bounds, aux>>

Waited ==
  /\ call.pc = "wait"
  /\ IF \A i \in Ids : jobs[i] = "none" THEN Then("drop") ELSE call' = NoCall
  /\ UNCHANGED <<same, romm, signin, catalog, run, timer, deck, bounds, aux>>

\* Store.ForgetServer. A game queued since the queue was seen empty is still there.
ForgetServer ==
  /\ call.pc = "drop"
  /\ rec' = [i \in Ids |-> NoRecord]
  /\ late' = (late \/ run.pc = "match")
  /\ Then("stop")
  /\ UNCHANGED <<same, romm, signin, catalog, run, timer, jobs, bounds, shifted>>

ForgetSignIn ==
  /\ call.pc = "last" /\ call.forgets
  /\ signin' = [address |-> NoServer, active |-> FALSE]
  /\ late' = (late \/ Outlives \/ synced)
  /\ call' = NoCall
  /\ UNCHANGED <<same, romm, catalog, run, timer, deck, bounds, shifted>>

-----------------------------------------------------------------------------
(* The Deck, and RomM. *)

\* Queue, of a game of the library that RomM has.
Queue(i) ==
  /\ i \in Shown /\ activeSignIn # NoServer /\ i \in Has(activeSignIn) /\ ~roms[i].removed
  /\ jobs[i] = "none" /\ rec[i] = NoRecord
  /\ jobs' = [jobs EXCEPT ![i] = "runs"]
  /\ late' = (late \/ (call.forgets /\ call.pc # "wait"))
  /\ UNCHANGED <<same, romm, signin, catalog, run, timer, rec, call, bounds, shifted>>

\* A download ends: with its record, or without.
Downloaded(i) ==
  /\ jobs[i] = "runs" /\ activeSignIn # NoServer /\ i \in Has(activeSignIn)
  /\ jobs' = [jobs EXCEPT ![i] = "none"]
  /\ rec' = [rec EXCEPT ![i] = [of |-> activeSignIn, content |-> At(activeSignIn)[i].content]]
  /\ UNCHANGED <<same, romm, signin, catalog, run, timer, call, bounds, aux>>

JobEnds(i) ==
  /\ jobs[i] # "none"
  /\ jobs' = [jobs EXCEPT ![i] = "none"]
  /\ UNCHANGED <<same, romm, signin, catalog, run, timer, rec, call, bounds, aux>>

\* The user deletes a game of theirs.
Delete(i) ==
  /\ rec[i] # NoRecord /\ jobs[i] = "none" /\ call = NoCall
  /\ calls < MaxCalls /\ calls' = calls + 1
  /\ rec' = [rec EXCEPT ![i] = NoRecord]
  /\ UNCHANGED <<same, romm, signin, catalog, run, timer, jobs, call, changes, faults, aux>>

\* The sign-in lapses, and the user signs in again; after Forget, to either server.
Lapses ==
  /\ signin.active /\ faults < MaxFaults /\ faults' = faults + 1
  /\ signin' = [signin EXCEPT !.active = FALSE]
  /\ UNCHANGED <<same, romm, catalog, run, timer, deck, call, changes, calls, aux>>

SignIn(a) ==
  /\ ~signin.active /\ call = NoCall /\ signin.address \in {NoServer, a}
  /\ signin' = [address |-> a, active |-> TRUE]
  /\ UNCHANGED <<same, romm, catalog, run, timer, deck, call, bounds, aux>>

Change(s, i, game) ==
  /\ changes < MaxChanges /\ changes' = changes + 1 /\ (same => s = 1)
  /\ romm' = [romm EXCEPT ![s][i] = game]
  /\ shifted' = (shifted \/ (run.pc = "page" /\ run.offset > 0))
  /\ UNCHANGED <<same, signin, catalog, run, timer, deck, call, calls, faults, late>>

\* RomM's user edits a game, imports one, or deletes one.
Touched(s, i) == romm[s][i].content # None /\ Change(s, i, [romm[s][i] EXCEPT !.at = Now + 1])
Imported(s, i, c) ==
  /\ romm[s][i].at = 0 /\ \A j \in Ids : j < i => romm[s][j].at > 0
  /\ Change(s, i, [content |-> c, at |-> Now + 1])
Deleted(s, i) == romm[s][i].content # None /\ Change(s, i, [romm[s][i] EXCEPT !.content = None])

-----------------------------------------------------------------------------
Init ==
  /\ same \in BOOLEAN
  /\ \E c \in Contents : romm = [s \in Addresses |-> [i \in Ids |-> IF i = 1 THEN [content |-> c, at |-> 1]
                                                                    ELSE [content |-> None, at |-> 0]]]
  /\ signin = [address |-> 1, active |-> TRUE]
  /\ roms = [i \in Ids |-> NoRow] /\ cursor = 0 /\ synced = FALSE
  /\ run = Off /\ problem = "none" /\ retry = FALSE
  /\ rec = [i \in Ids |-> NoRecord] /\ jobs = [i \in Ids |-> "none"]
  /\ call = NoCall
  /\ changes = 0 /\ calls = 0 /\ faults = 0
  /\ shifted = FALSE /\ late = FALSE

RunStep == Sync \/ Page \/ KeepIds \/ Gone \/ (\E i \in Ids : Match(i)) \/ Matched \/ Applied \/ End
CallStep == Waited \/ ForgetServer \/ StopRetry \/ Empty \/ ThenRefresh \/ ForgetSignIn

Next ==
  \/ Asked \/ Retry \/ RunStep \/ RequestFails
  \/ CallStep \/ EmptyFails \/ ClearCache \/ Forget \/ \E a \in Addresses : Move(a) \/ SignIn(a)
  \/ Lapses
  \/ \E i \in Ids : Queue(i) \/ Downloaded(i) \/ JobEnds(i) \/ Delete(i)
  \/ \E s \in Addresses, i \in Ids : Touched(s, i) \/ Deleted(s, i) \/ \E c \in Contents : Imported(s, i, c)

Spec == Init /\ [][Next]_vars

\* The goroutine of a refresh and the call under way go on, the timer fires, and downloads end.
Fairness == WF_vars(RunStep) /\ WF_vars(Retry) /\ WF_vars(CallStep)
FairSpec == Spec /\ Fairness

-----------------------------------------------------------------------------
(* Properties. *)

TypeOK ==
  /\ same \in BOOLEAN /\ romm \in [Addresses -> [Ids -> Game]]
  /\ signin \in [address : {NoServer} \cup Addresses, active : BOOLEAN]
  /\ roms \in [Ids -> Row] /\ cursor \in Nat /\ synced \in BOOLEAN
  /\ run \in Run /\ problem \in Kinds /\ retry \in BOOLEAN
  /\ rec \in [Ids -> Record] /\ jobs \in [Ids -> Jobs] /\ call \in Call
  /\ changes \in 0 .. MaxChanges /\ calls \in 0 .. MaxCalls /\ faults \in 0 .. MaxFaults
  /\ shifted \in BOOLEAN /\ late \in BOOLEAN

\* The Catalog is of the server signed in to: no call stands between a new sign-in and the emptied
\* Catalog, and none was outlived, or ended half-way.
Current == ~late /\ call = NoCall

\* And the games stood still as they were received.
Undisturbed == ~shifted /\ Current

\* The cursor never passes a change the Catalog doesn't have: a game RomM last changed before it is
\* there as it is on RomM, since no later refresh would ask for it. Of a Catalog no refresh outlived
\* the clearing of, received while RomM's games stood still (catalog.go, sync).
Covered ==
  synced /\ Undisturbed /\ signin.address # NoServer =>
    \A i \in Has(signin.address) :
      LET at == At(signin.address)[i].at
      IN at <= cursor => i \in Shown /\ roms[i].at = at

\* A game marked Removed from RomM is one RomM doesn't have (removed.go, Rematch).
RemovedGone ==
  Current /\ signin.address # NoServer => \A i \in Has(signin.address) : ~roms[i].removed

\* Games RomM no longer has that this Deck has had a record of since before the refresh looked.
RecordedGone == (run.known \cap OwnedIDs \cap Shown) \ Has(signin.address)

\* A refresh takes none of them out of the library: it marks them removed (removed.go, Rematch;
\* cache/store.go, Apply). All but one it received as changed, and RomM deleted before it listed its ids;
\* and of a Catalog that isn't another server's still.
RecordsShown ==
  [][Applied /\ Current =>
       \A i \in RecordedGone \ Received(run) : roms'[i].of # NoServer]_vars

\* "Games this Deck holds a record of stay, marked Removed from RomM, unless they were re-imported."
\* (catalog.go:277)
RecordsStay == [][Applied /\ run.address = signin.address => \A i \in RecordedGone : roms'[i].of # NoServer]_vars

\* Once the server is forgotten nothing of it is left: no game, record, download or cursor (server.go,
\* Forget), unless a refresh or a queued download overtook the call.
Forgotten ==
  signin.address = NoServer /\ ~late => Shown = {} /\ ~synced /\ OwnedIDs = {} /\ \A i \in Ids : jobs[i] = "none"

\* While the sign-in lasts, a refresh that couldn't reach RomM isn't the last one (catalog.go, run).
Retried == []signin.active => <>[](problem # "unreachable")

\* A sync that fills an empty Catalog is a full one: "Clear empties the Catalog, so the next sync is a
\* full one" (catalog.go:64).
ClearedThenFull == [][~synced /\ synced' => run.full]_vars
=============================================================================
