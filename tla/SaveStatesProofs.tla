--------------------------- MODULE SaveStatesProofs ---------------------------
(* Theorems of SaveStates, for every set of slots, settings and unreadable *)
(* states, and every number of states, calls and faults.                   *)
EXTENDS SaveStates, FiniteSetTheorems, WellFoundedInduction, SequenceTheorems, TLAPS

-----------------------------------------------------------------------------
(* The inductive invariant. *)

\* Settings of the user's hold what validStatePrefs lets through.
PrefsValid(p) == Valid(p) /\ ("sync" \in DOMAIN p => p.sync \in BOOLEAN)

Types ==
  /\ deck \in [StateSlots -> [state : 0 .. MaxStates, at : Nat]]
  /\ playing \in BOOLEAN
  /\ romm \in Seq(Entry)
  /\ PrefsValid(own) /\ PrefsValid(global)
  /\ seen \in [StateSlots -> 0 .. MaxStates]
  /\ uploads \subseteq sent /\ sent \subseteq Ids
  /\ game \in Game
  /\ op \in Op
  /\ made \in 0 .. MaxStates
  /\ {calls, faults} \subseteq Nat

\* What an operation read of RomM's list, and what it recorded there, is there.
Reads ==
  /\ op.load \in {0} \cup Ids /\ op.list \subseteq Ids /\ op.ours \subseteq sent
  /\ op.pc = "upload" => op.what # None
  /\ op.pc = "add" => op.up \in sent
  /\ op.pc = "saw" => op.up \in Ids
  /\ op.pc \in {"fetch", "place", "placed"} => op.newest \in Ids
  /\ op.pc = "place" => op.todo \subseteq Placing(op.set)
  /\ op.pc = "placed" => op.todo \subseteq Placing(op.set) /\ op.slot \in Placing(op.set)

\* Nothing is lost when a slot that holds this state is replaced.
Given(state) == state \in Foreign \cup {None} \/ Kept(state)

\* RomM has what was uploaded, and what is placed.
WhatKept == op.pc \in {"add", "saw", "place", "placed"} => Kept(op.what)

\* A slot that was looked at holds what was found there, or what the emulator wrote since.
AsFound == op.pc \in {"upload", "add", "saw"} => op.slot \in op.late \/ deck[op.slot].state = op.what

\* Slots that were looked at and may be replaced hold nothing that would be lost; blocked says some
\* slot does.
LookedAt ==
  /\ op.pc \in {"files", "upload", "add", "saw"} /\ ~op.blocked =>
       \A s \in Placing(op.set) \ op.todo : s \in op.late \/ Given(deck[s].state)
  /\ op.pc \in {"fetch", "place", "placed"} =>
       \A s \in Placing(op.set) : s \in op.late \/ Given(deck[s].state)
  /\ op.load # 0 => ~op.blocked

Inv == Types /\ Reads /\ SeenStored /\ WhatKept /\ AsFound /\ LookedAt

-----------------------------------------------------------------------------
(* Settings. *)

\* The settings a game's and everyone's make are settings.
LEMMA Applied ==
  ASSUME NEW p, PrefsValid(p), NEW s \in Settings
  PROVE  Apply(p, s) \in Settings
<1>1. DOMAIN s = {"sync", "target", "extra", "keep"}
  BY DEF Settings
<1>2. \A f \in DOMAIN s : f \notin DOMAIN p => Apply(p, s)[f] = s[f]
  BY DEF Apply
<1>3. \A f \in DOMAIN s : f \in DOMAIN p => Apply(p, s)[f] = p[f]
  BY DEF Apply
<1>4. DOMAIN Apply(p, s) = DOMAIN s /\ Apply(p, s) = [f \in DOMAIN s |-> Apply(p, s)[f]]
  BY DEF Apply
<1>5. /\ Apply(p, s).sync \in BOOLEAN /\ Apply(p, s).target \in StateSlots
      /\ Apply(p, s).extra \in StateSlots \cup {NoExtra} /\ Apply(p, s).keep \in StateKeeps
  BY <1>1, <1>2, <1>3 DEF PrefsValid, Valid, Settings
<1> QED BY <1>1, <1>4, <1>5 DEF Settings

LEMMA SettingsValid == PrefsValid(own) /\ PrefsValid(global) => StateSettings \in Settings
  BY Applied, DefaultAssumption DEF StateSettings, Settings

LEMMA GlobalValid ==
  ASSUME NEW p, PrefsValid(p), PrefsValid(global)
  PROVE  PrefsValid(Over(p, global))
<1>1. DOMAIN (Over(p, global)) = DOMAIN p \cup DOMAIN global
  BY DEF Over
<1>2. \A f \in DOMAIN p \cup DOMAIN global : (Over(p, global))[f] = IF f \in DOMAIN p THEN p[f] ELSE global[f]
  BY DEF Over
<1> QED BY <1>1, <1>2 DEF PrefsValid, Valid

-----------------------------------------------------------------------------
(* RomM's list. *)

\* What a list grows by.
LEMMA Grown ==
  ASSUME romm \in Seq(Entry), NEW e \in Entry, romm' = Append(romm, e)
  PROVE  /\ romm' \in Seq(Entry) /\ Ids \subseteq Ids' /\ Len(romm') \in Ids' /\ romm'[Len(romm')] = e
         /\ \A v \in Ids : romm'[v] = romm[v]
         /\ Ids' = Ids \cup {Len(romm')}
<1>1. romm' \in Seq(Entry) /\ Len(romm') = Len(romm) + 1 /\ romm'[Len(romm) + 1] = e
      /\ \A v \in 1 .. Len(romm) : romm'[v] = romm[v]
  BY AppendProperties
<1>2. Len(romm) \in Nat /\ Ids = 1 .. Len(romm) /\ Ids' = 1 .. Len(romm')
  BY <1>1, LenProperties DEF Ids
<1> QED BY <1>1, <1>2

\* What a delete leaves.
LEMMA Marked ==
  ASSUME romm \in Seq(Entry), NEW drop, DeleteStates(drop)
  PROVE  /\ romm' \in Seq(Entry) /\ Ids' = Ids
         /\ \A v \in Ids : romm'[v].state = romm[v].state /\ romm'[v].core = romm[v].core
         /\ \A v \in Ids \ drop : romm'[v] = romm[v]
<1>1. \A v \in Ids : romm[v] \in Entry /\ [romm[v] EXCEPT !.gone = TRUE] \in Entry
  <2>1. \A v \in Ids : romm[v] \in Entry
    BY LenProperties DEF Ids
  <2> QED BY <2>1 DEF Entry
<1>2. Ids = 1 .. Len(romm) /\ Len(romm) \in Nat
  BY LenProperties DEF Ids
<1>3. romm' = [v \in 1 .. Len(romm) |-> IF v \in drop THEN [romm[v] EXCEPT !.gone = TRUE] ELSE romm[v]]
  BY <1>2 DEF DeleteStates
<1>4. romm' \in Seq(Entry)
  BY <1>1, <1>2, <1>3, IsASeq
<1>5. Ids' = Ids
  BY <1>2, <1>3 DEF Ids
<1>6. \A v \in Ids : romm'[v].state = romm[v].state /\ romm'[v].core = romm[v].core
  BY <1>1, <1>2, <1>3 DEF Entry
<1> QED BY <1>2, <1>3, <1>4, <1>5, <1>6

\* A set of numbers has a least one.
LEMMA HasLeast ==
  ASSUME NEW S \in SUBSET Nat, S # {}
  PROVE  \E k \in S : \A j \in S : k <= j
<1> DEFINE R == OpToRel(<, Nat)
<1>1. PICK k \in S : \A j \in S : ~(<<j, k>> \in R)
  <2> HIDE DEF R
  <2>1. IsWellFoundedOn(R, Nat)
    BY NatLessThanWellFounded DEF R
  <2> QED BY <2>1, WFMin
<1>2. ASSUME NEW j \in S, j < k PROVE <<j, k>> \in R
  <2>1. <<j, k>> \in Nat \X Nat /\ <<j, k>>[1] = j /\ <<j, k>>[2] = k
    OBVIOUS
  <2>2. <<j, k>>[1] < <<j, k>>[2]
    BY <1>2
  <2> QED BY Zenon, <2>1, <2>2 DEF OpToRel
<1>3. \A j \in S : ~(j < k)
  BY Zenon, <1>1, <1>2
<1> QED BY <1>3

\* A set of RomM's ids has a newest one.
LEMMA HasNewest ==
  ASSUME romm \in Seq(Entry), NEW S \in SUBSET Ids, S # {}
  PROVE  Newest(S) \in S /\ \A w \in S : w <= Newest(S)
<1> DEFINE n == Len(romm)
           Back == {n - v : v \in S}
<1>1. n \in Nat /\ \A v \in S : v \in Nat /\ n - v \in Nat
  BY LenProperties DEF Ids
<1>2. Back # {} /\ Back \in SUBSET Nat
  BY <1>1
<1> HIDE DEF n, Back
<1>3. PICK k \in Back : \A j \in Back : k <= j
  BY <1>2, HasLeast
<1>4. PICK v \in S : k = n - v
  BY <1>3 DEF Back
<1>5. ASSUME NEW w \in S PROVE w <= v
  <2>1. n - w \in Back
    BY DEF Back
  <2> QED BY <1>1, <1>3, <1>4, <2>1
<1> QED BY <1>4, <1>5 DEF Newest

\* RomM's list loses no state.
Extends == /\ romm' \in Seq(Entry) /\ Ids \subseteq Ids'
           /\ \A v \in Ids : romm'[v].state = romm[v].state

LEMMA KeptOn ==
  ASSUME Extends, NEW CONSTANT state
  PROVE  /\ Kept(state) => Kept(state)'
         /\ Given(state) => Given(state)'
  BY DEF Extends, Kept, Given

LEMMA SeenOn == Extends /\ SeenStored /\ seen' = seen => SeenStored'
  BY DEF Extends, SeenStored, Kept

\* A slot is recorded as seen.
LEMMA SeenPut ==
  ASSUME Extends, SeenStored, Types, NEW s \in StateSlots, NEW state \in 0 .. MaxStates,
         PutStateFile(s, state), state \in Foreign \/ Kept(state)
  PROVE  SeenStored' /\ seen' \in [StateSlots -> 0 .. MaxStates]
<1>1. seen' = [seen EXCEPT ![s] = state] /\ seen \in [StateSlots -> 0 .. MaxStates]
  BY DEF PutStateFile, Types
<1> QED BY <1>1 DEF Extends, SeenStored, Kept

-----------------------------------------------------------------------------
(* The operation under way. *)

\* Operations keep their types when the actions update them.
LEMMA OpTypes ==
  /\ Idle \in Op
  /\ \A o \in Op : Done(o) \in Op /\ Blocked(o) \in Op /\ Trimming(o) \in Op
  /\ \A o \in Op, pc \in PCs : [o EXCEPT !.pc = pc] \in Op
<1>1. Default \in Settings /\ 0 \in 0 .. MaxStates
  BY DefaultAssumption, BoundsAssumption DEF Settings
<1>2. Idle \in Op
  BY <1>1, SlotsAssumption DEF Idle, Op, PCs, Game, None
<1>3. ASSUME NEW o \in Op PROVE Done(o) \in Op /\ Trimming(o) \in Op
  <2>1. Done(o) \in Op
    BY <1>1, SlotsAssumption DEF Op, PCs, Done, None
  <2>2. Trimming(o) \in Op
    BY <1>1, SlotsAssumption DEF Op, PCs, Trimming, None
  <2> QED BY <2>1, <2>2
<1>4. ASSUME NEW o \in Op PROVE Blocked(o) \in Op
  <2>1. Done(o) \in Op /\ o.blocked \in BOOLEAN /\ Done(o).blocked = o.blocked
    BY <1>3 DEF Op, Done
  <2>2. (o.blocked \/ o.slot \in Placing(o.set)) \in BOOLEAN
    BY <2>1
  <2> QED BY <2>1, <2>2 DEF Op, Blocked
<1>5. \A o \in Op, pc \in PCs : [o EXCEPT !.pc = pc] \in Op
  BY DEF Op
<1> QED BY <1>2, <1>3, <1>4, <1>5

\* An operation that reads no slot and places nothing.
LEMMA Resting ==
  ASSUME op'.pc \in {"off", "list", "trim", "forget", "end"},
         op'.load \in {0} \cup Ids', op'.list \subseteq Ids', op'.ours \subseteq sent',
         op'.load # 0 => ~op'.blocked
  PROVE  Reads' /\ WhatKept' /\ AsFound' /\ LookedAt'
  BY DEF Reads, WhatKept, AsFound, LookedAt

\* One that ended.
LEMMA Ended ==
  ASSUME op' = Idle
  PROVE  Reads' /\ WhatKept' /\ AsFound' /\ LookedAt'
<1>1. op'.pc = "off" /\ op'.load = 0 /\ op'.list = {} /\ op'.ours = {}
  BY DEF Idle
<1> QED BY <1>1, Resting

\* One that is done with a slot: nothing is lost if it is replaced, or it is kept as it is.
LEMMA SlotDone ==
  ASSUME Inv, Extends, sent \subseteq sent', deck' = deck,
         op.pc \in {"files", "upload", "add", "saw"}, NEW s \in StateSlots,
         op'.pc = "files", op'.set = op.set, op'.load = op.load, op'.ours = op.ours,
         op'.list \subseteq Ids', op'.todo = op.todo \ {s}, op.late \ {s} \subseteq op'.late,
         \/ op'.blocked = op.blocked /\ (s \in op'.late \/ Given(deck[s].state)')
         \/ op'.blocked = (op.blocked \/ s \in Placing(op.set)) /\ op.load = 0
  PROVE  Reads' /\ WhatKept' /\ AsFound' /\ LookedAt'
<1>1. Reads' /\ WhatKept' /\ AsFound'
  BY DEF Inv, Reads, Extends, WhatKept, AsFound
<1>2. op'.load # 0 => ~op'.blocked
  BY DEF Inv, LookedAt
<1>3. ASSUME ~op'.blocked, NEW r \in Placing(op.set) \ op'.todo
      PROVE  r \in op'.late \/ Given(deck[r].state)'
  <2>1. CASE r # s
    <3>1. r \in op.late \/ Given(deck[r].state)
      BY <1>3, <2>1 DEF Inv, LookedAt
    <3> QED BY <2>1, <3>1 DEF Given, Kept, Extends
  <2>2. CASE r = s
    BY <1>3, <2>2
  <2> QED BY <2>1, <2>2
<1>4. LookedAt'
  BY <1>2, <1>3 DEF LookedAt, Placing
<1> QED BY <1>1, <1>4

\* What every step of an operation leaves alone.
Inner == /\ UNCHANGED <<playing, own, global, made, calls>>
         /\ faults' = faults \/ faults' = faults + 1

LEMMA TypesOn ==
  ASSUME Types, Extends, Inner, deck' = deck, seen' \in [StateSlots -> 0 .. MaxStates],
         uploads' \subseteq sent', sent' \subseteq Ids', game' = game, op' \in Op
  PROVE  Types'
  BY DEF Types, Extends, Inner, PrefsValid, Valid

\* A step that changes neither RomM's list nor the records.
LEMMA OnlyOp ==
  ASSUME Inv, Inner, UNCHANGED <<deck, romm, seen, uploads, game, sent>>, op' \in Op
  PROVE  /\ Extends /\ Types' /\ SeenStored'
         /\ \A state : Given(state) <=> Given(state)'
<1>1. Extends
  BY DEF Inv, Types, Extends, Ids
<1>2. uploads' \subseteq sent' /\ sent' \subseteq Ids'
  BY DEF Inv, Types, Ids
<1>3. Types'
  BY <1>1, <1>2, TypesOn DEF Inv, Types
<1>4. SeenStored'
  BY <1>1, SeenOn DEF Inv
<1> QED BY <1>1, <1>3, <1>4 DEF Given, Kept, Ids

LEMMA AddedState ==
  ASSUME Types, NEW state \in 1 .. MaxStates, UploadState(state)
  PROVE  /\ Extends /\ sent' = sent \cup {Len(romm')} /\ sent' \subseteq Ids'
         /\ Len(romm') \in Ids' /\ romm'[Len(romm')].state = state
<1> DEFINE e == [state |-> state, core |-> TRUE, gone |-> FALSE]
<1>1. e \in Entry
  BY DEF Entry, States
<1>2. romm' = Append(romm, e) /\ sent' = sent \cup {Len(romm')} /\ romm \in Seq(Entry)
  BY DEF UploadState, Types
<1>3. /\ romm' \in Seq(Entry) /\ Ids \subseteq Ids' /\ Len(romm') \in Ids' /\ romm'[Len(romm')] = e
      /\ \A v \in Ids : romm'[v] = romm[v]
  BY <1>1, <1>2, Grown
<1>4. Extends /\ romm'[Len(romm')].state = state
  BY <1>3 DEF Extends
<1>5. sent' \subseteq Ids'
  BY <1>2, <1>3 DEF Types
<1> QED BY <1>2, <1>3, <1>4, <1>5

\* The steps that look at the slots and upload what they hold.
LEMMA SlotSteps ==
  ASSUME Inv,
         \/ List \/ ListFails \/ Unreadable \/ Upload \/ UploadFails \/ Add \/ Saw \/ RecordFails
         \/ \E s \in StateSlots : Read(s) \/ ReadFails(s)
  PROVE  Inv'
<1> USE DEF prefs, records, bounds
<1>1. Types /\ op \in Op /\ Idle \in Op /\ op.slot \in StateSlots /\ op.set \in Settings
  BY OpTypes DEF Inv, Types, Op
<1>2. Placing(op.set) \subseteq StateSlots
  BY <1>1 DEF Placing, Settings
<1>3. CASE List
  <2>1. Inner /\ UNCHANGED <<deck, romm, seen, uploads, game, sent>> /\ Listed \subseteq Ids
    BY <1>3 DEF List, Inner, Listed
  <2>2. CASE op.load \notin Listed \cup {0}
    <3>1. op' = Idle
      BY <1>3, <2>2 DEF List
    <3> QED BY <1>1, <2>1, <3>1, OnlyOp, Ended DEF Inv
  <2>3. CASE op.load \in Listed \cup {0}
    <3> DEFINE todo == IF op.load = 0 THEN StateSlots ELSE Placing(op.set)
    <3>1. op' = [op EXCEPT !.pc = "files", !.list = Listed, !.todo = todo] /\ op.pc = "list"
      BY <1>3, <2>3 DEF List
    <3>2. Listed \subseteq Nat
      BY <1>1, LenProperties DEF Listed, Ids, Types
    <3>3. op' \in Op
      BY <1>1, <1>2, <3>1, <3>2 DEF Op, PCs
    <3>4. /\ op'.pc = "files" /\ op'.list = Listed /\ op'.todo = todo /\ op'.set = op.set
          /\ op'.load = op.load /\ op'.ours = op.ours /\ op'.blocked = op.blocked
      BY <1>1, <3>1 DEF Op
    <3>5. Types' /\ SeenStored' /\ Extends
      BY <2>1, <3>3, OnlyOp
    <3>6. Reads' /\ WhatKept' /\ AsFound'
      BY <2>1, <3>4, <3>5 DEF Inv, Reads, WhatKept, AsFound, Extends
    <3>7. Placing(op.set) \subseteq op'.todo
      BY <1>2, <3>4
    <3>8. LookedAt'
      BY <3>4, <3>7 DEF Inv, LookedAt, Placing
    <3> QED BY <3>5, <3>6, <3>8 DEF Inv
  <2> QED BY <2>2, <2>3
<1>4. CASE ListFails
  <2>1. Inner /\ UNCHANGED <<deck, romm, seen, uploads, game, sent>> /\ op.pc = "list"
        /\ Fail([op EXCEPT !.pc = "files", !.listed = FALSE, !.todo = StateSlots])
    BY <1>4 DEF ListFails, Inner, Fault
  <2>2. CASE op.load # 0
    BY <1>1, <2>1, <2>2, OnlyOp, Ended DEF Inv, Fail
  <2>3. CASE op.load = 0
    <3>1. op' = [op EXCEPT !.pc = "files", !.listed = FALSE, !.todo = StateSlots]
      BY <2>1, <2>3 DEF Fail
    <3>2. op' \in Op
      BY <1>1, <3>1 DEF Op, PCs
    <3>3. /\ op'.pc = "files" /\ op'.list = op.list /\ op'.todo = StateSlots /\ op'.set = op.set
          /\ op'.load = op.load /\ op'.ours = op.ours /\ op'.blocked = op.blocked
      BY <1>1, <3>1 DEF Op
    <3>4. Types' /\ SeenStored' /\ Extends
      BY <2>1, <3>2, OnlyOp
    <3>5. Reads' /\ WhatKept' /\ AsFound'
      BY <2>1, <3>3, <3>4 DEF Inv, Reads, WhatKept, AsFound, Extends
    <3>6. LookedAt'
      BY <1>2, <2>3, <3>3 DEF Inv, LookedAt, Placing
    <3> QED BY <3>4, <3>5, <3>6 DEF Inv
  <2> QED BY <2>2, <2>3
  \* It gives up, or blocks the slot it is at.
<1>5. ASSUME Extends, Inner, Types', SeenStored', deck' = deck, sent \subseteq sent',
             op.pc \in {"files", "upload", "add", "saw"}, NEW o \in Op, Fail(Blocked(o)),
             o.set = op.set, o.load = op.load, o.ours = op.ours, o.list = op.list,
             o.todo = op.todo, o.late = op.late, o.blocked = op.blocked
      PROVE  Inv'
  <2>1. CASE op.load # 0
    BY <1>5, <2>1, Ended DEF Inv, Fail
  <2>2. CASE op.load = 0
    <3>1. op' = Blocked(o) /\ o.slot \in StateSlots /\ op'.todo = op.todo \ {o.slot}
      BY <1>5, <2>2 DEF Fail, Blocked, Done, Op
    <3>2. /\ op'.pc = "files" /\ op'.set = op.set /\ op'.load = op.load /\ op'.ours = op.ours
          /\ op'.list = op.list /\ op'.late = op.late
          /\ op'.blocked = (op.blocked \/ o.slot \in Placing(op.set))
      BY <1>5, <3>1 DEF Blocked, Done, Op
    <3>3. op'.list \subseteq Ids'
      BY <1>5, <3>2 DEF Inv, Reads, Extends
    <3> QED BY <1>5, <2>2, <3>1, <3>2, <3>3, SlotDone DEF Inv
  <2> QED BY <2>1, <2>2
<1>6. ASSUME NEW s \in StateSlots, Read(s) PROVE Inv'
  <2> DEFINE o == [op EXCEPT !.slot = s, !.what = deck[s].state, !.late = @ \ {s}]
  <2>1. Inner /\ UNCHANGED <<deck, romm, seen, uploads, game, sent>> /\ op.pc = "files"
    BY <1>6 DEF Read, Inner
  <2>2. deck[s].state \in 0 .. MaxStates
    BY <1>1 DEF Types
  <2>3. o \in Op
    BY <1>1, <2>2 DEF Op
  <2>4. /\ o.slot = s /\ o.what = deck[s].state /\ o.late = op.late \ {s} /\ o.todo = op.todo
        /\ o.set = op.set /\ o.load = op.load /\ o.ours = op.ours /\ o.list = op.list
        /\ o.blocked = op.blocked
    BY <1>1 DEF Op
  <2> HIDE DEF o
  <2>5. CASE deck[s].state \in {None, seen[s]}
    <3>1. op' = Done(o)
      BY <1>6, <2>5 DEF Read, o
    <3>2. Types' /\ SeenStored' /\ Extends
      BY <2>1, <2>3, <3>1, OnlyOp, OpTypes
    <3>3. /\ op'.pc = "files" /\ op'.set = op.set /\ op'.load = op.load /\ op'.ours = op.ours
          /\ op'.list = op.list /\ op'.late = op.late \ {s} /\ op'.blocked = op.blocked
          /\ op'.todo = op.todo \ {s}
      BY <2>3, <2>4, <3>1 DEF Done, Op
    <3>4. Given(deck[s].state)
      BY <2>5 DEF Inv, SeenStored, Given
    <3>5. Given(deck[s].state)'
      BY <2>1, <3>4 DEF Given, Kept, Ids
    <3>6. op'.list \subseteq Ids'
      BY <3>2, <3>3 DEF Inv, Reads, Extends
    <3> QED BY <2>1, <3>2, <3>3, <3>5, <3>6, SlotDone DEF Inv
  <2>6. CASE deck[s].state \notin {None, seen[s]}
    <3>1. op' = [o EXCEPT !.pc = "upload"]
      BY <1>6, <2>6 DEF Read, o
    <3>2. op' \in Op
      BY <2>3, <3>1, OpTypes DEF PCs
    <3>3. Types' /\ SeenStored' /\ Extends /\ \A state : Given(state) <=> Given(state)'
      BY <2>1, <3>2, OnlyOp
    <3>4. /\ op'.pc = "upload" /\ op'.slot = s /\ op'.what = deck[s].state /\ op'.late = op.late \ {s}
          /\ op'.todo = op.todo /\ op'.set = op.set /\ op'.load = op.load /\ op'.ours = op.ours
          /\ op'.list = op.list /\ op'.blocked = op.blocked
      BY <2>3, <2>4, <3>1 DEF Op
    <3>5. Reads' /\ WhatKept' /\ AsFound'
      BY <2>1, <2>6, <3>3, <3>4 DEF Inv, Reads, WhatKept, AsFound, Extends
    <3>6. s \in op.todo
      BY <1>6 DEF Read
    <3>7. LookedAt'
      BY <2>1, <3>3, <3>4, <3>6 DEF Inv, LookedAt, Placing
    <3> QED BY <3>3, <3>5, <3>7 DEF Inv
  <2> QED BY <2>5, <2>6
<1>7. ASSUME NEW s \in StateSlots, ReadFails(s) PROVE Inv'
  <2> DEFINE o == [op EXCEPT !.slot = s]
  <2>1. /\ Inner /\ UNCHANGED <<deck, romm, seen, uploads, game, sent>> /\ op.pc = "files"
        /\ Fail(Blocked(o))
    BY <1>7 DEF ReadFails, Inner, Fault
  <2>2. o \in Op
    BY <1>1 DEF Op
  <2>3. /\ o.late = op.late /\ o.todo = op.todo /\ o.set = op.set /\ o.load = op.load
        /\ o.ours = op.ours /\ o.list = op.list /\ o.blocked = op.blocked
    BY <1>1 DEF Op
  <2> HIDE DEF o
  <2>4. op' \in Op
    BY <2>1, <2>2, OpTypes DEF Fail
  <2>5. Extends /\ Types' /\ SeenStored'
    BY <2>1, <2>4, OnlyOp
  <2> QED BY <1>5, <2>1, <2>2, <2>3, <2>5
<1>8. Fail(Blocked(op)) => op' \in Op
  BY <1>1, OpTypes DEF Fail
<1>9. CASE Unreadable
  <2>1. /\ Inner /\ UNCHANGED <<deck, romm, uploads, game, sent>> /\ op.pc = "upload"
        /\ Fail(Blocked(op)) /\ PutStateFile(op.slot, op.what) /\ op.what \in Foreign
    BY <1>9 DEF Unreadable, Inner, Readable
  <2>2. Extends /\ uploads' \subseteq sent' /\ sent' \subseteq Ids'
    BY <1>1, <2>1 DEF Types, Extends, Ids
  <2>3. SeenStored' /\ seen' \in [StateSlots -> 0 .. MaxStates]
    BY <1>1, <2>1, <2>2, SeenPut DEF Inv, Op
  <2>4. Types'
    BY <1>1, <1>8, <2>1, <2>2, <2>3, TypesOn
  <2> QED BY <1>1, <1>5, <2>1, <2>2, <2>3, <2>4
<1>10. CASE Upload
  <2>1. /\ Inner /\ UNCHANGED <<deck, seen, uploads, game>> /\ op.pc = "upload"
        /\ UploadState(op.what) /\ op' = [op EXCEPT !.pc = "add", !.up = Len(romm')]
    BY <1>10 DEF Upload, Inner
  <2>2. op.what \in 1 .. MaxStates
    BY <1>1, <2>1, BoundsAssumption DEF Inv, Reads, Op, None
  <2>3. /\ Extends /\ sent' = sent \cup {Len(romm')} /\ sent' \subseteq Ids'
        /\ Len(romm') \in Ids' /\ romm'[Len(romm')].state = op.what
    BY <1>1, <2>1, <2>2, AddedState
  <2>4. Len(romm') \in Nat
    BY <2>3, LenProperties DEF Extends, Ids
  <2>5. op' \in Op
    BY <1>1, <2>1, <2>4 DEF Op, PCs
  <2>6. /\ op'.pc = "add" /\ op'.up = Len(romm') /\ op'.slot = op.slot /\ op'.what = op.what
        /\ op'.late = op.late /\ op'.todo = op.todo /\ op'.set = op.set /\ op'.load = op.load
        /\ op'.ours = op.ours /\ op'.list = op.list /\ op'.blocked = op.blocked
    BY <1>1, <2>1 DEF Op
  <2>7. seen' \in [StateSlots -> 0 .. MaxStates] /\ uploads' \subseteq sent'
    BY <1>1, <2>1, <2>3 DEF Types
  <2>8. Types' /\ SeenStored'
    BY <1>1, <2>1, <2>3, <2>5, <2>7, TypesOn, SeenOn DEF Inv
  <2>9. Reads' /\ WhatKept' /\ AsFound'
    BY <2>1, <2>3, <2>6 DEF Inv, Reads, WhatKept, AsFound, Extends, Kept
  <2>10. LookedAt'
    BY <2>1, <2>3, <2>6 DEF Inv, LookedAt, Placing, Given, Kept, Extends
  <2> QED BY <2>8, <2>9, <2>10 DEF Inv
<1>11. CASE UploadFails
  <2>1. /\ Inner /\ UNCHANGED <<deck, seen, uploads, game>> /\ op.pc = "upload"
        /\ Fail(Blocked(op)) /\ (UNCHANGED <<romm, sent>> \/ UploadState(op.what))
    BY <1>11 DEF UploadFails, Inner, Fault
  <2>2. op.what \in 1 .. MaxStates
    BY <1>1, <2>1, BoundsAssumption DEF Inv, Reads, Op, None
  <2>3. Extends /\ sent \subseteq sent' /\ sent' \subseteq Ids'
    <3>1. CASE UNCHANGED <<romm, sent>>
      BY <1>1, <3>1 DEF Extends, Types, Ids
    <3>2. CASE UploadState(op.what)
      BY <1>1, <2>2, <3>2, AddedState
    <3> QED BY <2>1, <3>1, <3>2
  <2>4. seen' \in [StateSlots -> 0 .. MaxStates] /\ uploads' \subseteq sent'
    BY <1>1, <2>1, <2>3 DEF Types
  <2>5. Types' /\ SeenStored'
    BY <1>1, <1>8, <2>1, <2>3, <2>4, TypesOn, SeenOn DEF Inv
  <2> QED BY <1>1, <1>5, <2>1, <2>3, <2>5
<1>12. CASE Add
  <2>1. /\ Inner /\ UNCHANGED <<deck, romm, seen, game, sent>> /\ op.pc = "add"
        /\ uploads' = uploads \cup {op.up} /\ op' = [op EXCEPT !.pc = "saw"]
    BY <1>12 DEF Add, AddUploadedState, Inner
  <2>2. Extends /\ sent' \subseteq Ids' /\ uploads' \subseteq sent'
    BY <1>1, <2>1 DEF Inv, Reads, Types, Extends, Ids
  <2>3. op' \in Op
    BY <1>1, <2>1, OpTypes DEF PCs
  <2>4. Types' /\ SeenStored'
    BY <1>1, <2>1, <2>2, <2>3, TypesOn, SeenOn DEF Inv, Types
  <2>5. /\ op'.pc = "saw" /\ op'.up = op.up /\ op'.slot = op.slot /\ op'.what = op.what
        /\ op'.late = op.late /\ op'.todo = op.todo /\ op'.set = op.set /\ op'.load = op.load
        /\ op'.ours = op.ours /\ op'.list = op.list /\ op'.blocked = op.blocked
    BY <1>1, <2>1 DEF Op
  <2>6. Reads' /\ WhatKept' /\ AsFound'
    BY <1>1, <2>1, <2>2, <2>5 DEF Inv, Reads, Types, WhatKept, AsFound, Extends, Kept
  <2>7. LookedAt'
    BY <2>1, <2>2, <2>5 DEF Inv, LookedAt, Placing, Given, Kept, Extends
  <2> QED BY <2>4, <2>6, <2>7 DEF Inv
<1>13. CASE Saw
  <2> DEFINE o == [op EXCEPT !.list = @ \cup {op.up}]
  <2>1. /\ Inner /\ UNCHANGED <<deck, romm, uploads, game, sent>> /\ op.pc = "saw"
        /\ PutStateFile(op.slot, op.what) /\ op' = Done(o)
    BY <1>13 DEF Saw, Inner
  <2>2. Extends /\ sent' \subseteq Ids' /\ uploads' \subseteq sent' /\ Kept(op.what)
    BY <1>1, <2>1 DEF Inv, WhatKept, Types, Extends, Ids
  <2>3. SeenStored' /\ seen' \in [StateSlots -> 0 .. MaxStates]
    BY <1>1, <2>1, <2>2, SeenPut DEF Inv, Op
  <2>4. o \in Op
    BY <1>1 DEF Op
  <2>5. /\ o.list = op.list \cup {op.up} /\ o.slot = op.slot /\ o.late = op.late /\ o.todo = op.todo
        /\ o.set = op.set /\ o.load = op.load /\ o.ours = op.ours /\ o.blocked = op.blocked
    BY <1>1 DEF Op
  <2> HIDE DEF o
  <2>6. op' \in Op
    BY <2>1, <2>4, OpTypes
  <2>7. Types'
    BY <1>1, <2>1, <2>2, <2>3, <2>6, TypesOn
  <2>8. /\ op'.pc = "files" /\ op'.set = op.set /\ op'.load = op.load /\ op'.ours = op.ours
        /\ op'.list = op.list \cup {op.up} /\ op'.late = op.late /\ op'.blocked = op.blocked
        /\ op'.todo = op.todo \ {op.slot}
    BY <2>1, <2>4, <2>5 DEF Done, Op
  <2>9. op'.list \subseteq Ids'
    BY <2>1, <2>2, <2>8 DEF Inv, Reads, Extends
  <2>10. PICK s \in StateSlots : s = op.slot
    BY <1>1
  <2>11. s \in op'.late \/ Given(deck[s].state)'
    <3>1. s \in op'.late \/ Given(deck[s].state)
      BY <2>1, <2>2, <2>8, <2>10 DEF Inv, AsFound, Given
    <3> QED BY <2>1, <3>1 DEF Given, Kept, Ids
  <2> QED BY <2>1, <2>2, <2>3, <2>7, <2>8, <2>9, <2>10, <2>11, SlotDone DEF Inv
<1>14. CASE RecordFails
  <2>1. /\ Inner /\ UNCHANGED <<deck, romm, seen, uploads, game, sent>>
        /\ op.pc \in {"add", "saw"} /\ Fail(Blocked(op))
    BY <1>14 DEF RecordFails, Inner, Fault
  <2>2. Extends /\ Types' /\ SeenStored'
    BY <1>8, <2>1, OnlyOp
  <2> QED BY <1>1, <1>5, <2>1, <2>2
<1> QED BY <1>3, <1>4, <1>6, <1>7, <1>9, <1>10, <1>11, <1>12, <1>13, <1>14

-----------------------------------------------------------------------------
(* RomM's state is chosen and placed. *)

\* Once every slot was looked at and nothing blocks, the slots may be replaced.
LEMMA Unblocked ==
  ASSUME Inv, Extends, deck' = deck, op.pc = "files", op.todo = {}, ~op.blocked,
         op'.pc = "fetch", op'.newest \in Ids, op'.set = op.set, op'.load = op.load,
         op'.list = op.list, op'.late = op.late, op'.blocked = op.blocked,
         op'.ours \in {op.ours, uploads}, sent' = sent
  PROVE  Reads' /\ WhatKept' /\ AsFound' /\ LookedAt'
<1>1. Reads' /\ WhatKept' /\ AsFound'
  BY DEF Inv, Types, Reads, Extends, WhatKept, AsFound
<1>2. \A s \in Placing(op.set) : s \in op.late \/ Given(deck[s].state)
  BY DEF Inv, LookedAt
<1>3. LookedAt'
  BY <1>2 DEF Inv, LookedAt, Placing, Given, Kept, Extends
<1> QED BY <1>1, <1>3

LEMMA ChooseStep == Inv /\ Choose => Inv'
<1> SUFFICES ASSUME Inv, Choose PROVE Inv'
  OBVIOUS
<1> USE DEF prefs, records, bounds
<1>1. /\ Types /\ op \in Op /\ op.set \in Settings /\ op.set.target \in StateSlots /\ op.newest \in Nat
      /\ op.game \in Game /\ uploads \subseteq Ids /\ Ids \subseteq Nat /\ romm \in Seq(Entry)
  BY LenProperties DEF Inv, Types, Op, Settings, Ids
<1>2. /\ Inner /\ UNCHANGED <<deck, romm, seen, uploads, game, sent>> /\ op.pc = "files" /\ op.todo = {}
  BY DEF Choose, Inner
<1>3. CASE op.load # 0
  <2>1. op' = [op EXCEPT !.pc = "fetch", !.newest = op.load]
    BY <1>3 DEF Choose
  <2>2. op.load \in Ids /\ ~op.blocked
    BY <1>3 DEF Inv, Reads, LookedAt
  <2>3. op' \in Op
    BY <1>1, <2>1, <2>2 DEF Op, PCs
  <2>4. /\ op'.pc = "fetch" /\ op'.newest = op.load /\ op'.set = op.set /\ op'.load = op.load
        /\ op'.list = op.list /\ op'.late = op.late /\ op'.blocked = op.blocked /\ op'.ours = op.ours
    BY <1>1, <2>1 DEF Op
  <2>5. Extends /\ Types' /\ SeenStored'
    BY <1>2, <2>3, OnlyOp
  <2> QED BY <1>2, <2>2, <2>4, <2>5, Unblocked DEF Inv
<1>4. CASE op.load = 0 /\ ~op.listed
  <2>1. op' = [op EXCEPT !.pc = "end"]
    BY <1>4 DEF Choose
  <2>2. op' \in Op /\ op'.pc = "end" /\ op'.load = op.load /\ op'.list = op.list /\ op'.ours = op.ours
    BY <1>1, <2>1 DEF Op, PCs
  <2>3. Extends /\ Types' /\ SeenStored'
    BY <1>2, <2>2, OnlyOp
  <2>4. op'.list \subseteq Ids' /\ op'.ours \subseteq sent'
    BY <1>2, <2>2, <2>3 DEF Inv, Reads, Extends
  <2> QED BY <1>4, <2>2, <2>3, <2>4, Resting DEF Inv
<1>5. CASE op.load = 0 /\ op.listed
  <2> DEFINE o == [op EXCEPT !.ours = uploads]
             from == Elsewhere(o.list, o.ours)
             n == Newest(from)
             skip == [o EXCEPT !.pc = "trim", !.late = {}]
  <2>1. op' = Chosen(o)
    BY <1>5 DEF Choose
  <2>2. /\ o \in Op /\ o.list = op.list /\ o.ours = uploads /\ o.set = op.set /\ o.load = 0
        /\ o.late = op.late /\ o.blocked = op.blocked /\ o.game = op.game
    BY <1>1, <1>5 DEF Op
  <2>3. from \in SUBSET Ids
    BY <2>2 DEF Inv, Reads, Elsewhere
  <2>4. from # {} => n \in Ids
    BY <1>1, <2>3, HasNewest
  <2>5. \/ op' = skip
        \/ op' = [skip EXCEPT !.game.placed = n] /\ n \in Ids
        \/ op' = [skip EXCEPT !.game.waiting = TRUE]
        \/ op' = [o EXCEPT !.pc = "fetch", !.newest = n] /\ n \in Ids /\ ~o.blocked
    <3> HIDE DEF o
    <3> QED BY <2>1, <2>4 DEF Chosen
  <2> HIDE DEF o, from, n
  <2>6. skip \in Op /\ skip.pc = "trim" /\ skip.load = 0 /\ skip.list = op.list /\ skip.ours = uploads
        /\ skip.game = op.game
    BY <2>2 DEF Op, PCs
  <2> HIDE DEF skip
  <2>7. ASSUME op' \in Op, op'.pc = "trim", op'.load = 0, op'.list = op.list, op'.ours = uploads
        PROVE  Inv'
    <3>1. Extends /\ Types' /\ SeenStored'
      BY <1>2, <2>7, OnlyOp
    <3>2. op'.list \subseteq Ids' /\ op'.ours \subseteq sent'
      BY <1>1, <1>2, <2>7, <3>1 DEF Inv, Types, Reads, Extends
    <3> QED BY <2>7, <3>1, <3>2, Resting DEF Inv
  <2>8. CASE op' = skip
    BY <2>6, <2>7, <2>8
  <2>9. CASE op' = [skip EXCEPT !.game.placed = n] /\ n \in Ids
    <3>1. [skip.game EXCEPT !.placed = n] \in Game
      BY <1>1, <2>6, <2>9 DEF Game
    <3>2. op' \in Op /\ op'.pc = "trim" /\ op'.load = 0 /\ op'.list = op.list /\ op'.ours = uploads
      BY <2>6, <2>9, <3>1 DEF Op
    <3> QED BY <2>7, <3>2
  <2>10. CASE op' = [skip EXCEPT !.game.waiting = TRUE]
    <3>1. [skip.game EXCEPT !.waiting = TRUE] \in Game
      BY <1>1, <2>6 DEF Game
    <3>2. op' \in Op /\ op'.pc = "trim" /\ op'.load = 0 /\ op'.list = op.list /\ op'.ours = uploads
      BY <2>6, <2>10, <3>1 DEF Op
    <3> QED BY <2>7, <3>2
  <2>11. CASE op' = [o EXCEPT !.pc = "fetch", !.newest = n] /\ n \in Ids /\ ~o.blocked
    <3>1. op' \in Op
      BY <1>1, <2>2, <2>11 DEF Op, PCs
    <3>2. /\ op'.pc = "fetch" /\ op'.newest = n /\ op'.set = op.set /\ op'.load = op.load
          /\ op'.list = op.list /\ op'.late = op.late /\ op'.blocked = op.blocked /\ op'.ours = uploads
      BY <1>5, <2>2, <2>11 DEF Op
    <3>3. Extends /\ Types' /\ SeenStored'
      BY <1>2, <3>1, OnlyOp
    <3> QED BY <1>2, <2>2, <2>11, <3>2, <3>3, Unblocked DEF Inv
  <2> QED BY <2>5, <2>8, <2>9, <2>10, <2>11
<1> QED BY <1>1, <1>3, <1>4, <1>5 DEF Op

\* placeState gives up, or what it could not read is not placed.
LEMMA Skipped ==
  ASSUME Inv, Inner, UNCHANGED <<deck, romm, seen, uploads, game, sent>>, Fail(Trimming(op))
  PROVE  Inv'
<1>1. op \in Op /\ op' \in Op
  BY OpTypes DEF Inv, Types, Fail
<1>2. Extends /\ Types' /\ SeenStored'
  BY <1>1, OnlyOp
<1>3. CASE op.load # 0
  BY <1>2, <1>3, Ended DEF Inv, Fail
<1>4. CASE op.load = 0
  <2>1. op' = Trimming(op)
    BY <1>4 DEF Fail
  <2>2. op'.pc = "trim" /\ op'.load = 0 /\ op'.list = op.list /\ op'.ours = op.ours
    BY <1>1, <1>4, <2>1 DEF Trimming, Op
  <2>3. op'.list \subseteq Ids' /\ op'.ours \subseteq sent'
    BY <1>2, <2>2 DEF Inv, Reads, Extends
  <2> QED BY <1>2, <2>2, <2>3, Resting DEF Inv
<1> QED BY <1>3, <1>4

LEMMA PlaceSteps ==
  ASSUME Inv,
         \/ Choose \/ Fetch \/ PlaceFails \/ Placed
         \/ \E s \in StateSlots : Place(s)
  PROVE  Inv'
<1> USE DEF prefs, records, bounds
<1>1. Types /\ op \in Op /\ op.slot \in StateSlots /\ op.set \in Settings /\ op.what \in 0 .. MaxStates
  BY DEF Inv, Types, Op
<1>2. Placing(op.set) \subseteq StateSlots
  BY <1>1 DEF Placing, Settings
<1>3. CASE Fetch
  <2> DEFINE e == romm[op.newest]
  <2>1. /\ Inner /\ UNCHANGED <<deck, romm, seen, uploads, game, sent>> /\ op.pc = "fetch"
        /\ Fail(Trimming(op)) \/ op' = [op EXCEPT !.pc = "place", !.todo = Placing(op.set), !.what = e.state]
    BY <1>3 DEF Fetch, Inner
  <2>2. CASE Fail(Trimming(op))
    BY <2>1, <2>2, Skipped
  <2>3. CASE op' = [op EXCEPT !.pc = "place", !.todo = Placing(op.set), !.what = e.state]
    <3>1. op.newest \in Ids /\ e \in Entry
      BY <1>1, <2>1, LenProperties DEF Inv, Reads, Types, Ids
    <3>2. e.state \in 0 .. MaxStates
      BY <3>1 DEF Entry, States
    <3>3. op' \in Op
      BY <1>1, <1>2, <2>3, <3>2 DEF Op, PCs
    <3>4. /\ op'.pc = "place" /\ op'.todo = Placing(op.set) /\ op'.what = e.state /\ op'.set = op.set
          /\ op'.load = op.load /\ op'.list = op.list /\ op'.ours = op.ours /\ op'.late = op.late
          /\ op'.newest = op.newest /\ op'.blocked = op.blocked
      BY <1>1, <2>3 DEF Op
    <3>5. Extends /\ Types' /\ SeenStored'
      BY <2>1, <3>3, OnlyOp
    <3>6. Reads'
      BY <2>1, <3>1, <3>4, <3>5 DEF Inv, Reads, Extends, Placing
    <3>7. WhatKept' /\ AsFound'
      BY <2>1, <3>1, <3>4 DEF WhatKept, AsFound, Kept, Ids
    <3>8. LookedAt'
      BY <2>1, <3>4, <3>5 DEF Inv, LookedAt, Placing, Given, Kept, Extends
    <3> QED BY <3>5, <3>6, <3>7, <3>8 DEF Inv
  <2> QED BY <2>1, <2>2, <2>3
<1>4. CASE PlaceFails
  BY <1>4, Skipped DEF PlaceFails, Inner, Fault
<1>5. ASSUME NEW s \in StateSlots, Place(s) PROVE Inv'
  <2>1. /\ Inner /\ UNCHANGED <<romm, seen, uploads, game, sent>> /\ op.pc = "place" /\ s \in op.todo
        /\ deck' = [deck EXCEPT ![s] = [state |-> op.what, at |-> Now]]
        /\ op' = [op EXCEPT !.pc = "placed", !.slot = s]
    BY <1>5 DEF Place, Inner
  <2>2. op' \in Op
    BY <1>1, <2>1 DEF Op, PCs
  <2>3. /\ op'.pc = "placed" /\ op'.slot = s /\ op'.todo = op.todo /\ op'.what = op.what /\ op'.set = op.set
        /\ op'.load = op.load /\ op'.list = op.list /\ op'.ours = op.ours /\ op'.late = op.late
        /\ op'.newest = op.newest /\ op'.blocked = op.blocked
    BY <1>1, <2>1 DEF Op
  <2>4. Extends
    BY <1>1, <2>1 DEF Extends, Types, Ids
  <2>5. Now \in Nat
    BY <1>1, LenProperties DEF Now, At, Types
  <2>6. deck' \in [StateSlots -> [state : 0 .. MaxStates, at : Nat]]
    BY <1>1, <2>1, <2>5 DEF Types
  <2>7. Types' /\ SeenStored'
    BY <1>1, <2>1, <2>2, <2>4, <2>6, SeenOn DEF Inv, Types, Inner, Extends, PrefsValid, Valid, Ids
  <2>8. Reads'
    BY <2>1, <2>3, <2>4 DEF Inv, Reads, Extends, Placing
  <2>9. Kept(op.what)
    BY <2>1 DEF Inv, WhatKept
  <2>10. WhatKept' /\ AsFound'
    BY <2>1, <2>3, <2>9 DEF WhatKept, AsFound, Kept, Ids
  <2>11. \A r \in StateSlots : deck'[r].state = IF r = s THEN op.what ELSE deck[r].state
    BY <1>1, <2>1 DEF Types
  <2>12. ASSUME NEW r \in Placing(op.set) PROVE r \in op'.late \/ Given(deck[r].state)'
    <3>1. r \in op.late \/ Given(deck[r].state)
      BY <2>1 DEF Inv, LookedAt
    <3>2. r \in op.late \/ deck'[r].state \in Foreign \cup {None} \/ Kept(deck'[r].state)
      BY <1>2, <2>9, <2>11, <3>1 DEF Given
    <3> QED BY <2>1, <2>3, <3>2 DEF Given, Kept, Ids
  <2>13. LookedAt'
    BY <2>3, <2>12 DEF Inv, LookedAt, Placing
  <2> QED BY <2>7, <2>8, <2>10, <2>13 DEF Inv
<1>6. CASE Placed
  <2>1. /\ Inner /\ UNCHANGED <<deck, romm, uploads, game, sent>> /\ op.pc = "placed"
        /\ PutStateFile(op.slot, op.what)
    BY <1>6 DEF Placed, Inner
  <2>2. Extends /\ uploads' \subseteq sent' /\ sent' \subseteq Ids' /\ Kept(op.what)
    BY <1>1, <2>1 DEF Inv, WhatKept, Types, Extends, Ids
  <2>3. SeenStored' /\ seen' \in [StateSlots -> 0 .. MaxStates]
    BY <1>1, <2>1, <2>2, SeenPut DEF Inv
  <2>4. CASE op.todo # {op.slot}
    <3>1. op' = [op EXCEPT !.pc = "place", !.todo = @ \ {op.slot}]
      BY <1>6, <2>4 DEF Placed
    <3>2. op' \in Op
      BY <1>1, <3>1 DEF Op, PCs
    <3>3. /\ op'.pc = "place" /\ op'.todo = op.todo \ {op.slot} /\ op'.what = op.what /\ op'.set = op.set
          /\ op'.load = op.load /\ op'.list = op.list /\ op'.ours = op.ours /\ op'.late = op.late
          /\ op'.newest = op.newest /\ op'.blocked = op.blocked
      BY <1>1, <3>1 DEF Op
    <3>4. Types'
      BY <1>1, <2>1, <2>2, <2>3, <3>2, TypesOn
    <3>5. Reads' /\ WhatKept' /\ AsFound'
      BY <2>1, <2>2, <3>3 DEF Inv, Reads, Extends, Placing, WhatKept, AsFound, Kept
    <3>6. LookedAt'
      BY <2>1, <2>2, <3>3 DEF Inv, LookedAt, Placing, Given, Kept, Extends
    <3> QED BY <2>3, <3>4, <3>5, <3>6 DEF Inv
  <2>5. CASE op.todo = {op.slot}
    <3> DEFINE pc == IF op.load = 0 THEN "trim" ELSE "end"
               o == Trimming(op)
    <3>1. op' = [o EXCEPT !.pc = pc, !.game.placed = op.newest]
      BY <1>6, <2>5 DEF Placed
    <3>2. /\ o \in Op /\ o.game = op.game /\ o.load = op.load /\ o.list = op.list /\ o.ours = op.ours
          /\ o.blocked = op.blocked
      BY <1>1, OpTypes DEF Trimming, Op
    <3> HIDE DEF o
    <3>3. [o.game EXCEPT !.placed = op.newest] \in Game
      BY <1>1, <3>2 DEF Game, Op
    <3>4. op' \in Op /\ op'.pc = pc /\ op'.load = op.load /\ op'.list = op.list /\ op'.ours = op.ours
          /\ op'.blocked = op.blocked
      BY <3>1, <3>2, <3>3 DEF Op, PCs
    <3>5. Types'
      BY <1>1, <2>1, <2>2, <2>3, <3>4, TypesOn
    <3>6. op'.load \in {0} \cup Ids' /\ op'.list \subseteq Ids' /\ op'.ours \subseteq sent'
      BY <2>1, <2>2, <3>4 DEF Inv, Reads, Extends
    <3>7. op'.load # 0 => ~op'.blocked
      BY <3>4 DEF Inv, LookedAt
    <3> QED BY <2>3, <3>4, <3>5, <3>6, <3>7, Resting DEF Inv
  <2> QED BY <2>4, <2>5
<1> QED BY <1>3, <1>4, <1>5, <1>6, ChooseStep

-----------------------------------------------------------------------------
(* The operation starts and ends, and the steps around it. *)

\* A step of the operation's that reads no slot: it starts, trims or ends.
LEMMA RestStep ==
  ASSUME Inv, Inner, UNCHANGED <<deck, seen, uploads, sent>>, Extends, game' \in Game, op' \in Op,
         op'.pc \in {"off", "list", "trim", "forget", "end"}, op'.load \in {0} \cup Ids,
         op'.list \in {{}, op.list}, op'.ours \in {{}, op.ours},
         op'.blocked \in {FALSE, op.blocked}, op'.load \in {0, op.load} \/ ~op'.blocked
  PROVE  Inv'
<1>1. Types' /\ SeenStored'
  BY SeenOn DEF Inv, Types, Extends, Inner, PrefsValid, Valid
<1>2. op'.load \in {0} \cup Ids' /\ op'.list \subseteq Ids' /\ op'.ours \subseteq sent'
  BY DEF Inv, Reads, Extends
<1>3. op'.load # 0 => ~op'.blocked
  BY DEF Inv, LookedAt
<1> QED BY <1>1, <1>2, <1>3, Resting DEF Inv

LEMMA RestSteps ==
  ASSUME Inv,
         \/ Sync \/ Trim \/ TrimFails \/ Forget \/ End \/ EndFails \/ Restart
         \/ \E v \in Listed : LoadState(v)
  PROVE  Inv'
<1> USE DEF prefs, records, bounds
<1>1. /\ Types /\ op \in Op /\ Idle \in Op /\ game \in Game /\ romm \in Seq(Entry) /\ Ids \subseteq Nat
      /\ op.load \in {0} \cup Ids /\ op.list \subseteq Ids /\ op.ours \subseteq Ids
  BY OpTypes, LenProperties DEF Inv, Types, Reads, Ids
<1>2. StateSettings \in Settings
  BY <1>1, SettingsValid DEF Types
<1>3. /\ Idle.pc = "off" /\ Idle.load = 0 /\ Idle.list = {} /\ Idle.ours = {} /\ Idle.blocked = FALSE
  BY DEF Idle
<1>4. romm' = romm => Extends
  BY <1>1 DEF Extends, Ids
<1>5. ASSUME Inner, UNCHANGED <<deck, seen, uploads, sent>>, Extends, game' \in Game, op' = Idle PROVE Inv'
  BY <1>1, <1>3, <1>5, RestStep
<1>6. CASE Sync
  <2>1. Inner /\ UNCHANGED <<deck, romm, seen, uploads, game, sent>>
        /\ op' = [Idle EXCEPT !.pc = "list", !.set = StateSettings, !.game = [game EXCEPT !.waiting = FALSE]]
    BY <1>6 DEF Sync, Inner
  <2>2. [game EXCEPT !.waiting = FALSE] \in Game
    BY <1>1 DEF Game
  <2>3. op' \in Op
    BY <1>1, <1>2, <2>1, <2>2 DEF Op, PCs
  <2>4. op'.pc = "list" /\ op'.load = 0 /\ op'.list = {} /\ op'.ours = {} /\ op'.blocked = FALSE
    BY <1>1, <1>3, <2>1 DEF Op
  <2> QED BY <1>1, <1>4, <2>1, <2>3, <2>4, RestStep
<1>7. ASSUME NEW v \in Listed, LoadState(v) PROVE Inv'
  <2>1. /\ UNCHANGED <<deck, romm, playing, own, global, made, faults, seen, uploads, game, sent>> /\ calls' = calls + 1
        /\ op' = [Idle EXCEPT !.pc = "list", !.load = v, !.set = StateSettings]
    BY <1>7 DEF LoadState
  <2>2. v \in Ids
    BY DEF Listed
  <2>3. op' \in Op
    BY <1>1, <1>2, <2>1, <2>2 DEF Op, PCs
  <2>4. op'.pc = "list" /\ op'.load = v /\ op'.list = {} /\ op'.ours = {} /\ op'.blocked = FALSE
    BY <1>1, <1>3, <2>1 DEF Op
  <2>5. Types'
    BY <1>1, <2>1, <2>3 DEF Types, Ids, PrefsValid, Valid
  <2>6. Extends /\ SeenStored'
    BY <1>4, <2>1, SeenOn DEF Inv
  <2>7. op'.load \in {0} \cup Ids'
    BY <2>1, <2>2, <2>4 DEF Ids
  <2> QED BY <2>4, <2>5, <2>6, <2>7, Resting DEF Inv
<1>8. ASSUME NEW drop, DeleteStates(drop) PROVE Extends
  <2>1. /\ romm' \in Seq(Entry) /\ Ids' = Ids
        /\ \A v \in Ids : romm'[v].state = romm[v].state
    BY <1>1, <1>8, Marked
  <2> QED BY <2>1 DEF Extends
<1>9. ASSUME NEW drop, drop \subseteq Nat, op' = [op EXCEPT !.pc = "forget", !.drop = drop, !.ours = {}, !.list = {}]
      PROVE  /\ op' \in Op /\ op'.pc = "forget" /\ op'.load = op.load /\ op'.list = {} /\ op'.ours = {}
             /\ op'.blocked = op.blocked
  BY <1>1, <1>9 DEF Op, PCs
<1>10. CASE Trim
  <2> DEFINE drop == Surplus(op.ours \cap op.list, op.set.keep)
  <2>1. /\ Inner /\ UNCHANGED <<deck, seen, uploads, game, sent>> /\ DeleteStates(drop)
        /\ op' = [op EXCEPT !.pc = "forget", !.drop = drop \cup (op.ours \ op.list), !.ours = {}, !.list = {}]
    BY <1>10 DEF Trim, Inner
  <2>2. drop \cup (op.ours \ op.list) \subseteq Nat
    BY <1>1 DEF Surplus
  <2> QED BY <1>1, <1>8, <1>9, <2>1, <2>2, RestStep
<1>11. CASE TrimFails
  <2>1. /\ Inner /\ UNCHANGED <<deck, seen, uploads, game, sent>> /\ \E drop : DeleteStates(drop)
        /\ op' = [op EXCEPT !.pc = "forget", !.drop = op.ours \ op.list, !.ours = {}, !.list = {}]
    BY <1>11 DEF TrimFails, Inner, Fault
  <2>2. op.ours \ op.list \subseteq Nat
    BY <1>1
  <2> QED BY <1>1, <1>8, <1>9, <2>1, <2>2, RestStep
<1>12. ASSUME op' = [op EXCEPT !.pc = "end", !.drop = {}]
       PROVE  /\ op' \in Op /\ op'.pc = "end" /\ op'.load = op.load /\ op'.list = op.list /\ op'.ours = op.ours
              /\ op'.blocked = op.blocked
  BY <1>1, <1>12 DEF Op, PCs
<1>13. CASE Forget
  <2>1. /\ Inner /\ UNCHANGED <<deck, romm, seen, game, sent>> /\ uploads' = uploads \ op.drop
        /\ op' = [op EXCEPT !.pc = "end", !.drop = {}]
    BY <1>13 DEF Forget, ForgetUploadedStates, Inner
  <2>2. Extends /\ uploads' \subseteq sent' /\ sent' \subseteq Ids'
    BY <1>1, <1>4, <2>1 DEF Types, Ids
  <2>3. Types' /\ SeenStored'
    BY <1>1, <1>12, <2>1, <2>2, TypesOn, SeenOn DEF Inv, Types
  <2>4. op'.load \in {0} \cup Ids' /\ op'.list \subseteq Ids' /\ op'.ours \subseteq sent'
    BY <1>12, <2>1, <2>2 DEF Inv, Reads, Extends
  <2>5. op'.load # 0 => ~op'.blocked
    BY <1>12, <2>1 DEF Inv, LookedAt
  <2> QED BY <1>12, <2>1, <2>3, <2>4, <2>5, Resting DEF Inv
<1>14. CASE End
  <2>1. Inner /\ UNCHANGED <<deck, romm, seen, uploads, sent>> /\ game' = op.game /\ op' = Idle
    BY <1>14 DEF End, PutStateGame, Inner
  <2>2. game' \in Game
    BY <1>1, <2>1 DEF Op
  <2> QED BY <1>4, <1>5, <2>1, <2>2
<1>15. CASE EndFails
  <2>1. Inner /\ UNCHANGED <<deck, romm, seen, uploads, game, sent>>
        /\ (op' = Idle \/ op' = [op EXCEPT !.pc = "end", !.drop = {}])
    BY <1>15 DEF EndFails, Fault, Inner
  <2> QED BY <1>1, <1>4, <1>5, <1>12, <2>1, RestStep
<1>16. CASE Restart
  <2>1. Inner /\ UNCHANGED <<deck, romm, seen, uploads, game, sent>> /\ op' = Idle
    BY <1>16 DEF Restart, Fault, Inner
  <2> QED BY <1>1, <1>4, <1>5, <2>1
<1> QED BY <1>6, <1>7, <1>10, <1>11, <1>13, <1>14, <1>15, <1>16

\* The steps of others.
LEMMA OutsideSteps ==
  ASSUME Inv,
         Outside \/ \E p \in Prefs : SetStatePrefs(p) \/ SetGlobalStateSettings(p)
  PROVE  Inv'
<1> USE DEF prefs, records, bounds
<1>1. Types /\ op \in Op /\ romm \in Seq(Entry) /\ made \in 0 .. MaxStates /\ MaxStates \in Nat
      /\ seen \in [StateSlots -> 0 .. MaxStates]
  BY BoundsAssumption DEF Inv, Types
<1>2. romm' = romm => Extends
  BY <1>1 DEF Extends, Ids
  \* The operation goes on as it was.
<1>3. ASSUME Extends, UNCHANGED <<deck, seen, uploads, game, op, sent>>, playing' \in BOOLEAN,
             PrefsValid(own'), PrefsValid(global'), made' \in 0 .. MaxStates, {calls', faults'} \subseteq Nat
      PROVE  Inv'
  <2>1. sent' \subseteq Ids' /\ uploads' \subseteq sent'
    BY <1>3 DEF Inv, Types, Extends
  <2>2. Types' /\ SeenStored'
    BY <1>1, <1>3, <2>1, SeenOn DEF Inv, Types, Extends, PrefsValid, Valid
  <2>3. Reads' /\ WhatKept' /\ AsFound'
    BY <1>3 DEF Inv, Reads, Extends, Placing, WhatKept, AsFound, Kept
  <2>4. LookedAt'
    BY <1>3 DEF Inv, LookedAt, Placing, Given, Kept, Extends
  <2> QED BY <2>2, <2>3, <2>4 DEF Inv
<1>4. PrefsValid(own) /\ PrefsValid(global) /\ playing \in BOOLEAN /\ {calls, faults} \subseteq Nat
  BY <1>1 DEF Types
<1>5. ASSUME NEW p \in Prefs, SetStatePrefs(p) PROVE Inv'
  <2>1. /\ UNCHANGED <<deck, playing, romm, global, seen, uploads, game, op, made, faults, sent>>
        /\ own' = p /\ calls' = calls + 1 /\ PrefsValid(p)
    BY <1>5, PrefsAssumption DEF SetStatePrefs, PrefsValid
  <2>2. PrefsValid(own') /\ PrefsValid(global')
    BY <1>4, <2>1 DEF PrefsValid, Valid
  <2> QED BY <1>1, <1>2, <1>3, <1>4, <2>1, <2>2
<1>6. ASSUME NEW p \in Prefs, SetGlobalStateSettings(p) PROVE Inv'
  <2>1. /\ UNCHANGED <<deck, playing, romm, own, seen, uploads, game, op, made, faults, sent>>
        /\ global' = Over(p, global) /\ calls' = calls + 1 /\ PrefsValid(p)
    BY <1>6, PrefsAssumption DEF SetGlobalStateSettings, PrefsValid
  <2>2. PrefsValid(Over(p, global))
    BY <1>4, <2>1, GlobalValid
  <2>3. PrefsValid(own') /\ PrefsValid(global')
    BY <1>4, <2>1, <2>2 DEF PrefsValid, Valid
  <2> QED BY <1>1, <1>2, <1>3, <1>4, <2>1, <2>3
<1>7. ASSUME UNCHANGED <<own, global>> PROVE PrefsValid(own') /\ PrefsValid(global')
  BY <1>4, <1>7 DEF PrefsValid, Valid
<1>8. CASE EmulatorStarts \/ EmulatorCloses
  BY <1>1, <1>2, <1>3, <1>4, <1>7, <1>8 DEF EmulatorStarts, EmulatorCloses
<1>9. ASSUME NEW core \in BOOLEAN, OtherDevice(core) PROVE Inv'
  <2> DEFINE e == [state |-> made', core |-> core, gone |-> FALSE]
  <2>1. /\ UNCHANGED <<deck, playing, own, global, seen, uploads, game, op, calls, faults, sent>>
        /\ made' = made + 1 /\ made < MaxStates /\ romm' = Append(romm, e)
    BY <1>9 DEF OtherDevice, Make
  <2>2. made' \in 1 .. MaxStates /\ e \in Entry
    BY <1>1, <2>1 DEF Entry, States
  <2>3. /\ romm' \in Seq(Entry) /\ Ids \subseteq Ids'
        /\ \A v \in Ids : romm'[v] = romm[v]
    BY <1>1, <2>1, <2>2, Grown
  <2>4. Extends
    BY <2>3 DEF Extends
  <2> QED BY <1>3, <1>4, <1>7, <2>1, <2>2, <2>4
<1>10. ASSUME NEW v \in Ids, RommDeletes(v) PROVE Inv'
  <2>1. /\ UNCHANGED <<deck, playing, own, global, seen, uploads, game, op, made, faults, sent>>
        /\ calls' = calls + 1 /\ romm' = [romm EXCEPT ![v].gone = TRUE]
    BY <1>10 DEF RommDeletes
  <2>2. DeleteStates({v})
    BY <1>1, <2>1 DEF DeleteStates, Ids
  <2>3. Extends
    BY <1>1, <2>2, Marked DEF Extends
  <2> QED BY <1>1, <1>3, <1>4, <1>7, <2>1, <2>3
<1>11. ASSUME NEW s \in StateSlots, EmulatorWrites(s) PROVE Inv'
  <2>1. /\ UNCHANGED <<playing, romm, own, global, seen, uploads, game, calls, faults, sent>>
        /\ made' = made + 1 /\ made < MaxStates
        /\ deck' = [deck EXCEPT ![s] = [state |-> made', at |-> Now]]
        /\ op' = IF op.pc = "off" THEN op ELSE [op EXCEPT !.late = @ \cup {s}]
    BY <1>11 DEF EmulatorWrites, Make
  <2>2. /\ op' \in Op /\ op'.pc = op.pc /\ op'.todo = op.todo /\ op'.what = op.what /\ op'.set = op.set
        /\ op'.load = op.load /\ op'.list = op.list /\ op'.ours = op.ours /\ op'.newest = op.newest
        /\ op'.blocked = op.blocked /\ op'.slot = op.slot /\ op'.up = op.up
        /\ op.pc # "off" => op'.late = op.late \cup {s}
    BY <1>1, <2>1 DEF Op
  <2>3. Now \in Nat /\ made' \in 0 .. MaxStates
    BY <1>1, <2>1, LenProperties DEF Now, At
  <2>4. deck' \in [StateSlots -> [state : 0 .. MaxStates, at : Nat]] /\ \A r \in StateSlots \ {s} : deck'[r] = deck[r]
    BY <1>1, <2>1, <2>3 DEF Types
  <2>5. Extends
    BY <1>2, <2>1
  <2>6. Types' /\ SeenStored'
    BY <1>1, <1>7, <2>1, <2>2, <2>3, <2>4, <2>5, SeenOn DEF Inv, Types, Extends, Ids
  <2>7. Reads' /\ WhatKept'
    BY <2>1, <2>2 DEF Inv, Reads, WhatKept, Kept, Ids, Placing
  <2>8. op.slot \in StateSlots /\ op.set \in Settings
    BY <1>1 DEF Op
  <2>9. AsFound'
    BY <2>2, <2>4, <2>8 DEF Inv, AsFound
  <2>10. ASSUME NEW r \in StateSlots, r \in op.late \/ Given(deck[r].state), op.pc # "off"
         PROVE  r \in op'.late \/ Given(deck[r].state)'
    BY <2>1, <2>2, <2>4, <2>10 DEF Given, Kept, Ids
  <2>11. Placing(op.set) \subseteq StateSlots
    BY <2>8 DEF Placing, Settings
  <2>12. ASSUME op.pc \in {"files", "upload", "add", "saw"}, ~op.blocked, NEW r \in Placing(op.set) \ op.todo
         PROVE  r \in op'.late \/ Given(deck[r].state)'
    <3>1. r \in op.late \/ Given(deck[r].state)
      BY <2>12 DEF Inv, LookedAt
    <3> QED BY <2>10, <2>11, <2>12, <3>1
  <2>13. ASSUME op.pc \in {"fetch", "place", "placed"}, NEW r \in Placing(op.set)
         PROVE  r \in op'.late \/ Given(deck[r].state)'
    <3>1. r \in op.late \/ Given(deck[r].state)
      BY <2>13 DEF Inv, LookedAt
    <3> QED BY <2>10, <2>11, <2>13, <3>1
  <2>14. LookedAt'
    BY <2>2, <2>12, <2>13 DEF Inv, LookedAt, Placing
  <2> QED BY <2>6, <2>7, <2>9, <2>14 DEF Inv
<1> QED BY <1>5, <1>6, <1>8, <1>9, <1>10, <1>11 DEF Outside

-----------------------------------------------------------------------------
(* The invariant, and what follows from it. *)

LEMMA InvStep == Inv /\ [Next]_vars => Inv'
<1> SUFFICES ASSUME Inv, [Next]_vars PROVE Inv'
  OBVIOUS
<1>1. CASE UNCHANGED vars
  <2>1. UNCHANGED <<deck, playing, romm, own, global, seen, uploads, game, op, made, calls, faults, sent>>
    BY <1>1 DEF vars, records, prefs, bounds
  <2>2. Types' /\ SeenStored'
    BY <2>1 DEF Inv, Types, SeenStored, Ids, PrefsValid, Valid, Kept
  <2>3. Reads' /\ WhatKept' /\ AsFound' /\ LookedAt'
    BY <2>1 DEF Inv, Reads, WhatKept, AsFound, LookedAt, Given, Kept, Ids, Placing
  <2> QED BY <2>2, <2>3 DEF Inv
<1>2. CASE Next
  BY <1>2, SlotSteps, PlaceSteps, RestSteps, OutsideSteps DEF Next, Step, Fails
<1> QED BY <1>1, <1>2

LEMMA InvInit == Init => Inv
<1> SUFFICES ASSUME Init PROVE Inv
  OBVIOUS
<1>1. Idle \in Op /\ None \in 0 .. MaxStates /\ MaxStates \in Nat
  BY OpTypes, BoundsAssumption DEF None
<1>2. romm = <<>> /\ Ids = {} /\ romm \in Seq(Entry)
  BY DEF Init, Ids
<1>3. DOMAIN NoPrefs = {}
  BY DEF NoPrefs
<1>4. Types
  <2>1. PrefsValid(own) /\ PrefsValid(global)
    BY <1>3 DEF Init, PrefsValid, Valid
  <2>2. deck \in [StateSlots -> [state : 0 .. MaxStates, at : Nat]] /\ seen \in [StateSlots -> 0 .. MaxStates]
    BY <1>1 DEF Init
  <2>3. game \in Game
    BY DEF Init, Game
  <2>4. playing \in BOOLEAN /\ op \in Op
    BY <1>1 DEF Init
  <2>5. uploads \subseteq sent /\ sent \subseteq Ids
    BY DEF Init
  <2>6. made \in 0 .. MaxStates /\ {calls, faults} \subseteq Nat
    BY <1>1 DEF Init
  <2> QED BY <1>2, <2>1, <2>2, <2>3, <2>4, <2>5, <2>6 DEF Types
<1>5. SeenStored
  BY DEF Init, SeenStored
<1>6. op.pc = "off" /\ op.load = 0 /\ op.list = {} /\ op.ours = {}
  BY DEF Init, Idle
<1>7. Reads /\ WhatKept /\ AsFound /\ LookedAt
  BY <1>6 DEF Reads, WhatKept, AsFound, LookedAt
<1> QED BY <1>4, <1>5, <1>7 DEF Inv

LEMMA Inductive == Spec => []Inv
  BY InvInit, InvStep, PTL DEF Spec

\* Types, and the settings a pass reads, whatever the user set (states.go).
THEOREM TypesHold == Spec => []TypeOK
<1>1. Inv => TypeOK
  <2> SUFFICES ASSUME Inv PROVE TypeOK
    OBVIOUS
  <2>1. StateSettings \in Settings
    BY SettingsValid DEF Inv, Types
  <2> QED BY <2>1 DEF Inv, Types, TypeOK
<1> QED BY <1>1, Inductive, PTL

\* A slot is recorded as seen only once RomM was given the state that is in it, or it can't be read:
\* over failures at any step, stops, and whoever writes the slot meanwhile (states.go, uploadState
\* and placeState).
THEOREM SeenStoredHolds == Spec => []SeenStored
<1>1. Inv => SeenStored
  BY DEF Inv
<1> QED BY <1>1, Inductive, PTL

\* No slot is replaced while it holds a state that RomM was never given, unless it can't be read or
\* the emulator wrote it after it was looked at (states.go, placeState).
THEOREM ReplacedStoredHolds == Spec => ReplacedStored
<1>1. ASSUME Inv, NEW s \in StateSlots, Place(s)
      PROVE  deck[s].state \in Foreign \cup {None} \/ Kept(deck[s].state) \/ s \in op.late
  <2>1. s \in Placing(op.set) /\ op.pc = "place"
    BY <1>1 DEF Place, Inv, Reads
  <2> QED BY <1>1, <2>1 DEF Inv, LookedAt, Given
<1>2. Inv => \A s \in StateSlots : Place(s) => deck[s].state \in Foreign \cup {None} \/ Kept(deck[s].state) \/ s \in op.late
  BY <1>1
<1> QED BY <1>2, Inductive, PTL DEF ReplacedStored

\* What trimStates deletes on RomM, all of it or up to a failure, is this Deck's and has Keep newer
\* uploads of this Deck's, however old the list is (states.go, trimStates).
THEOREM TrimmedOldHolds == Spec => TrimmedOld
<1> DEFINE Old == \A v \in Listed \ {w \in Ids : ~romm'[w].gone} :
                    v \in sent /\ Cardinality({w \in sent : w > v}) >= op.set.keep
<1>1. ASSUME Inv, Trim \/ TrimFails PROVE Old
  <2>1. PICK drop \in SUBSET Surplus(op.ours \cap op.list, op.set.keep) : DeleteStates(drop)
    BY <1>1 DEF Trim, TrimFails
  <2>2. /\ romm \in Seq(Entry) /\ op.ours \subseteq sent /\ sent \subseteq Ids /\ op.set.keep \in Nat
    BY <1>1, KeepsAssumption DEF Inv, Types, Reads, Op, Settings
  <2>3. IsFiniteSet(sent) /\ sent \subseteq Nat
    <3>1. Ids = 1 .. Len(romm) /\ Len(romm) \in Nat
      BY <2>2, LenProperties DEF Ids
    <3>2. IsFiniteSet(Ids) /\ Ids \subseteq Nat
      BY <3>1, FS_Interval
    <3> QED BY <2>2, <3>2, FS_Subset
  <2>4. \A v \in Ids \ drop : romm'[v] = romm[v]
    BY <2>1, <2>2, Marked
  <2>5. ASSUME NEW v \in Listed \ {w \in Ids : ~romm'[w].gone}
        PROVE  v \in sent /\ Cardinality({w \in sent : w > v}) >= op.set.keep
    <3>1. v \in Ids /\ v \in drop
      BY <2>4, <2>5 DEF Listed
    <3>2. op.ours \cap op.list \in SUBSET sent
      BY <2>2
    <3>3. v \in Surplus(op.ours \cap op.list, op.set.keep)
      BY <2>1, <3>1
    <3> DEFINE mine == op.ours \cap op.list
               newer == {w \in mine : w > v}
               all == {w \in sent : w > v}
    <3>4. v \in mine /\ Cardinality(newer) >= op.set.keep
      BY <3>3 DEF Surplus
    <3>5. IsFiniteSet(all) /\ newer \subseteq all
      BY <2>3, <3>2, FS_Subset
    <3> HIDE DEF all, newer
    <3>6. IsFiniteSet(newer) /\ Cardinality(newer) <= Cardinality(all)
      BY <3>5, FS_Subset
    <3>7. Cardinality(newer) \in Nat /\ Cardinality(all) \in Nat
      BY <3>5, <3>6, FS_CardinalityType
    <3>8. Cardinality(all) >= op.set.keep
      BY <2>2, <3>4, <3>6, <3>7
    <3> QED BY <3>2, <3>4, <3>8 DEF all
  <2> QED BY <2>5
<1>2. Inv => (Trim \/ TrimFails => Old)
  BY <1>1
<1> QED BY <1>2, Inductive, PTL DEF TrimmedOld

=============================================================================
