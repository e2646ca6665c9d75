---------------------------- MODULE SaveSyncProofs ----------------------------
(* Theorems of SaveSync, for every set of slots, every number of backups    *)
(* kept, every lateness of the Deck's clock and every bound.               *)
EXTENDS SaveSync, SequenceTheorems, WellFoundedInduction, TLAPS

-----------------------------------------------------------------------------
(* The inductive invariant, over the state it is about: RomM's saves m, the   *)
(* Deck's save d, whether the emulator runs p, the backups b and the saves   *)
(* that slipped sl.                                                          *)

\* A record's two sides are the same save of RomM's, and what it says is parked is.
Sound(r, m, sl) ==
  /\ r.local # None => r.server # 0
  /\ r.server # 0 => r.server \in DOMAIN m /\ (r.local = m[r.server].content \/ r.local \in sl)
  /\ r.parked # None => \E v \in DOMAIN m : m[v].slot = "parked" /\ m[v].content = r.parked

\* Where a step is about to put a save in place of the Deck's, or to remove it.
Replacing == {"write", "restore", "remove"}
Downloading == {"check", "fetch", "write", "confirm", "reread"}

\* What an operation counts on at each of its steps.
Holds(o, m, d, p, b, sl) ==
  /\ o.id \in DOMAIN m \cup {0}
  /\ o.pc \in Downloading => o.id # 0
  /\ o.pc = "park" => o.local # None
  /\ Sound(o.new, m, sl)
  /\ o.pc \in Looked /\ ~o.late => ~p /\ d.content = o.local
  /\ o.pc \in Replacing => o.local = None \/ \E i \in DOMAIN b : b[i] = o.local
  /\ o.pc \in {"confirm", "reread"} => d.content = m[o.id].content \/ d.content \in sl
  /\ o.pc = "set" => o.local \in sl \cup {None} \/ \E v \in DOMAIN m : m[v].content = o.local

IInv == TypeOK /\ Sound(rec, romm, slipped) /\ Holds(op, romm, deck, playing, backups, slipped)

-----------------------------------------------------------------------------
(* Data. *)

LEMMA NewestIsOne == ASSUME TypeOK, NEW s PROVE Newest(s) \in Ids \cup {0}
<1>1. Len(romm) \in Nat /\ Ids = 1 .. Len(romm)
  BY LenProperties DEF TypeOK, Ids
<1>2. CASE In(s) = {}
  BY <1>2 DEF Newest
<1>3. CASE In(s) # {}
  <2> DEFINE T == {Len(romm) - v : v \in In(s)}
  <2>1. T \subseteq Nat /\ T # {} /\ In(s) \subseteq Ids
    BY <1>1, <1>3 DEF In
  <2>2. \E x \in T : \A y \in T : ~ (<<y, x>> \in OpToRel(<, Nat))
    <3> HIDE DEF T
    <3> QED BY <2>1, NatLessThanWellFounded, WFMin
  <2>3. PICK x \in T : \A y \in T : ~ (<<y, x>> \in OpToRel(<, Nat))
    BY <2>2
  <2>4. \A y \in T : x <= y
    <3> TAKE y \in T
    <3>1. x \in Nat /\ y \in Nat
      BY <2>1
    <3>2. ~ (y < x)
      BY <2>3, <3>1 DEF OpToRel
    <3> QED BY <3>1, <3>2
  <2>5. PICK v \in In(s) : x = Len(romm) - v
    OBVIOUS
  <2>6. \A w \in In(s) : w <= v
    <3> TAKE w \in In(s)
    <3>1. Len(romm) - w \in T
      OBVIOUS
    <3>2. x <= Len(romm) - w
      BY <3>1, <2>4
    <3>3. w \in Nat /\ v \in Nat
      BY <2>1, <1>1
    <3> QED BY <3>2, <3>3, <2>5, <1>1
  <2>7. Newest(s) \in In(s)
    BY <1>3, <2>6 DEF Newest
  <2> QED BY <2>7, <2>1
<1> QED BY <1>2, <1>3

\* backupSave keeps at most Keep backups, the one it takes among them.
LEMMA BackedKeeps ==
  ASSUME TypeOK, NEW c \in Content
  PROVE  /\ Backed(c) \in Seq(Contents) /\ Len(Backed(c)) <= Keep
         /\ c # None => \E i \in DOMAIN Backed(c) : Backed(c)[i] = c
<1>1. CASE c = None
  BY <1>1 DEF Backed, TypeOK
<1>2. CASE c # None
  <2> DEFINE b == <<c>> \o backups
             n == IF Len(backups) < Keep THEN Len(backups) + 1 ELSE Keep
  <2>1. c \in Contents /\ Keep \in Nat \ {0} /\ backups \in Seq(Contents) /\ Len(backups) \in Nat /\ Len(backups) <= Keep
    BY <1>2, KeepAssumption, LenProperties, BoundsAssumption DEF Content, Contents, None, TypeOK
  <2>2. <<c>> \in Seq(Contents) /\ Len(<<c>>) = 1 /\ <<c>>[1] = c
    BY <2>1
  <2>3. b \in Seq(Contents) /\ Len(b) = Len(backups) + 1 /\ b[1] = c
    <3>1. b \in Seq(Contents) /\ Len(b) = Len(<<c>>) + Len(backups)
      BY <2>1, <2>2, ConcatProperties
    <3>2. \A i \in 1 .. Len(<<c>>) + Len(backups) : b[i] = IF i <= Len(<<c>>) THEN <<c>>[i] ELSE backups[i - Len(<<c>>)]
      BY <2>1, <2>2, ConcatProperties
    <3> QED BY <3>1, <3>2, <2>1, <2>2
  <2>4. n \in Nat /\ 1 <= n /\ n <= Keep /\ n <= Len(backups) + 1
    BY <2>1
  <2>5. \A i \in 1 .. n : b[i] \in Contents
    <3> HIDE DEF b, n
    <3> QED BY <2>1, <2>3, <2>4, ElementOfSeq
  <2>6. SubSeq(b, 1, n) \in Seq(Contents) /\ Len(SubSeq(b, 1, n)) = n /\ SubSeq(b, 1, n)[1] = c
    <3> HIDE DEF b, n
    <3>1. /\ SubSeq(b, 1, n) \in Seq(Contents) /\ Len(SubSeq(b, 1, n)) = IF 1 <= n THEN n - 1 + 1 ELSE 0
          /\ \A i \in 1 .. n - 1 + 1 : SubSeq(b, 1, n)[i] = b[1 + i - 1]
      BY <2>4, <2>5, SubSeqProperties
    <3> QED BY <3>1, <2>3, <2>4
  <2>7. Backed(c) = SubSeq(b, 1, n)
    BY <1>2 DEF Backed
  <2>8. 1 \in DOMAIN SubSeq(b, 1, n)
    <3> HIDE DEF b, n
    <3> QED BY <2>4, <2>6, LenProperties
  <2> QED BY <2>4, <2>6, <2>7, <2>8
<1> QED BY <1>1, <1>2

\* RomM's saves only grow: what a save holds, and its slot, stay.
Grows(m, n) == \A v \in DOMAIN m : v \in DOMAIN n /\ n[v].content = m[v].content /\ n[v].slot = m[v].slot

LEMMA StoredGrows ==
  ASSUME TypeOK, NEW c \in Contents, NEW s \in Slots \cup {"parked"}
  PROVE  /\ Stored(c, s) \in Seq(Version) /\ Len(Stored(c, s)) = Len(romm) + 1 /\ Grows(romm, Stored(c, s))
         /\ Len(Stored(c, s)) \in DOMAIN Stored(c, s) /\ Len(Stored(c, s)) # 0
         /\ Stored(c, s)[Len(Stored(c, s))].content = c /\ Stored(c, s)[Len(Stored(c, s))].slot = s
<1> DEFINE e == [content |-> c, slot |-> s, gone |-> FALSE]
<1>1. e \in Version
  BY DEF Version
<1>2. romm \in Seq(Version) /\ Len(romm) \in Nat /\ DOMAIN romm = 1 .. Len(romm)
  BY LenProperties DEF TypeOK
<1>3. Append(romm, e) \in Seq(Version) /\ Len(Append(romm, e)) = Len(romm) + 1
  BY <1>1, <1>2, AppendProperties
<1>4. DOMAIN Append(romm, e) = 1 .. Len(romm) + 1
  BY <1>3, LenProperties
<1>5. \A v \in 1 .. Len(romm) : Append(romm, e)[v] = romm[v]
  BY <1>1, <1>2, AppendProperties
<1>6. Append(romm, e)[Len(romm) + 1] = e
  BY <1>1, <1>2, AppendProperties
<1>7. e.content = c /\ e.slot = s
  OBVIOUS
<1>8. Stored(c, s) = Append(romm, e)
  BY DEF Stored
<1> HIDE DEF e
<1> QED BY <1>2, <1>3, <1>4, <1>5, <1>6, <1>7, <1>8 DEF Grows

LEMMA SoundStays ==
  ASSUME NEW r, NEW m, NEW n, NEW sl, NEW tl, Sound(r, m, sl), Grows(m, n), sl \subseteq tl
  PROVE  Sound(r, n, tl)
BY DEF Sound, Grows

LEMMA GrowsSame == \A m : Grows(m, m)
BY DEF Grows

\* Records and operations to begin with.
LEMMA Blanks == ASSUME NEW s \in Slots PROVE Blank(s) \in Record /\ \A m, sl : Sound(Blank(s), m, sl)
<1>1. None \in Content /\ 0 \in Nat
  BY BoundsAssumption DEF None, Content
<1> QED BY <1>1 DEF Blank, Record, States, Sound, None

LEMMA IdleOp ==
  /\ Idle \in Op /\ Idle.pc = "off" /\ Idle.id = 0 /\ Idle.late = FALSE /\ Idle.new = Blank(Autosave)
  /\ \A m, sl : Sound(Idle.new, m, sl)
<1>1. Blank(Autosave) \in Record /\ Autosave \in Slots /\ None \in Content
  BY Blanks, SlotsAssumption, BoundsAssumption DEF None, Content
<1> QED BY <1>1, Blanks DEF Idle, Op, OpPC, Kinds

LEMMA NoCallIs == NoCall \in Call
BY SlotsAssumption, BoundsAssumption DEF NoCall, Call, None, Content

LEMMA KnownSound ==
  ASSUME TypeOK, Sound(rec, romm, slipped) PROVE Known \in Record /\ Sound(Known, romm, slipped)
BY Blanks DEF Known, TypeOK

\* A record's state and conflict change without its sides.
LEMMA StateSound ==
  ASSUME NEW r \in Record, NEW st \in States, NEW id \in Nat, NEW m, NEW sl, Sound(r, m, sl)
  PROVE  /\ [r EXCEPT !.state = st] \in Record /\ Sound([r EXCEPT !.state = st], m, sl)
         /\ [r EXCEPT !.state = st, !.conflict = id] \in Record /\ Sound([r EXCEPT !.state = st, !.conflict = id], m, sl)
BY DEF Record, Sound

\* A record's two sides are set to a save of RomM's.
LEMMA SidesSound ==
  ASSUME NEW r \in Record, NEW m, NEW sl, Sound(r, m, sl), NEW c \in Content, NEW id \in DOMAIN m, id \in Nat \ {0},
         c = m[id].content \/ c \in sl
  PROVE  LET q == [r EXCEPT !.local = c, !.server = id, !.state = "synced"] IN q \in Record /\ Sound(q, m, sl)
BY DEF Record, Sound, States

\* Where an operation counts on nothing but its record.
LEMMA PlainHolds ==
  ASSUME NEW o, NEW m, NEW d, NEW p, NEW b, NEW sl,
         o.pc \in {"off", "ask", "upload", "put"}, o.id \in DOMAIN m \cup {0}, Sound(o.new, m, sl)
  PROVE  Holds(o, m, d, p, b, sl)
BY DEF Holds, Downloading, Looked, Replacing

LEMMA PutHolds ==
  ASSUME NEW o \in Op, NEW r \in Record, NEW m, NEW d, NEW p, NEW b, NEW sl,
         o.id \in DOMAIN m \cup {0}, Sound(r, m, sl)
  PROVE  Put(o, r) \in Op /\ Holds(Put(o, r), m, d, p, b, sl)
<1>1. Cleared(r) \in Record /\ Sound(Cleared(r), m, sl)
  <2>1. None \in Content /\ 0 \in Nat
    BY BoundsAssumption DEF None, Content
  <2> QED BY <2>1 DEF Cleared, Record, Sound
<1>2. Put(o, r) \in Op /\ Put(o, r).pc = "put" /\ Put(o, r).id = o.id /\ Put(o, r).new = Cleared(r)
  BY <1>1 DEF Put, Op, OpPC
<1> QED BY <1>1, <1>2, PlainHolds

LEMMA ConflictsHolds ==
  ASSUME IInv, NEW o \in Op, o.id \in Ids \cup {0}, Sound(o.new, romm, slipped), NEW id \in Nat
  PROVE  Conflicts(o, id) \in Op /\ Holds(Conflicts(o, id), romm, deck, playing, backups, slipped)
<1> DEFINE r == [Known EXCEPT !.state = "conflict", !.conflict = id]
<1>1. r \in Record /\ Sound(r, romm, slipped)
  BY KnownSound, StateSound DEF IInv, States
<1> HIDE DEF r
<1>2. CASE o.local = None \/ r.parked = o.local
  <2>1. Conflicts(o, id) = Put(o, r)
    BY <1>2 DEF Conflicts, r
  <2> QED BY <2>1, <1>1, PutHolds DEF Ids
<1>3. CASE ~(o.local = None \/ r.parked = o.local)
  <2>1. Conflicts(o, id) = [o EXCEPT !.pc = "park", !.new = r]
    BY <1>3 DEF Conflicts, r
  <2>2. Conflicts(o, id) \in Op
    BY <2>1, <1>1 DEF Op, OpPC
  <2> QED BY <2>1, <2>2, <1>1, <1>3 DEF Holds, Op, Ids, Downloading, Looked, Replacing
<1> QED BY <1>2, <1>3

LEMMA FailsHolds ==
  ASSUME IInv, Fails
  PROVE  /\ op' \in Op /\ op'.pc \in {"off", "put"} /\ op'.id \in Ids \cup {0} /\ Sound(op'.new, romm, slipped)
         /\ slot' \in Slots /\ call' \in Call
<1>1. slot' \in Slots /\ call' \in Call
  BY NoCallIs DEF Fails, IInv, TypeOK, Op
<1>2. CASE op.kind \in {"sync", "leave"}
  <2>1. op' = Put(op, [Known EXCEPT !.state = "failed"])
    BY <1>2 DEF Fails
  <2>2. [Known EXCEPT !.state = "failed"] \in Record /\ Sound([Known EXCEPT !.state = "failed"], romm, slipped)
    BY KnownSound, StateSound DEF IInv, States
  <2>3. op \in Op /\ op.id \in DOMAIN romm \cup {0}
    BY DEF IInv, TypeOK, Holds
  <2>4. op' \in Op /\ Holds(op', romm, deck, playing, backups, slipped)
    BY <2>1, <2>2, <2>3, PutHolds
  <2>5. op'.pc = "put"
    BY <2>1, <2>3 DEF Put, Op
  <2> QED BY <2>4, <2>5, <1>1 DEF Holds, Ids
<1>3. CASE op.kind \notin {"sync", "leave"}
  BY <1>1, <1>3, IdleOp DEF Fails
<1> QED BY <1>2, <1>3

\* What RomM plans, and what each plan names.
LEMMA PlansAre ==
  ASSUME NEW o, NEW action \in Plans(o)
  PROVE  /\ action \in {"nothing", "no_op", "delete", "conflict", "upload", "download"}
         /\ action = "download" => Newest(slot) # 0
BY DEF Plans, Compared

LEMMA StepsHold ==
  ASSUME IInv, op.pc = "ask", NEW action \in Plans(op)
  PROVE  Steps(action) \in Op /\ Holds(Steps(action), romm, deck, playing, backups, slipped)
<1> DEFINE h == Newest(slot)
           o == [op EXCEPT !.id = h, !.kind = IF op.kind = "leave" THEN "leave" ELSE "sync"]
<1>1. h \in Ids \cup {0} /\ Ids = 1 .. Len(romm) /\ Len(romm) \in Nat
  BY NewestIsOne, LenProperties DEF IInv, TypeOK, Ids
<1> HIDE DEF h
<1>2. o \in Op /\ o.id = h /\ o.new = op.new /\ o.local = op.local /\ o.late = op.late
  <2>1. (IF op.kind = "leave" THEN "leave" ELSE "sync") \in Kinds /\ h \in Nat /\ op \in Op
    BY <1>1 DEF IInv, TypeOK, Kinds
  <2> QED BY <2>1 DEF Op
<1>3. Known \in Record /\ Sound(Known, romm, slipped) /\ Sound(o.new, romm, slipped)
  BY KnownSound, <1>2 DEF IInv, Holds
<1>4. o.local \in Content
  BY <1>2 DEF Op
<1>5. ASSUME NEW st \in States
      PROVE  [Known EXCEPT !.state = st] \in Record /\ Sound([Known EXCEPT !.state = st], romm, slipped)
  BY <1>3, StateSound
<1>6. ASSUME NEW r \in Record, Sound(r, romm, slipped)
      PROVE  Put(o, r) \in Op /\ Holds(Put(o, r), romm, deck, playing, backups, slipped)
  <2> HIDE DEF o
  <2> QED BY <1>1, <1>2, <1>6, PutHolds DEF Ids
<1>7. CASE action = "nothing"
  <2>1. Steps(action) = Put(o, [Known EXCEPT !.state = "synced"])
    BY <1>7 DEF Steps, h
  <2> HIDE DEF o
  <2> QED BY <2>1, <1>5, <1>6 DEF States
<1>8. CASE action = "no_op"
  <2>1. Steps(action) = Put(o, IF o.local = Was(h) THEN Synced(o, o.local, h) ELSE [Known EXCEPT !.state = "synced"])
    BY <1>8 DEF Steps, h
  <2> HIDE DEF o
  <2>2. CASE o.local = Was(h)
    <3>1. CASE h \in Ids
      <4>1. h \in Nat \ {0} /\ h \in DOMAIN romm /\ o.local = romm[h].content
        BY <1>1, <2>2, <3>1 DEF Was, Ids
      <4>2. Synced(o, o.local, h) \in Record /\ Sound(Synced(o, o.local, h), romm, slipped)
        BY <1>3, <1>4, <4>1, SidesSound DEF Synced
      <4> QED BY <2>1, <2>2, <4>2, <1>6
    <3>2. CASE h \notin Ids
      <4>1. h = 0 /\ o.local = None
        BY <1>1, <2>2, <3>2 DEF Was
      <4>2. Synced(o, o.local, h) \in Record /\ Sound(Synced(o, o.local, h), romm, slipped)
        BY <1>3, <1>4, <4>1 DEF Synced, Record, Sound, States, None
      <4> QED BY <2>1, <2>2, <4>2, <1>6
    <3> QED BY <3>1, <3>2
  <2>3. CASE o.local # Was(h)
    BY <2>1, <2>3, <1>5, <1>6 DEF States
  <2> QED BY <2>2, <2>3
<1>9. CASE action = "delete"
  <2>1. Steps(action) = Put(o, [Known EXCEPT !.state = "removed"])
    BY <1>9 DEF Steps, h
  <2> HIDE DEF o
  <2> QED BY <2>1, <1>5, <1>6 DEF States
<1>10. CASE action = "conflict"
  <2>1. Steps(action) = Conflicts(o, h)
    BY <1>10 DEF Steps, h
  <2> HIDE DEF o
  <2>2. h \in Nat
    BY <1>1
  <2> QED BY <2>1, <2>2, <1>1, <1>2, <1>3, ConflictsHolds
<1>11. CASE action = "upload"
  <2>1. Steps(action) = [o EXCEPT !.pc = "upload"]
    BY <1>11 DEF Steps, h
  <2> HIDE DEF o
  <2>2. [o EXCEPT !.pc = "upload"] \in Op
    BY <1>2 DEF Op, OpPC
  <2> QED BY <2>1, <2>2, <1>1, <1>2, <1>3, PlainHolds DEF Op, Ids
<1>12. CASE action = "download"
  <2>1. Steps(action) = [o EXCEPT !.pc = "check"]
    BY <1>12 DEF Steps, h
  <2>2. h # 0
    BY <1>12, PlansAre DEF h
  <2> HIDE DEF o
  <2>3. [o EXCEPT !.pc = "check"] \in Op
    BY <1>2 DEF Op, OpPC
  <2> QED BY <2>1, <2>2, <2>3, <1>1, <1>2, <1>3 DEF Op, Ids, Holds, Downloading, Looked, Replacing
<1> QED BY <1>7, <1>8, <1>9, <1>10, <1>11, <1>12, PlansAre

-----------------------------------------------------------------------------
(* Each step. *)

LEMMA InitInv == Init => IInv
<1> SUFFICES ASSUME Init PROVE IInv
  OBVIOUS
<1>1. None \in Content /\ 0 \in Nat /\ Blank(Autosave) \in Record /\ Autosave \in Slots
  BY BoundsAssumption, Blanks, SlotsAssumption DEF None, Content
<1>2. <<>> \in Seq(Version) /\ <<>> \in Seq(Contents) /\ Len(<<>>) = 0 /\ 0 <= Keep
  BY EmptySeq, KeepAssumption
<1>3. TypeOK
  BY <1>1, <1>2, IdleOp, NoCallIs DEF Init, TypeOK, None
<1>4. Sound(rec, romm, slipped) /\ Sound(op.new, romm, slipped)
  BY Blanks, SlotsAssumption, IdleOp DEF Init
<1> QED BY <1>3, <1>4, IdleOp, PlainHolds DEF Init, IInv

\* A step of the operation under way that leaves the saves and the record alone.
LEMMA OpStep ==
  ASSUME IInv, UNCHANGED <<deck, playing, held, romm, slipped, rec, made>>, known' \subseteq Ids,
         slot' \in Slots, call' \in Call, backups' \in Seq(Contents), Len(backups') <= Keep,
         op' \in Op, Holds(op', romm, deck, playing, backups', slipped)
  PROVE  IInv'
<1>1. Ids' = Ids
  BY DEF Ids
<1>2. TypeOK'
  BY <1>1 DEF IInv, TypeOK
<1> QED BY <1>2 DEF IInv

LEMMA AskStep == ASSUME IInv, Ask PROVE IInv'
<1> DEFINE h == Newest(slot)
           o == [op EXCEPT !.id = h]
<1>1. PICK action \in Plans(op) :
         op' = IF op.kind \in {"sync", "leave"} \/ h = 0 \/ op.local = Was(h) THEN Steps(action)
               ELSE IF h # op.seen THEN Conflicts(o, h)
               ELSE IF op.kind = "keepServer" THEN [o EXCEPT !.pc = "check"]
               ELSE [o EXCEPT !.pc = "upload"]
  BY DEF Ask
<1>2. op.pc = "ask" /\ UNCHANGED <<deck, playing, held, server, disk, call, bounds, slipped>>
  BY DEF Ask
<1>3. h \in Ids \cup {0} /\ h \in Nat
  BY NewestIsOne, LenProperties DEF IInv, TypeOK, Ids
<1> HIDE DEF h
<1>4. o \in Op /\ o.id = h /\ o.new = op.new /\ o.late = op.late
  BY <1>3 DEF IInv, TypeOK, Op
<1>5. Sound(o.new, romm, slipped)
  BY <1>4 DEF IInv, Holds
<1>6. op' \in Op /\ Holds(op', romm, deck, playing, backups, slipped)
  <2>1. CASE op.kind \in {"sync", "leave"} \/ h = 0 \/ op.local = Was(h)
    BY <1>1, <1>2, <2>1, StepsHold
  <2>2. CASE h # 0
    <3> HIDE DEF o
    <3>1. Conflicts(o, h) \in Op /\ Holds(Conflicts(o, h), romm, deck, playing, backups, slipped)
      BY <1>3, <1>4, <1>5, ConflictsHolds
    <3>2. [o EXCEPT !.pc = "check"] \in Op /\ Holds([o EXCEPT !.pc = "check"], romm, deck, playing, backups, slipped)
      BY <1>3, <1>4, <1>5, <2>2 DEF Op, OpPC, Ids, Holds, Downloading, Looked, Replacing
    <3>3. [o EXCEPT !.pc = "upload"] \in Op /\ Holds([o EXCEPT !.pc = "upload"], romm, deck, playing, backups, slipped)
      BY <1>3, <1>4, <1>5 DEF Op, OpPC, Ids, Holds, Downloading, Looked, Replacing
    <3> QED BY <1>1, <1>2, <3>1, <3>2, <3>3, StepsHold
  <2> QED BY <2>1, <2>2
<1> QED BY <1>2, <1>6, OpStep DEF IInv, TypeOK, server, disk, bounds

LEMMA AskFailsStep == ASSUME IInv, AskFails PROVE IInv'
<1>1. op' = Idle /\ call' \in Call /\ UNCHANGED <<deck, playing, held, server, disk, made, slipped>>
  BY NoCallIs DEF AskFails, IInv, TypeOK
<1> QED BY <1>1, IdleOp, PlainHolds, OpStep DEF IInv, TypeOK, server, disk

LEMMA UploadRefusedStep == ASSUME IInv, UploadRefused PROVE IInv'
<1>1. op' = Conflicts(op, op.id) /\ UNCHANGED <<deck, playing, held, server, disk, call, bounds, slipped>>
  BY DEF UploadRefused
<1>2. op \in Op /\ op.id \in Nat /\ op.id \in Ids \cup {0} /\ Sound(op.new, romm, slipped)
  BY DEF IInv, TypeOK, Op, Holds, Ids
<1> QED BY <1>1, <1>2, ConflictsHolds, OpStep DEF IInv, TypeOK, server, disk, bounds

\* A save is added to RomM's, and the operation goes on with what it says of it.
LEMMA StoreStep ==
  ASSUME IInv, NEW c \in Contents, NEW s \in Slots \cup {"parked"}, romm' = Stored(c, s),
         known' \subseteq Ids', UNCHANGED <<deck, playing, held, slipped, rec, backups, made>>,
         slot' \in Slots, call' \in Call,
         op' \in Op, Holds(op', romm', deck, playing, backups, slipped)
  PROVE  IInv'
<1>1. romm' \in Seq(Version) /\ Grows(romm, romm')
  BY StoredGrows DEF IInv
<1>2. TypeOK'
  BY <1>1 DEF IInv, TypeOK
<1>3. Sound(rec, romm', slipped)
  BY <1>1, SoundStays DEF IInv
<1> QED BY <1>2, <1>3 DEF IInv

LEMMA UploadStep == ASSUME IInv, Upload PROVE IInv'
<1>1. /\ op.local # None /\ romm' = Stored(op.local, slot) /\ known' = known \cup {Len(romm')}
      /\ op' = Put(op, Synced(op, op.local, Len(romm')))
      /\ UNCHANGED <<deck, playing, held, disk, call, bounds, slipped>>
  BY DEF Upload
<1>2. op.local \in Contents /\ op.local \in Content /\ slot \in Slots /\ op \in Op
  BY <1>1 DEF IInv, TypeOK, Op, Content, Contents, None
<1>3. /\ Len(romm') = Len(romm) + 1 /\ Grows(romm, romm') /\ Len(romm') \in DOMAIN romm'
      /\ romm'[Len(romm')].content = op.local
  BY <1>1, <1>2, StoredGrows DEF IInv
<1>4. Len(romm) \in Nat
  BY LenProperties DEF IInv, TypeOK
<1>5. Known \in Record /\ Sound(Known, romm', slipped)
  BY <1>3, KnownSound, SoundStays DEF IInv
<1>6. Synced(op, op.local, Len(romm')) \in Record /\ Sound(Synced(op, op.local, Len(romm')), romm', slipped)
  <2> DEFINE id == Len(romm')
  <2>1. id \in Nat \ {0} /\ id \in DOMAIN romm' /\ op.local = romm'[id].content
    BY <1>3, <1>4
  <2> HIDE DEF id
  <2>2. Synced(op, op.local, id) \in Record /\ Sound(Synced(op, op.local, id), romm', slipped)
    BY <1>2, <1>5, <2>1, SidesSound DEF Synced
  <2> QED BY <2>2 DEF id
<1>7. op.id \in DOMAIN romm' \cup {0}
  BY <1>3 DEF IInv, Holds, Grows
<1>8. op' \in Op /\ Holds(op', romm', deck, playing, backups, slipped)
  BY <1>1, <1>2, <1>6, <1>7, PutHolds
<1>9. known' \subseteq Ids'
  BY <1>1, <1>3 DEF IInv, TypeOK, Ids, Grows
<1> QED BY <1>1, <1>2, <1>8, <1>9, StoreStep DEF IInv, TypeOK, disk, bounds

LEMMA UploadFailsStep == ASSUME IInv, UploadFails PROVE IInv'
<1>1. Fails /\ UNCHANGED <<deck, playing, held, rec, backups, made, calls, removed, slipped>>
  BY DEF UploadFails
<1>2. /\ op' \in Op /\ op'.pc \in {"off", "put"} /\ op'.id \in Ids \cup {0} /\ Sound(op'.new, romm, slipped)
      /\ slot' \in Slots /\ call' \in Call
  BY <1>1, FailsHolds
<1>3. CASE UNCHANGED server
  <2>1. Holds(op', romm, deck, playing, backups, slipped)
    BY <1>2, PlainHolds DEF Ids
  <2> QED BY <1>1, <1>2, <1>3, <2>1, OpStep DEF IInv, TypeOK, server
<1>4. CASE op.local # None /\ romm' = Stored(op.local, slot) /\ known' = known \cup {Len(romm')}
  <2>1. op.local \in Contents /\ slot \in Slots
    BY <1>4 DEF IInv, TypeOK, Op, Content, Contents, None
  <2>2. Grows(romm, romm') /\ Len(romm') \in DOMAIN romm'
    BY <1>4, <2>1, StoredGrows DEF IInv
  <2>3. Sound(op'.new, romm', slipped) /\ op'.id \in DOMAIN romm' \cup {0}
    BY <1>2, <2>2, SoundStays DEF Grows, Ids
  <2>4. Holds(op', romm', deck, playing, backups, slipped)
    BY <1>2, <2>3, PlainHolds
  <2>5. known' \subseteq Ids'
    BY <1>4, <2>2 DEF IInv, TypeOK, Ids, Grows
  <2> QED BY <1>1, <1>2, <1>4, <2>1, <2>4, <2>5, StoreStep
<1> QED BY <1>3, <1>4 DEF UploadFails

LEMMA ParkStep == ASSUME IInv, Park PROVE IInv'
<1>1. op.pc = "park" /\ known' = known /\ UNCHANGED <<deck, playing, held, disk, call, made, slipped>>
  BY DEF Park
<1>2. /\ op \in Op /\ op.local \in Contents /\ op.new \in Record /\ Sound(op.new, romm, slipped)
      /\ op.id \in DOMAIN romm \cup {0} /\ op.local \in Content
  BY <1>1 DEF IInv, TypeOK, Holds, Op, Content, Contents, None
<1>3. CASE romm' = romm /\ op' = Put(op, op.new)
  <2>1. op' \in Op /\ Holds(op', romm, deck, playing, backups, slipped)
    BY <1>2, <1>3, PutHolds
  <2> QED BY <1>1, <1>3, <2>1, OpStep DEF IInv, TypeOK, disk
<1>4. CASE romm' = Stored(op.local, "parked") /\ op' = Put(op, [op.new EXCEPT !.parked = op.local])
  <2> DEFINE r == [op.new EXCEPT !.parked = op.local]
  <2>1. /\ Grows(romm, romm') /\ Len(romm') \in DOMAIN romm'
        /\ romm'[Len(romm')].content = op.local /\ romm'[Len(romm')].slot = "parked"
    BY <1>2, <1>4, StoredGrows DEF IInv
  <2>2. r \in Record /\ r.local = op.new.local /\ r.server = op.new.server /\ r.parked = op.local
    BY <1>2 DEF Record
  <2>3. Sound(op.new, romm', slipped)
    BY <1>2, <2>1, SoundStays
  <2> HIDE DEF r
  <2>4. Sound(r, romm', slipped)
    BY <2>1, <2>2, <2>3 DEF Sound
  <2>5. op.id \in DOMAIN romm' \cup {0}
    BY <1>2, <2>1 DEF Grows
  <2>6. op' \in Op /\ Holds(op', romm', deck, playing, backups, slipped)
    BY <1>2, <1>4, <2>2, <2>4, <2>5, PutHolds DEF r
  <2>7. known' \subseteq Ids'
    BY <1>1, <2>1 DEF IInv, TypeOK, Ids, Grows
  <2> QED BY <1>1, <1>2, <1>4, <2>6, <2>7, StoreStep DEF IInv, TypeOK, disk
<1> QED BY <1>3, <1>4 DEF Park

LEMMA WaitsStep == ASSUME IInv, Waits PROVE IInv'
<1>1. UNCHANGED <<deck, playing, held, server, rec, backups, bounds, slipped>>
  BY DEF Waits
<1>2. op' \in Op /\ slot' \in Slots /\ call' \in Call /\ Holds(op', romm, deck, playing, backups, slipped)
  <2>1. CASE op.kind = "switch"
    <3>1. Fails
      BY <2>1 DEF Waits
    <3> QED BY <3>1, FailsHolds, PlainHolds DEF Ids
  <2>2. CASE op.kind # "switch"
    <3>1. op' = Put(op, [Known EXCEPT !.state = "waiting"]) /\ UNCHANGED <<slot, call>>
      BY <2>2 DEF Waits
    <3>2. [Known EXCEPT !.state = "waiting"] \in Record /\ Sound([Known EXCEPT !.state = "waiting"], romm, slipped)
      BY KnownSound, StateSound DEF IInv, States
    <3>3. op \in Op /\ op.id \in DOMAIN romm \cup {0} /\ slot \in Slots /\ call \in Call
      BY DEF IInv, TypeOK, Holds
    <3> QED BY <3>1, <3>2, <3>3, PutHolds
  <2> QED BY <2>1, <2>2
<1> QED BY <1>1, <1>2, OpStep DEF IInv, TypeOK, server, bounds

LEMMA CheckStep == ASSUME IInv, Check PROVE IInv'
<1>1. op.pc = "check" /\ ~playing /\ UNCHANGED <<deck, playing, held, server, rec, backups, bounds, slipped>>
  BY DEF Check
<1>2. op' \in Op /\ slot' \in Slots /\ call' \in Call /\ Holds(op', romm, deck, playing, backups, slipped)
  <2>1. CASE deck.content = op.local
    <3>1. op' = [op EXCEPT !.pc = "fetch"] /\ UNCHANGED <<slot, call>>
      BY <2>1 DEF Check
    <3>2. op \in Op /\ op' \in Op /\ slot \in Slots /\ call \in Call
      BY <3>1 DEF IInv, TypeOK, Op, OpPC
    <3>3. Holds(op, romm, deck, playing, backups, slipped)
      BY DEF IInv
    <3> QED BY <1>1, <2>1, <3>1, <3>2, <3>3 DEF Op, Holds, Downloading, Looked, Replacing
  <2>2. CASE deck.content # op.local
    <3>1. Fails
      BY <2>2 DEF Check
    <3> QED BY <3>1, FailsHolds, PlainHolds DEF Ids
  <2> QED BY <2>1, <2>2
<1> QED BY <1>1, <1>2, OpStep DEF IInv, TypeOK, server, bounds

LEMMA FetchStep == ASSUME IInv, Fetch PROVE IInv'
<1>1. /\ op.pc = "fetch" /\ backups' = Backed(op.local) /\ op' = [op EXCEPT !.pc = "write"]
      /\ UNCHANGED <<deck, playing, held, server, rec, slot, call, bounds, slipped>>
  BY DEF Fetch
<1>2. op \in Op /\ op.local \in Content /\ op' \in Op
  BY <1>1 DEF IInv, TypeOK, Op, OpPC
<1>3. /\ backups' \in Seq(Contents) /\ Len(backups') <= Keep
      /\ op.local # None => \E i \in DOMAIN backups' : backups'[i] = op.local
  BY <1>1, <1>2, BackedKeeps DEF IInv
<1>4. Holds(op, romm, deck, playing, backups, slipped)
  BY DEF IInv
<1>5. Holds(op', romm, deck, playing, backups', slipped)
  BY <1>1, <1>2, <1>3, <1>4 DEF Op, Holds, Downloading, Looked, Replacing
<1> QED BY <1>1, <1>2, <1>3, <1>5, OpStep DEF IInv, TypeOK, server, bounds

LEMMA DownloadFailsStep == ASSUME IInv, DownloadFails PROVE IInv'
<1>1. Fails /\ UNCHANGED <<deck, playing, held, server, rec, backups, made, calls, removed, slipped>>
  BY DEF DownloadFails
<1>2. op' \in Op /\ slot' \in Slots /\ call' \in Call /\ Holds(op', romm, deck, playing, backups, slipped)
  BY <1>1, FailsHolds, PlainHolds DEF Ids
<1> QED BY <1>1, <1>2, OpStep DEF IInv, TypeOK, server

LEMMA ConfirmStep == ASSUME IInv, Confirm PROVE IInv'
<1>1. /\ op.pc = "confirm" /\ op' = [op EXCEPT !.pc = "reread"] /\ known' \subseteq known \cup {op.id}
      /\ UNCHANGED <<deck, playing, held, romm, disk, call, made, calls, removed, slipped>>
  BY DEF Confirm
<1>2. op \in Op /\ op' \in Op
  BY <1>1 DEF IInv, TypeOK, Op, OpPC
<1>3. Holds(op, romm, deck, playing, backups, slipped) /\ op.id \in Ids
  BY <1>1 DEF IInv, Holds, Downloading, Ids
<1>4. Holds(op', romm, deck, playing, backups, slipped)
  BY <1>1, <1>2, <1>3 DEF Op, Holds, Downloading, Looked, Replacing
<1> QED BY <1>1, <1>2, <1>3, <1>4, OpStep DEF IInv, TypeOK, disk

LEMMA RereadStep == ASSUME IInv, Reread PROVE IInv'
<1> DEFINE c == IF deck.content = None THEN Was(op.id) ELSE deck.content
<1>1. /\ op.pc = "reread" /\ op' = Put(op, Synced(op, c, op.id))
      /\ UNCHANGED <<deck, playing, held, server, disk, call, bounds, slipped>>
  BY DEF Reread
<1>2. op \in Op /\ op.id \in DOMAIN romm /\ op.id # 0 /\ op.id \in Nat
  BY <1>1 DEF IInv, TypeOK, Op, Holds, Downloading
<1>3. romm[op.id].content \in Content /\ deck.content \in Content
  <2>1. romm[op.id] \in Version
    BY <1>2, LenProperties, ElementOfSeq DEF IInv, TypeOK
  <2> QED BY <2>1 DEF Version, Content, Contents, IInv, TypeOK
<1>4. c \in Content /\ (c = romm[op.id].content \/ c \in slipped)
  BY <1>1, <1>2, <1>3 DEF IInv, Holds, Was, Ids
<1>5. Known \in Record /\ Sound(Known, romm, slipped)
  BY KnownSound DEF IInv
<1> HIDE DEF c
<1>6. Synced(op, c, op.id) \in Record /\ Sound(Synced(op, c, op.id), romm, slipped)
  BY <1>2, <1>4, <1>5, SidesSound DEF Synced
<1>7. op' \in Op /\ Holds(op', romm, deck, playing, backups, slipped)
  BY <1>1, <1>2, <1>6, PutHolds
<1> QED BY <1>1, <1>7, OpStep DEF IInv, TypeOK, server, disk, bounds

LEMMA PutRecordStep == ASSUME IInv, PutRecord PROVE IInv'
<1>1. op.pc = "put" /\ op' = Idle /\ UNCHANGED <<deck, playing, held, server, slot, backups, made, calls, removed, slipped>>
  BY DEF PutRecord
<1>2. rec' \in {rec, op.new}
  BY DEF PutRecord
<1>3. rec' \in Record /\ Sound(rec', romm, slipped)
  BY <1>2 DEF IInv, TypeOK, Op, Holds
<1>4. call' \in Call
  <2>1. call \in Call
    BY DEF IInv, TypeOK
  <2>2. [call EXCEPT !.kind = "left"] \in Call
    BY <2>1 DEF Call
  <2> QED BY <2>1, <2>2, NoCallIs DEF PutRecord
<1>5. op' \in Op /\ Holds(op', romm, deck, playing, backups, slipped)
  BY <1>1, IdleOp, PlainHolds
<1>6. TypeOK'
  BY <1>1, <1>3, <1>4, <1>5 DEF IInv, TypeOK, server, Ids
<1> QED BY <1>1, <1>3, <1>5, <1>6 DEF IInv, server

\* A pass begins: its save is read.
LEMMA BeginStep ==
  ASSUME IInv, NEW kind \in Kinds, NEW seen \in Nat, Begin(kind, seen), call' \in Call,
         UNCHANGED <<deck, playing, held, server, disk, made, slipped>>
  PROVE  IInv'
<1>1. op' = [Idle EXCEPT !.pc = "ask", !.kind = kind, !.local = deck.content, !.at = deck.at, !.seen = seen]
  BY DEF Begin
<1>2. deck.content \in Content /\ deck.at \in Nat
  BY DEF IInv, TypeOK
<1>3. op' \in Op /\ op'.pc = "ask" /\ op'.id = 0 /\ op'.new = Idle.new
  BY <1>1, <1>2, IdleOp DEF Op, OpPC
<1>4. Holds(op', romm, deck, playing, backups, slipped)
  BY <1>3, IdleOp, PlainHolds
<1> QED BY <1>3, <1>4, OpStep DEF IInv, TypeOK, server, disk

\* Only the call that waits changes.
LEMMA CallStep ==
  ASSUME IInv, call' \in Call, UNCHANGED <<deck, playing, held, server, disk, op, made, slipped>>
  PROVE  IInv'
BY OpStep DEF IInv, TypeOK, server, disk

LEMMA SyncStep == ASSUME IInv, Sync PROVE IInv'
<1>1. "sync" \in Kinds /\ 0 \in Nat
  BY DEF Kinds
<1> QED BY <1>1, BeginStep DEF Sync, IInv, TypeOK, bounds

LEMMA LeaveStep == ASSUME IInv, Leave PROVE IInv'
<1>1. "leave" \in Kinds /\ 0 \in Nat
  BY DEF Kinds
<1> QED BY <1>1, BeginStep DEF Leave, IInv, TypeOK, bounds

LEMMA ChooseStep == ASSUME IInv, Choose PROVE IInv'
<1>1. call' = [NoCall EXCEPT !.kind = "choose", !.seen = rec.conflict] /\ UNCHANGED <<deck, playing, held, server, disk, op, made, slipped>>
  BY DEF Choose
<1>2. rec.conflict \in Nat
  BY DEF IInv, TypeOK, Record
<1>3. call' \in Call
  BY <1>1, <1>2, NoCallIs DEF Call
<1> QED BY <1>1, <1>3, CallStep

LEMMA ResolveStep == ASSUME IInv, NEW kind \in {"keepDeck", "keepServer"}, Resolve(kind) PROVE IInv'
<1>1. call' = NoCall /\ UNCHANGED <<deck, playing, held, server, disk, made, slipped>>
  BY DEF Resolve, bounds
<1>2. CASE UNCHANGED op
  BY <1>1, <1>2, NoCallIs, CallStep
<1>3. CASE Begin(kind, call.seen)
  <2>1. call.seen \in Nat /\ kind \in Kinds
    BY DEF IInv, TypeOK, Call, Kinds
  <2> QED BY <1>1, <1>3, <2>1, NoCallIs, BeginStep
<1> QED BY <1>2, <1>3 DEF Resolve

LEMMA SwitchAskedStep == ASSUME IInv, NEW to \in Slots, SwitchAsked(to) PROVE IInv'
<1>1. call' = [NoCall EXCEPT !.kind = "leaving", !.to = to] /\ UNCHANGED <<deck, playing, held, server, disk, op, made, slipped>>
  BY DEF SwitchAsked
<1>2. call' \in Call
  BY <1>1, NoCallIs DEF Call
<1> QED BY <1>1, <1>2, CallStep

LEMMA RestoreAskedStep == ASSUME IInv, RestoreAsked PROVE IInv'
<1>1. UNCHANGED <<deck, playing, held, server, disk, op, made, slipped>>
  BY DEF RestoreAsked
<1>2. PICK i \in DOMAIN backups : call' = [NoCall EXCEPT !.kind = "restore", !.what = backups[i]]
  BY DEF RestoreAsked
<1>3. backups[i] \in Content
  <2>1. backups \in Seq(Contents) /\ i \in 1 .. Len(backups)
    BY <1>2, LenProperties DEF IInv, TypeOK
  <2>2. backups[i] \in Contents
    BY <2>1, ElementOfSeq
  <2> QED BY <2>2 DEF Contents, Content
<1>4. call' \in Call
  BY <1>2, <1>3, NoCallIs DEF Call
<1> QED BY <1>1, <1>4, CallStep

LEMMA DeleteAskedStep == ASSUME IInv, DeleteAsked PROVE IInv'
<1>1. call' = [NoCall EXCEPT !.kind = "delete"] /\ UNCHANGED <<deck, playing, held, server, disk, op, made, slipped>>
  BY DEF DeleteAsked
<1>2. call' \in Call
  BY <1>1, NoCallIs DEF Call
<1> QED BY <1>1, <1>2, CallStep

LEMMA SwitchReadsStep == ASSUME IInv, SwitchReads PROVE IInv'
<1>1. UNCHANGED <<deck, playing, held, server, disk, bounds, slipped>>
  BY DEF SwitchReads
<1>2. CASE ~Switchable
  BY <1>1, <1>2, NoCallIs, CallStep DEF SwitchReads, bounds
<1>3. CASE Switchable
  <2> DEFINE h == Newest(call.to)
  <2>1. op' = [Idle EXCEPT !.pc = "set", !.kind = "switch", !.local = deck.content, !.id = h, !.from = slot] /\ UNCHANGED call
    BY <1>3 DEF SwitchReads
  <2>2. h \in Ids \cup {0} /\ h \in Nat
    BY NewestIsOne, LenProperties DEF IInv, TypeOK, Ids
  <2> HIDE DEF h
  <2>3. deck.content \in Content /\ slot \in Slots
    BY DEF IInv, TypeOK
  <2>4. /\ op' \in Op /\ op'.pc = "set" /\ op'.id = h /\ op'.new = Idle.new /\ op'.local = deck.content
    BY <2>1, <2>2, <2>3, IdleOp DEF Op, OpPC, Kinds
  <2>5. deck.content \in slipped \cup {None} \/ \E v \in DOMAIN romm : romm[v].content = deck.content
    <3>1. deck.content = None \/ deck.content = rec.local
      BY <1>3 DEF Switchable
    <3> QED BY <3>1 DEF IInv, Sound, None
  <2>6. Holds(op', romm, deck, playing, backups, slipped)
    BY <2>2, <2>4, <2>5, IdleOp DEF Holds, Ids, Downloading, Looked, Replacing
  <2> QED BY <1>1, <2>1, <2>4, <2>6, OpStep DEF IInv, TypeOK, server, disk, bounds
<1> QED BY <1>2, <1>3

LEMMA SwitchSetsStep == ASSUME IInv, SwitchSets PROVE IInv'
<1> DEFINE r == Blank(call.to)
           q == [r EXCEPT !.local = op.local, !.server = op.id, !.state = "synced"]
<1>1. op.pc = "set" /\ slot' = call.to /\ UNCHANGED <<deck, playing, held, server, rec, backups, call, bounds, slipped>>
  BY DEF SwitchSets
<1>2. op' = IF op.id = 0 THEN Put(op, r)
            ELSE IF op.local # None /\ op.local = Was(op.id) THEN Put(op, q)
            ELSE [op EXCEPT !.pc = "check"]
  BY DEF SwitchSets
<1>3. /\ op \in Op /\ op.local \in Content /\ op.id \in Nat /\ op.id \in DOMAIN romm \cup {0} /\ call.to \in Slots
      /\ Holds(op, romm, deck, playing, backups, slipped)
  BY DEF IInv, TypeOK, Op, Call, Holds
<1>4. r \in Record /\ Sound(r, romm, slipped)
  BY <1>3, Blanks
<1>5. op' \in Op /\ Holds(op', romm, deck, playing, backups, slipped)
  <2> HIDE DEF r
  <2>1. CASE op.id = 0
    BY <1>2, <1>3, <1>4, <2>1, PutHolds
  <2>2. CASE op.id # 0 /\ op.local # None /\ op.local = Was(op.id)
    <3>1. op.id \in DOMAIN romm /\ op.id \in Nat \ {0} /\ op.local = romm[op.id].content
      BY <1>3, <2>2 DEF Was, Ids
    <3>2. q \in Record /\ Sound(q, romm, slipped)
      BY <1>3, <1>4, <3>1, SidesSound
    <3> HIDE DEF q
    <3> QED BY <1>2, <1>3, <2>2, <3>2, PutHolds
  <2>3. CASE op.id # 0 /\ ~(op.local # None /\ op.local = Was(op.id))
    <3>1. op' = [op EXCEPT !.pc = "check"]
      BY <1>2, <2>3
    <3> QED BY <1>3, <2>3, <3>1 DEF Op, OpPC, Holds, Downloading, Looked, Replacing
  <2> QED BY <2>1, <2>2, <2>3
<1> QED BY <1>1, <1>3, <1>5, OpStep DEF IInv, TypeOK, server, bounds

\* A backup is taken of the Deck's save, which goes next.
LEMMA BackedStep ==
  ASSUME IInv, backups' = Backed(deck.content), call' \in Call,
         UNCHANGED <<deck, playing, held, server, rec, slot, made, slipped>>,
         op' \in Op, op'.pc \in {"restore", "remove"}, op'.id = 0, op'.new = Idle.new,
         op'.local = deck.content, op'.late = playing
  PROVE  IInv'
<1>1. deck.content \in Content
  BY DEF IInv, TypeOK
<1>2. /\ backups' \in Seq(Contents) /\ Len(backups') <= Keep
      /\ deck.content # None => \E i \in DOMAIN backups' : backups'[i] = deck.content
  BY <1>1, BackedKeeps DEF IInv
<1>3. Holds(op', romm, deck, playing, backups', slipped)
  BY <1>2, IdleOp DEF Holds, Downloading, Looked, Replacing, IInv, TypeOK
<1> QED BY <1>2, <1>3, OpStep DEF IInv, TypeOK, server

LEMMA RestoreReadsStep == ASSUME IInv, RestoreReads PROVE IInv'
<1>1. call' = NoCall /\ UNCHANGED <<deck, playing, held, server, rec, slot, bounds, slipped>>
  BY DEF RestoreReads
<1>2. CASE UNCHANGED <<backups, op>>
  BY <1>1, <1>2, NoCallIs, CallStep DEF disk, bounds
<1>3. CASE /\ backups' = Backed(deck.content)
           /\ op' = [Idle EXCEPT !.pc = "restore", !.kind = "restore", !.local = deck.content, !.what = call.what, !.late = playing]
  <2>1. deck.content \in Content /\ playing \in BOOLEAN /\ call.what \in Content
    BY DEF IInv, TypeOK, Call
  <2>2. /\ op' \in Op /\ op'.pc = "restore" /\ op'.id = 0 /\ op'.new = Idle.new
        /\ op'.local = deck.content /\ op'.late = playing
    BY <1>3, <2>1, IdleOp DEF Op, OpPC, Kinds
  <2> QED BY <1>1, <1>3, <2>2, NoCallIs, BackedStep DEF bounds
<1> QED BY <1>2, <1>3 DEF RestoreReads

LEMMA DeleteReadsStep == ASSUME IInv, DeleteReads PROVE IInv'
<1>1. call' = NoCall /\ UNCHANGED <<deck, playing, held, server, rec, slot, bounds, slipped>>
  BY DEF DeleteReads
<1>2. CASE UNCHANGED <<backups, op>>
  BY <1>1, <1>2, NoCallIs, CallStep DEF disk, bounds
<1>3. CASE /\ backups' = Backed(deck.content)
           /\ op' = [Idle EXCEPT !.pc = "remove", !.kind = "delete", !.local = deck.content, !.late = playing]
  <2>1. deck.content \in Content /\ playing \in BOOLEAN
    BY DEF IInv, TypeOK
  <2>2. /\ op' \in Op /\ op'.pc = "remove" /\ op'.id = 0 /\ op'.new = Idle.new
        /\ op'.local = deck.content /\ op'.late = playing
    BY <1>3, <2>1, IdleOp DEF Op, OpPC, Kinds
  <2> QED BY <1>1, <1>3, <2>2, NoCallIs, BackedStep DEF bounds
<1> QED BY <1>2, <1>3 DEF DeleteReads

\* The Deck's save changes, and the emulator may start or close.
LEMMA DeckStep ==
  ASSUME IInv, deck' \in [content : Content, at : Nat], playing' \in BOOLEAN, held' \in Content, made' \in Content,
         UNCHANGED <<server, disk, call>>, slipped' \subseteq Contents, slipped \subseteq slipped',
         op' \in Op, Holds(op', romm, deck', playing', backups, slipped')
  PROVE  IInv'
<1>1. TypeOK'
  BY DEF IInv, TypeOK, server, disk, Ids
<1>2. Sound(rec, romm, slipped')
  BY GrowsSame, SoundStays DEF IInv
<1> QED BY <1>1, <1>2 DEF IInv, server, disk

LEMMA NowIs == Now \subseteq Nat
BY DEF Now

LEMMA WriteStep == ASSUME IInv, Write PROVE IInv'
<1>1. op.pc = "write" /\ op' = [op EXCEPT !.pc = "confirm"] /\ UNCHANGED <<playing, held, server, disk, call, bounds, slipped>>
  BY DEF Write
<1>2. PICK t \in Now : deck' = [content |-> romm[op.id].content, at |-> t]
  BY DEF Write
<1>3. op \in Op /\ op' \in Op /\ op.id \in DOMAIN romm /\ Holds(op, romm, deck, playing, backups, slipped)
  BY <1>1 DEF IInv, TypeOK, Op, OpPC, Holds, Downloading
<1>4. romm[op.id].content \in Content
  <2>1. romm[op.id] \in Version
    BY <1>3, LenProperties, ElementOfSeq DEF IInv, TypeOK
  <2> QED BY <2>1 DEF Version, Content, Contents
<1>5. deck' \in [content : Content, at : Nat] /\ deck'.content = romm[op.id].content
  BY <1>2, <1>4, NowIs
<1>6. Holds(op', romm, deck', playing, backups, slipped)
  BY <1>1, <1>3, <1>5 DEF Op, Holds, Downloading, Looked, Replacing
<1> QED BY <1>1, <1>3, <1>5, <1>6, DeckStep DEF IInv, TypeOK, bounds

LEMMA RestoreWritesStep == ASSUME IInv, RestoreWrites PROVE IInv'
<1>1. op' = Idle /\ UNCHANGED <<playing, held, server, disk, call, bounds, slipped>>
  BY DEF RestoreWrites
<1>2. PICK t \in Now : deck' = [content |-> op.what, at |-> t]
  BY DEF RestoreWrites
<1>3. deck' \in [content : Content, at : Nat]
  BY <1>2, NowIs DEF IInv, TypeOK, Op
<1>4. Holds(op', romm, deck', playing, backups, slipped)
  BY <1>1, IdleOp, PlainHolds
<1> QED BY <1>1, <1>3, <1>4, IdleOp, DeckStep DEF IInv, TypeOK, bounds

LEMMA DeleteRemovesStep == ASSUME IInv, DeleteRemoves PROVE IInv'
<1>1. deck' = [content |-> None, at |-> 0] /\ op' = Idle /\ UNCHANGED <<playing, held, server, disk, call, bounds, slipped>>
  BY DEF DeleteRemoves
<1>2. deck' \in [content : Content, at : Nat]
  BY <1>1, BoundsAssumption DEF None, Content
<1>3. Holds(op', romm, deck', playing, backups, slipped)
  BY <1>1, IdleOp, PlainHolds
<1> QED BY <1>1, <1>2, <1>3, IdleOp, DeckStep DEF IInv, TypeOK, bounds

LEMMA EmulatorStartsStep == ASSUME IInv, EmulatorStarts PROVE IInv'
<1>1. playing' = TRUE /\ held' = deck.content /\ op' = [op EXCEPT !.late = op.late \/ op.pc \in Looked]
      /\ UNCHANGED <<deck, server, disk, call, bounds, slipped>>
  BY DEF EmulatorStarts, Overtakes
<1>2. op \in Op /\ Holds(op, romm, deck, playing, backups, slipped)
  BY DEF IInv, TypeOK
<1>3. (op.late \/ op.pc \in Looked) \in BOOLEAN
  BY <1>2 DEF Op
<1>4. op' \in Op /\ op'.pc = op.pc /\ op'.id = op.id /\ op'.local = op.local /\ op'.new = op.new
      /\ (op'.pc \in Looked => op'.late)
  BY <1>1, <1>2, <1>3 DEF Op
<1>5. Holds(op', romm, deck, playing', backups, slipped)
  BY <1>2, <1>4 DEF Holds
<1>6. deck \in [content : Content, at : Nat] /\ deck.content \in Content
  BY DEF IInv, TypeOK
<1> QED BY <1>1, <1>4, <1>5, <1>6, DeckStep DEF IInv, TypeOK, bounds

\* The emulator runs, so that the operation under way doesn't count on the save it looked at; what it
\* writes before a download's second look is noted.
LEMMA EmulatorSaves ==
  ASSUME IInv, playing, NEW c \in Contents, NEW t \in Now, deck' = [content |-> c, at |-> t], Slips(c),
         playing' \in BOOLEAN, held' \in Content, made' \in Content, UNCHANGED <<server, disk, op, call>>
  PROVE  IInv'
<1>1. deck' \in [content : Content, at : Nat] /\ deck'.content = c
  BY NowIs DEF Contents, Content
<1>2. slipped \subseteq slipped' /\ slipped' \subseteq Contents
  BY DEF Slips, IInv, TypeOK
<1>3. op \in Op /\ Holds(op, romm, deck, playing, backups, slipped)
  BY DEF IInv, TypeOK
<1>4. Sound(op.new, romm, slipped')
  BY <1>2, <1>3, GrowsSame, SoundStays DEF Holds
<1>5. op.pc \in {"confirm", "reread"} => c \in slipped'
  BY DEF Slips
<1>6. Holds(op, romm, deck', playing', backups, slipped')
  BY <1>1, <1>2, <1>3, <1>4, <1>5 DEF Holds
<1> QED BY <1>1, <1>2, <1>3, <1>6, DeckStep

LEMMA EmulatorWritesStep == ASSUME IInv, EmulatorWrites PROVE IInv'
<1>1. playing /\ made < MaxContents /\ made' = made + 1 /\ held' = made' /\ Slips(made') /\ UNCHANGED <<playing, server, disk, op, call>>
  BY DEF EmulatorWrites
<1>2. PICK t \in Now : deck' = [content |-> made', at |-> t]
  BY DEF EmulatorWrites
<1>3. made' \in Contents /\ made' \in Content
  BY <1>1, BoundsAssumption DEF IInv, TypeOK, Content, Contents
<1> QED BY <1>1, <1>2, <1>3, EmulatorSaves DEF IInv, TypeOK

LEMMA EmulatorClosesStep == ASSUME IInv, EmulatorCloses PROVE IInv'
<1>1. playing /\ playing' = FALSE /\ held' = None /\ UNCHANGED <<server, disk, op, call, bounds>>
  BY DEF EmulatorCloses
<1>2. held' \in Content /\ made' \in Content
  BY <1>1, BoundsAssumption DEF IInv, TypeOK, bounds, None, Content
<1>3. CASE UNCHANGED <<deck, slipped>>
  <2>1. Holds(op, romm, deck, playing', backups, slipped)
    BY <1>1 DEF IInv, Holds
  <2> QED BY <1>1, <1>2, <1>3, <2>1, DeckStep DEF IInv, TypeOK
<1>4. CASE held # None /\ Slips(held) /\ \E t \in Now : deck' = [content |-> held, at |-> t]
  <2>1. held \in Contents
    BY <1>4 DEF IInv, TypeOK, Content, Contents, None
  <2> QED BY <1>1, <1>2, <1>4, <2>1, EmulatorSaves
<1> QED BY <1>3, <1>4 DEF EmulatorCloses

\* RomM's saves change by themselves, and keep what they hold.
LEMMA RommStep ==
  ASSUME IInv, romm' \in Seq(Version), Grows(romm, romm'), made' \in Content,
         UNCHANGED <<deck, playing, held, known, disk, op, call, slipped>>
  PROVE  IInv'
<1>1. Ids \subseteq Ids'
  BY DEF Grows, Ids
<1>2. TypeOK'
  BY <1>1 DEF IInv, TypeOK, disk
<1>3. Sound(rec, romm', slipped) /\ Sound(op.new, romm', slipped)
  BY SoundStays DEF IInv, Holds
<1>4. Holds(op, romm', deck, playing, backups, slipped)
  <2>1. Holds(op, romm, deck, playing, backups, slipped)
    BY DEF IInv
  <2>2. op.pc \in {"confirm", "reread"} => romm'[op.id].content = romm[op.id].content
    BY <2>1 DEF Holds, Downloading, Grows
  <2>3. op.pc = "set" => op.local \in slipped \cup {None} \/ \E v \in DOMAIN romm' : romm'[v].content = op.local
    BY <2>1 DEF Holds, Grows
  <2>4. op.id \in DOMAIN romm' \cup {0}
    BY <2>1 DEF Holds, Grows
  <2> QED BY <1>3, <2>1, <2>2, <2>3, <2>4 DEF Holds
<1> QED BY <1>2, <1>3, <1>4 DEF IInv, disk

LEMMA OtherDeviceStep == ASSUME IInv, NEW s \in Slots, OtherDevice(s) PROVE IInv'
<1>1. /\ made < MaxContents /\ made' = made + 1 /\ romm' = Stored(made', s)
      /\ UNCHANGED <<deck, playing, held, known, disk, op, call, slipped>>
  BY DEF OtherDevice
<1>2. made' \in Contents /\ made' \in Content
  BY <1>1, BoundsAssumption DEF IInv, TypeOK, Content, Contents
<1>3. romm' \in Seq(Version) /\ Grows(romm, romm')
  BY <1>1, <1>2, StoredGrows DEF IInv
<1> QED BY <1>1, <1>2, <1>3, RommStep

LEMMA RommDeletesStep == ASSUME IInv, NEW v \in Ids, RommDeletes(v) PROVE IInv'
<1>1. romm' = [romm EXCEPT ![v].gone = TRUE] /\ UNCHANGED <<deck, playing, held, known, disk, op, call, made, slipped>>
  BY DEF RommDeletes
<1> DEFINE e == [romm[v] EXCEPT !.gone = TRUE]
<1>2. romm \in Seq(Version) /\ v \in 1 .. Len(romm) /\ DOMAIN romm = 1 .. Len(romm)
  BY LenProperties DEF IInv, TypeOK, Ids
<1>3. romm[v] \in Version
  BY <1>2, ElementOfSeq
<1>4. e \in Version /\ e.content = romm[v].content /\ e.slot = romm[v].slot
  BY <1>3 DEF Version
<1>5. romm' = [romm EXCEPT ![v] = e]
  BY <1>1
<1> HIDE DEF e
<1>6. romm' \in Seq(Version) /\ Len(romm') = Len(romm) /\ \A w \in 1 .. Len(romm) : romm'[w] = IF w = v THEN e ELSE romm[w]
  BY <1>2, <1>4, <1>5, ExceptSeq
<1>7. DOMAIN romm' = 1 .. Len(romm)
  BY <1>6, LenProperties
<1>8. Grows(romm, romm')
  BY <1>2, <1>4, <1>6, <1>7 DEF Grows
<1> QED BY <1>1, <1>6, <1>8, RommStep DEF IInv, TypeOK

LEMMA RestartStep == ASSUME IInv, Restart PROVE IInv'
<1>1. op' = Idle /\ call' = NoCall /\ UNCHANGED <<deck, playing, held, server, disk, made, slipped>>
  BY DEF Restart
<1> QED BY <1>1, IdleOp, NoCallIs, PlainHolds, OpStep DEF IInv, TypeOK, server, disk

LEMMA StutterStep == ASSUME IInv, UNCHANGED vars PROVE IInv'
BY CallStep DEF vars, bounds, IInv, TypeOK

LEMMA NextInv == IInv /\ [Next]_vars => IInv'
<1> SUFFICES ASSUME IInv, [Next]_vars PROVE IInv'
  OBVIOUS
<1>1. CASE Goes
  BY <1>1, AskStep, UploadRefusedStep, UploadStep, ParkStep, WaitsStep, CheckStep, FetchStep, WriteStep, ConfirmStep,
     RereadStep, PutRecordStep, SwitchSetsStep, RestoreWritesStep, DeleteRemovesStep, AskFailsStep, UploadFailsStep,
     DownloadFailsStep DEF Goes
<1>2. CASE Calls
  BY <1>2, LeaveStep, SwitchReadsStep, RestoreReadsStep, DeleteReadsStep DEF Calls
<1>3. CASE Sync \/ Choose \/ Resolve("keepDeck") \/ Resolve("keepServer") \/ RestoreAsked \/ DeleteAsked \/ Restart
  BY <1>3, SyncStep, ChooseStep, ResolveStep, RestoreAskedStep, DeleteAskedStep, RestartStep
<1>4. CASE EmulatorStarts \/ EmulatorWrites \/ EmulatorCloses
  BY <1>4, EmulatorStartsStep, EmulatorWritesStep, EmulatorClosesStep
<1>5. CASE \E s \in Slots : SwitchAsked(s) \/ OtherDevice(s)
  BY <1>5, SwitchAskedStep, OtherDeviceStep
<1>6. CASE \E v \in Ids : RommDeletes(v)
  BY <1>6, RommDeletesStep
<1>7. CASE UNCHANGED vars
  BY <1>7, StutterStep
<1> QED BY <1>1, <1>2, <1>3, <1>4, <1>5, <1>6, <1>7 DEF Next

THEOREM Invariance == Spec => []IInv
BY InitInv, NextInv, PTL DEF Spec

-----------------------------------------------------------------------------
(* What follows. *)

\* Every variable keeps to its type: the backups to Keep, and no more saves known than RomM has.
THEOREM TypesHold == Spec => []TypeOK
<1>1. IInv => TypeOK
  BY DEF IInv
<1> QED BY <1>1, Invariance, PTL

\* A record's two sides were the same save, unless an emulator wrote into the look after a download
\* (saves.go:989), and what it says is parked is on RomM in no slot (conflicts.go:11).
THEOREM RecordTrueHolds == Spec => []RecordTrue
<1>1. IInv => SidesTrue
  BY DEF IInv, Sound, SidesTrue, Was, Ids
<1>2. IInv => Parked
  BY DEF IInv, Sound, Parked, Ids
<1> QED BY <1>1, <1>2, Invariance, PTL DEF RecordTrue

\* A save that's replaced or removed is among the game's backups, or none, unless an emulator started
\* after the plugin looked (saves.go:957).
THEOREM ReplacedKeptHolds == Spec => ReplacedKept
<1>1. IInv => (Replaces => deck.content = None \/ op.late \/ Held(deck.content))
  <2> SUFFICES ASSUME IInv, Replaces, ~op.late PROVE deck.content = None \/ Held(deck.content)
    OBVIOUS
  <2>1. op.pc \in Replacing /\ op.pc \in Looked
    BY DEF Replaces, Replacing, Looked
  <2>2. deck.content = op.local
    BY <2>1 DEF IInv, Holds
  <2> QED BY <2>1, <2>2 DEF IInv, Holds, Held
<1>2. IInv /\ [Next]_vars => [Replaces => deck.content = None \/ op.late \/ Held(deck.content)]_vars
  BY <1>1
<1> QED BY <1>2, Invariance, PTL DEF Spec, ReplacedKept

\* A switch of slot leaves a save behind only where RomM was given it (saveslots.go:41).
THEOREM SwitchStrandsHolds == Spec => SwitchStrands
<1> DEFINE A == slot' # slot /\ op.pc = "set" /\ deck.content = op.local /\ op.local \notin slipped \cup {None}
                => \E v \in Ids : romm[v].content = op.local
<1>1. IInv => A
  BY DEF IInv, Holds, Ids
<1>2. IInv /\ [Next]_vars => [A]_vars
  BY <1>1
<1> QED BY <1>2, Invariance, PTL DEF Spec, SwitchStrands

=============================================================================
