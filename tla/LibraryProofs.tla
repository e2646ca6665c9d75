----------------------------- MODULE LibraryProofs -----------------------------
(* Theorems of Library, for every number of ids, page size, and number of  *)
(* changes, calls and faults.                                              *)
EXTENDS Library, FiniteSetTheorems, WellFoundedInduction, TLAPS

-----------------------------------------------------------------------------
(* Numbers. *)

\* A set of numbers has a least one.
LEMMA HasLeast ==
  ASSUME NEW S \in SUBSET Nat, S # {}
  PROVE  \E k \in S : \A j \in S : k <= j
<1> DEFINE R == OpToRel(<, Nat)
<1>1. PICK k \in S : \A j \in S : ~(<<j, k>> \in R)
  <2> HIDE DEF R
  <2>1. IsWellFoundedOn(R, Nat)
    BY NatLessThanWellFounded DEF R
  <2> QED BY <2>1, WFMin
<1>2. ASSUME NEW j \in S, j < k PROVE <<j, k>> \in R
  <2>1. <<j, k>> \in Nat \X Nat /\ <<j, k>>[1] = j /\ <<j, k>>[2] = k
    OBVIOUS
  <2>2. <<j, k>>[1] < <<j, k>>[2]
    BY <1>2
  <2> QED BY Zenon, <2>1, <2>2 DEF OpToRel
<1>3. \A j \in S : ~(j < k)
  BY Zenon, <1>1, <1>2
<1> QED BY <1>3

\* One with a bound has a greatest.
LEMMA HasGreatest ==
  ASSUME NEW n \in Nat, NEW S \in SUBSET (0 .. n), S # {}
  PROVE  MaxOf(S) \in S /\ \A m \in S : m <= MaxOf(S)
<1> DEFINE Back == {n - m : m \in S}
<1>1. Back # {} /\ Back \in SUBSET Nat
  <2>1. \A m \in S : m \in Nat /\ m <= n
    OBVIOUS
  <2>2. \A m \in S : n - m \in Nat
    BY <2>1
  <2> QED BY <2>2
<1> HIDE DEF Back
<1>2. PICK k \in Back : \A j \in Back : k <= j
  BY <1>1, HasLeast
<1>3. PICK m \in S : k = n - m
  BY <1>2 DEF Back
<1>4. ASSUME NEW w \in S PROVE w <= m
  <2>1. n - w \in Back
    BY DEF Back
  <2> QED BY <1>2, <1>3, <2>1
<1> QED BY <1>3, <1>4 DEF MaxOf

-----------------------------------------------------------------------------
(* Pages. *)

LEMMA IdsFinite == MaxId \in Nat /\ PageSize \in Nat /\ PageSize > 0 /\ IsFiniteSet(Ids) /\ Ids \subseteq Nat
<1>1. MaxId \in Nat /\ PageSize \in Nat /\ PageSize > 0
  BY BoundsAssumption
<1> QED BY <1>1, FS_Interval DEF Ids

\* How many of a set of ids come before one.
LEMMA BeforeNat ==
  ASSUME NEW S \in SUBSET Ids, NEW i \in Ids
  PROVE  Before(S, i) \in Nat /\ IsFiniteSet({j \in S : j < i})
<1>1. IsFiniteSet(S)
  BY IdsFinite, FS_Subset
<1>2. IsFiniteSet({j \in S : j < i})
  BY <1>1, FS_Subset
<1> QED BY <1>2, FS_CardinalityType DEF Before

LEMMA BeforeLess ==
  ASSUME NEW S \in SUBSET Ids, NEW i \in S, NEW j \in Ids, i < j
  PROVE  Before(S, i) < Before(S, j)
<1> DEFINE A == {w \in S : w < i}
           B == {w \in S : w < j}
<1>1. IsFiniteSet(A) /\ IsFiniteSet(B) /\ Before(S, i) = Cardinality(A) /\ Before(S, j) = Cardinality(B)
      /\ Before(S, i) \in Nat /\ Before(S, j) \in Nat
  BY BeforeNat DEF Before
<1>2. A \cup {i} \subseteq B /\ i \notin A
  <2>1. \A w \in S : w \in Nat
    BY IdsFinite
  <2>2. i \in S /\ ~(i < i) /\ \A w \in S : w < i => w < j
    BY <2>1, IdsFinite
  <2> QED BY <2>2
<1> HIDE DEF A, B
<1>3. IsFiniteSet(A \cup {i}) /\ Cardinality(A \cup {i}) = Cardinality(A) + 1
  BY <1>1, <1>2, FS_AddElement
<1>4. Cardinality(A \cup {i}) <= Cardinality(B)
  BY <1>1, <1>2, FS_Subset
<1> QED BY <1>1, <1>3, <1>4

\* Every place before one that is taken is taken.
LEMMA PlacesTaken ==
  ASSUME NEW S \in SUBSET Ids, NEW i \in S, NEW k \in Nat, k <= Before(S, i)
  PROVE  \E j \in S : Before(S, j) = k
<1> DEFINE T == {j \in S : k <= Before(S, j)}
<1>1. T \in SUBSET Nat /\ i \in T
  BY IdsFinite
<1> HIDE DEF T
<1>2. PICK m \in T : \A j \in T : m <= j
  BY <1>1, HasLeast
<1>3. m \in S /\ k <= Before(S, m) /\ Before(S, m) \in Nat /\ m \in Ids /\ m \in Nat
  BY <1>2, BeforeNat, IdsFinite DEF T
<1>4. ASSUME k < Before(S, m) PROVE FALSE
  <2> DEFINE A == {w \in S : w < m}
  <2>1. IsFiniteSet(A) /\ Before(S, m) = Cardinality(A) /\ A # {}
    BY <1>3, <1>4, BeforeNat, FS_EmptySet DEF Before
  <2>2. A \in SUBSET (0 .. m) /\ S \subseteq Nat
    <3>1. S \subseteq Nat /\ m \in Nat
      BY <1>3, IdsFinite
    <3>2. \A w \in S : w < m => w \in 0 .. m
      BY <3>1
    <3> QED BY <3>1, <3>2
  <2> HIDE DEF A
  <2>3. PICK p \in A : \A w \in A : w <= p
    BY <1>3, <2>1, <2>2, HasGreatest
  <2> DEFINE B == {w \in S : w < p}
  <2>4. p \in S /\ p < m /\ p \in Ids
    BY <2>3 DEF A
  <2>5. A = B \cup {p} /\ p \notin B
    <3>1. p \in Nat /\ m \in Nat /\ S \subseteq Nat
      BY <1>3, <2>2, <2>4
    <3>2. \A w \in S : w < m <=> w = p \/ w < p
      BY <2>3, <2>4, <3>1 DEF A
    <3>3. ~(p < p)
      BY <3>1
    <3> QED BY <2>4, <3>2, <3>3 DEF A
  <2>6. IsFiniteSet(B) /\ Cardinality(B) = Before(S, p) /\ Before(S, p) \in Nat
    BY <2>4, BeforeNat DEF Before
  <2> HIDE DEF B
  <2>7. Before(S, m) = Before(S, p) + 1
    BY <2>1, <2>5, <2>6, FS_AddElement
  <2>8. p \in T
    BY <1>3, <1>4, <2>4, <2>6, <2>7 DEF T
  <2> QED BY <1>2, <1>3, <2>4, <2>8, IdsFinite
<1> QED BY <1>3, <1>4

\* A page that isn't full is the last.
LEMMA LastPage ==
  ASSUME NEW S \in SUBSET Ids, NEW from \in Nat, NEW page,
         page = {i \in S : Before(S, i) >= from /\ Before(S, i) < from + PageSize},
         Cardinality(page) # PageSize
  PROVE  \A i \in S : Before(S, i) < from + PageSize
<1> SUFFICES ASSUME NEW i \in S, ~(Before(S, i) < from + PageSize) PROVE FALSE
  OBVIOUS
<1> DEFINE places == from .. (from + PageSize - 1)
           f == [j \in page |-> Before(S, j)]
<1>1. PageSize \in Nat /\ PageSize > 0 /\ \A j \in S : Before(S, j) \in Nat
  BY IdsFinite, BeforeNat
<1>2. IsFiniteSet(places) /\ Cardinality(places) = PageSize
  <2> DEFINE to == from + PageSize - 1
  <2>1. from \in Int /\ to \in Int /\ ~(from > to) /\ to - from + 1 = PageSize
    BY <1>1
  <2> HIDE DEF to
  <2>2. IsFiniteSet(from .. to) /\ Cardinality(from .. to) = PageSize
    BY <2>1, FS_Interval
  <2> QED BY <2>2 DEF to
<1>3. f \in [page -> places]
  BY <1>1
<1>4. ASSUME NEW j \in page, NEW k \in page, f[j] = f[k] PROVE j = k
  <2>1. j \in S /\ k \in S /\ Before(S, j) = Before(S, k) /\ j \in Nat /\ k \in Nat
    BY <1>4, IdsFinite
  <2>2. ~(j < k) /\ ~(k < j)
    BY <1>1, <2>1, BeforeLess
  <2> QED BY <2>1, <2>2
<1>5. ASSUME NEW k \in places PROVE \E j \in page : f[j] = k
  <2>1. k \in Nat /\ k <= Before(S, i) /\ from <= k /\ k < from + PageSize
    BY <1>1
  <2>2. PICK j \in S : Before(S, j) = k
    BY <2>1, PlacesTaken
  <2> QED BY <2>1, <2>2
<1> HIDE DEF f, places
<1>6. f \in Injection(page, places)
  BY <1>3, <1>4 DEF Injection, IsInjective
<1>7. f \in Surjection(page, places)
  BY <1>3, <1>5 DEF Surjection
<1>8. Cardinality(page) = Cardinality(places)
  BY <1>2, <1>6, <1>7, FS_Injection
<1> QED BY <1>2, <1>8
-----------------------------------------------------------------------------
(* The inductive invariant. *)

\* A refresh that read the sign-in and the cursor, and hasn't applied what it received.
Reading == run.pc \in {"page", "ids", "gone", "match", "apply"}

\* Types, and what holds of each variable by itself.
Types ==
  /\ TypeOK
  /\ signin.active => signin.address # NoServer
  /\ call.pc = "off" => call = NoCall
  /\ run.pc = "sync" => run = [Off EXCEPT !.pc = "sync"]
  /\ Reading => run.address # NoServer
  /\ \A i \in Ids : rec[i] # NoRecord => rec[i].content # None

\* RomM's clock is ahead of everything, and a game of RomM's changed once at least.
Clock ==
  /\ \A s \in Addresses, i \in Ids : romm[s][i].at <= Now /\ (romm[s][i].content # None => romm[s][i].at > 0)
  /\ cursor <= Now

\* A Catalog that was never synced, or cleared since, is empty.
Blank ==
  /\ ~synced => Shown = {} /\ cursor = 0
  /\ \A i \in Ids : roms[i].of = NoServer => roms[i] = NoRow

\* The Catalog is of the server signed in to: no call changed it, or the Catalog was emptied since.
Quiet == ~late /\ call.pc \in {"off", "wait", "last"}

\* Games the Catalog has are ones RomM had.
Had == Quiet /\ signin.address # NoServer => \A i \in Shown : At(signin.address)[i].at > 0

\* The cursor passes nothing the Catalog lacks.
CursorHolds ==
  Quiet /\ ~shifted /\ signin.address # NoServer =>
    \A i \in Has(signin.address) :
      At(signin.address)[i].at <= cursor => i \in Shown /\ roms[i].at = At(signin.address)[i].at

\* Marked games are gone.
MarkedGone ==
  Quiet /\ signin.address # NoServer => \A i \in Has(signin.address) : ~roms[i].removed

CatalogInv == Clock /\ Blank /\ Had /\ CursorHolds /\ MarkedGone

\* A game received changed after the cursor, and not before what was received of it.
Dated ==
  Reading => /\ run.cursor <= Now
             /\ \A i \in Ids : run.got[i] > 0 => run.got[i] > run.cursor /\ run.got[i] <= At(run.address)[i].at

\* While pages come, the games before the offset were received as they are.
PagesReceived ==
  ~shifted /\ run.pc = "page" =>
    \A i \in Ids :
      run.got[i] = IF /\ i \in Changed(run.address, run.cursor)
                      /\ Before(Changed(run.address, run.cursor), i) < run.offset
                   THEN At(run.address)[i].at ELSE 0

\* A game changed later than all that was received.
Newer(i) == At(run.address)[i].at > run.cursor /\ \A j \in Ids : At(run.address)[i].at > run.got[j]

\* Once they came: what changed since the cursor was received as it is, or changed later.
AllReceived ==
  ~shifted /\ run.pc \in {"ids", "gone", "match", "apply"} =>
    \A i \in Changed(run.address, run.cursor) : run.got[i] = At(run.address)[i].at \/ Newer(i)

\* What RomM has is listed, or came to it later.
IdsListed ==
  run.pc \in {"gone", "match", "apply"} /\ ~run.full =>
    \A i \in Has(run.address) : i \in run.keep \/ Newer(i)

\* Records that are looked for or stay are of games neither received nor listed.
RetainedApart ==
  run.pc \in {"match", "apply"} =>
    /\ Looked \cap (Received(run) \cup run.keep) = {}
    /\ run.retain \cap (Received(run) \cup run.keep) = {}

RefreshInv == Dated /\ PagesReceived /\ AllReceived /\ IdsListed /\ RetainedApart

\* The refresh is of the server signed in to, and goes on from where the last one left off.
SameServer == Quiet /\ Reading => run.address = signin.address /\ run.cursor = cursor

\* A full refresh is of an empty Catalog, another one isn't.
FullBlank ==
  /\ Reading /\ run.full => ~synced
  /\ Quiet /\ Reading /\ ~run.full => synced

\* A game of the Catalog's that RomM has is listed.
ShownListed ==
  Quiet /\ run.pc \in {"gone", "match", "apply"} /\ ~run.full =>
    \A i \in Shown \cap Has(run.address) : i \in run.keep

\* Recorded games of the Catalog's that RomM didn't list are looked for, or stay.
OthersStay ==
  Quiet /\ run.pc \in {"match", "apply"} /\ ~run.full =>
    \A i \in (run.known \cap OwnedIDs \cap Shown) \ (Received(run) \cup run.keep) :
      i \in run.retain \/ (run.pc = "match" /\ i \in Looked)

JointInv == SameServer /\ FullBlank /\ ShownListed /\ OthersStay

\* A server that is being forgotten, and one that is.
Leaving ==
  ~late =>
    /\ call.forgets /\ call.pc \in {"drop", "stop", "empty", "last"} => \A i \in Ids : jobs[i] = "none"
    /\ call.forgets /\ call.pc \in {"stop", "empty", "last"} => OwnedIDs = {} /\ run.pc # "match"
    /\ signin.address = NoServer => /\ ~synced /\ OwnedIDs = {} /\ ~Reading
                                    /\ \A i \in Ids : jobs[i] = "none"

Inv == Types /\ CatalogInv /\ RefreshInv /\ JointInv /\ Leaving

-----------------------------------------------------------------------------
(* What a step leaves alone. *)

LEMMA CatalogOn ==
  ASSUME CatalogInv, UNCHANGED <<same, romm, roms, cursor, synced, changes, shifted>>,
         Quiet' /\ signin'.address # NoServer => Quiet /\ signin'.address = signin.address
  PROVE  CatalogInv'
<1>1. Clock' /\ Blank'
  BY DEF CatalogInv, Clock, Blank, Shown, Now
<1>2. Had' /\ MarkedGone'
  BY DEF CatalogInv, Had, MarkedGone, Shown, At, Has
<1>3. CursorHolds'
  BY DEF CatalogInv, CursorHolds, Shown, At, Has
<1> QED BY <1>1, <1>2, <1>3 DEF CatalogInv

LEMMA RefreshOn == RefreshInv /\ UNCHANGED <<run, same, romm, changes, shifted>> => RefreshInv'
<1> SUFFICES ASSUME RefreshInv, UNCHANGED <<run, same, romm, changes, shifted>> PROVE RefreshInv'
  OBVIOUS
<1>1. Dated' /\ RetainedApart'
  BY DEF RefreshInv, Dated, RetainedApart, Reading, Now, At, Looked, Received
<1>2. PagesReceived'
  BY DEF RefreshInv, PagesReceived, At, Changed, Has
<1>3. AllReceived' /\ IdsListed'
  BY DEF RefreshInv, AllReceived, IdsListed, Newer, At, Changed, Has
<1> QED BY <1>1, <1>2, <1>3 DEF RefreshInv

LEMMA JointOn ==
  ASSUME JointInv, UNCHANGED <<run, same, romm, roms, cursor, synced>>, OwnedIDs' \subseteq OwnedIDs,
         Quiet' => Quiet /\ signin'.address = signin.address
  PROVE  JointInv'
<1>1. SameServer' /\ FullBlank'
  BY DEF JointInv, SameServer, FullBlank, Reading
<1>2. ShownListed'
  BY DEF JointInv, ShownListed, Shown, Has, At
<1>3. OthersStay'
  BY DEF JointInv, OthersStay, Shown, Received, Looked
<1> QED BY <1>1, <1>2, <1>3 DEF JointInv

\* No refresh reads.
LEMMA NotReading == run'.pc \in {"off", "sync", "end"} => RefreshInv' /\ JointInv'
<1> SUFFICES ASSUME run'.pc \in {"off", "sync", "end"} PROVE RefreshInv' /\ JointInv'
  OBVIOUS
<1>1. ~Reading'
  BY DEF Reading
<1>2. RefreshInv'
  BY <1>1 DEF RefreshInv, Dated, PagesReceived, AllReceived, IdsListed, RetainedApart, Reading
<1>3. JointInv'
  BY <1>1 DEF JointInv, SameServer, FullBlank, ShownListed, OthersStay, Reading
<1> QED BY <1>2, <1>3

-----------------------------------------------------------------------------
(* The calls, the sign-in, and the Deck: the refresh and the Catalog stay. *)

LEMMA Around ==
  ASSUME Inv, UNCHANGED <<same, romm, roms, cursor, synced, run, changes, shifted>>,
         TypeOK', signin'.active => signin'.address # NoServer, call'.pc = "off" => call' = NoCall,
         OwnedIDs' \subseteq OwnedIDs, \A i \in Ids : rec'[i] # NoRecord => rec'[i].content # None,
         Quiet' => Quiet /\ signin'.address = signin.address, Leaving'
  PROVE  Inv'
<1>1. Types'
  BY DEF Inv, Types, Reading
<1>2. CatalogInv'
  BY CatalogOn DEF Inv
<1>3. RefreshInv' /\ JointInv'
  BY RefreshOn, JointOn DEF Inv
<1> QED BY <1>1, <1>2, <1>3 DEF Inv

\* The sign-in, the records and the queue stay as well.
LEMMA AroundCall ==
  ASSUME Inv, UNCHANGED <<same, romm, signin, roms, cursor, synced, run, rec, jobs, changes, faults, shifted>>,
         problem' \in Kinds, retry' \in BOOLEAN, call' \in Call, calls' \in 0 .. MaxCalls, late' = late,
         call'.pc = "off" => call' = NoCall, Quiet' => Quiet, Leaving'
  PROVE  Inv'
<1>1. TypeOK'
  BY DEF Inv, Types, TypeOK
<1>2. /\ signin'.active => signin'.address # NoServer
      /\ \A i \in Ids : rec'[i] # NoRecord => rec'[i].content # None
  BY DEF Inv, Types
<1>3. OwnedIDs' \subseteq OwnedIDs
  BY DEF OwnedIDs
<1> QED BY <1>1, <1>2, <1>3, Around

LEMMA CallSteps ==
  ASSUME Inv,
         \/ Waited \/ ForgetServer \/ StopRetry \/ EmptyFails \/ ClearCache \/ Forget \/ Lapses \/ ForgetSignIn
         \/ \E a \in Addresses : Move(a) \/ SignIn(a)
  PROVE  Inv'
<1> USE DEF catalog, timer, deck, bounds, aux
<1>1. /\ Types /\ TypeOK /\ call \in Call /\ signin \in [address : {NoServer} \cup Addresses, active : BOOLEAN]
      /\ NoCall \in Call /\ retry \in BOOLEAN /\ problem \in Kinds /\ calls \in 0 .. MaxCalls /\ MaxCalls \in Nat
      /\ faults \in 0 .. MaxFaults /\ MaxFaults \in Nat /\ jobs \in [Ids -> Jobs] /\ rec \in [Ids -> Record]
      /\ late \in BOOLEAN
  BY BoundsAssumption DEF Inv, Types, TypeOK, Call, NoCall
<1>2. /\ signin.active => signin.address # NoServer
      /\ call.pc = "off" => call = NoCall
      /\ \A i \in Ids : rec[i] # NoRecord => rec[i].content # None
      /\ NoCall.pc = "off" /\ ~NoCall.forgets
  BY <1>1 DEF Types, NoCall
<1>3. CASE Waited
  <2>1. /\ UNCHANGED <<same, romm, signin, roms, cursor, synced, run, rec, jobs, changes, faults, shifted, late>>
        /\ UNCHANGED <<problem, retry, calls>> /\ call.pc = "wait"
        /\ \/ (\A i \in Ids : jobs[i] = "none") /\ call' = [call EXCEPT !.pc = "drop"]
           \/ call' = NoCall
    BY <1>3 DEF Waited, Then
  <2>2. call' \in Call /\ (call'.pc = "off" => call' = NoCall)
    BY <1>1, <2>1 DEF Call
  <2>3. \/ (\A i \in Ids : jobs[i] = "none") /\ call'.pc = "drop"
        \/ call'.pc = "off" /\ ~call'.forgets
    BY <1>1, <1>2, <2>1 DEF Call
  <2>4. Leaving'
    BY <2>1, <2>3 DEF Inv, Leaving, OwnedIDs, Reading
  <2>5. Quiet' => Quiet
    BY <2>1 DEF Quiet
  <2> QED BY <1>1, <2>1, <2>2, <2>4, <2>5, AroundCall
<1>4. CASE StopRetry
  <2>1. /\ UNCHANGED <<same, romm, signin, roms, cursor, synced, run, rec, jobs, changes, faults, shifted, late>>
        /\ retry' = FALSE /\ problem' = "none" /\ calls' = calls /\ call.pc = "stop"
        /\ call' = [call EXCEPT !.pc = "empty"]
    BY <1>4 DEF StopRetry, Then
  <2>2. call' \in Call /\ call'.pc = "empty" /\ call'.forgets = call.forgets
    BY <1>1, <2>1 DEF Call
  <2>3. problem' \in Kinds /\ retry' \in BOOLEAN
    BY <2>1 DEF Kinds
  <2>4. Leaving'
    BY <2>1, <2>2 DEF Inv, Leaving, OwnedIDs, Reading
  <2>5. ~Quiet'
    BY <2>2 DEF Quiet
  <2> QED BY <1>1, <2>1, <2>2, <2>3, <2>4, <2>5, AroundCall
<1>5. ASSUME NEW forgets \in BOOLEAN, NEW pc \in {"stop", "wait"}, Calls(forgets, pc)
      PROVE  /\ call.pc = "off" /\ calls' \in 0 .. MaxCalls /\ call' \in Call
             /\ call'.pc = pc /\ call'.forgets = forgets
  BY <1>1, <1>2, <1>5 DEF Calls, Call
<1>6. CASE ClearCache
  <2>1. /\ UNCHANGED <<same, romm, signin, roms, cursor, synced, run, rec, jobs, changes, faults, shifted, late>>
        /\ UNCHANGED <<problem, retry>> /\ Calls(FALSE, "stop")
    BY <1>6 DEF ClearCache
  <2>2. call' \in Call /\ calls' \in 0 .. MaxCalls /\ call'.pc = "stop" /\ ~call'.forgets
    BY <1>5, <2>1
  <2>3. Leaving'
    BY <2>1, <2>2 DEF Inv, Leaving, OwnedIDs, Reading
  <2>4. ~Quiet'
    BY <2>2 DEF Quiet
  <2> QED BY <1>1, <2>1, <2>2, <2>3, <2>4, AroundCall
<1>7. CASE Forget
  <2>1. /\ UNCHANGED <<same, romm, signin, roms, cursor, synced, run, problem, retry, rec, changes, faults, shifted, late>>
        /\ jobs' = [i \in Ids |-> IF jobs[i] = "none" THEN "none" ELSE "cancelled"]
        /\ Calls(TRUE, "wait") /\ signin.address # NoServer
    BY <1>7 DEF Forget
  <2>2. call' \in Call /\ calls' \in 0 .. MaxCalls /\ call.pc = "off" /\ call'.pc = "wait"
    BY <1>5, <2>1
  <2>3. jobs' \in [Ids -> Jobs]
    BY <2>1 DEF Jobs
  <2>4. TypeOK'
    BY <1>1, <2>1, <2>2, <2>3 DEF TypeOK
  <2>5. Leaving'
    BY <2>1, <2>2 DEF Leaving
  <2>6. (Quiet' => Quiet) /\ OwnedIDs' \subseteq OwnedIDs
    BY <2>1, <2>2 DEF Quiet, OwnedIDs
  <2> QED BY <1>2, <2>1, <2>2, <2>4, <2>5, <2>6, Around
<1>8. CASE ForgetServer
  <2>1. /\ UNCHANGED <<same, romm, signin, roms, cursor, synced, run, problem, retry, jobs, calls, changes, faults, shifted>>
        /\ rec' = [i \in Ids |-> NoRecord] /\ late' = (late \/ run.pc = "match")
        /\ call.pc = "drop" /\ call' = [call EXCEPT !.pc = "stop"]
    BY <1>8 DEF ForgetServer, Then
  <2>2. call' \in Call /\ call'.pc = "stop" /\ call'.forgets = call.forgets
    BY <1>1, <2>1 DEF Call
  <2>3. rec' \in [Ids -> Record] /\ OwnedIDs' = {} /\ late' \in BOOLEAN
    BY <1>1, <2>1 DEF Record, NoRecord, OwnedIDs
  <2>4. TypeOK'
    BY <1>1, <2>1, <2>2, <2>3 DEF TypeOK
  <2>5. Leaving'
    BY <2>1, <2>2, <2>3 DEF Inv, Leaving, Reading
  <2>6. ~Quiet' /\ \A i \in Ids : rec'[i] = NoRecord
    BY <2>1, <2>2 DEF Quiet
  <2> QED BY <1>2, <2>1, <2>2, <2>3, <2>4, <2>5, <2>6, Around
<1>9. CASE EmptyFails
  <2>1. /\ UNCHANGED <<same, romm, signin, roms, cursor, synced, run, problem, retry, rec, jobs, calls, changes, shifted>>
        /\ faults' \in 0 .. MaxFaults /\ late' = TRUE /\ call' = NoCall
    BY <1>1, <1>9 DEF EmptyFails
  <2>2. TypeOK'
    BY <1>1, <2>1 DEF TypeOK
  <2>3. Leaving' /\ ~Quiet' /\ OwnedIDs' \subseteq OwnedIDs
    BY <2>1 DEF Leaving, Quiet, OwnedIDs
  <2> QED BY <1>2, <2>1, <2>2, <2>3, Around
<1>10. CASE Lapses
  <2>1. /\ UNCHANGED <<same, romm, roms, cursor, synced, run, problem, retry, rec, jobs, calls, changes, shifted, late, call>>
        /\ faults' \in 0 .. MaxFaults /\ signin' = [signin EXCEPT !.active = FALSE]
    BY <1>1, <1>10 DEF Lapses
  <2>2. signin' \in [address : {NoServer} \cup Addresses, active : BOOLEAN]
        /\ ~signin'.active /\ signin'.address = signin.address
    BY <1>1, <2>1
  <2>3. TypeOK'
    BY <1>1, <2>1, <2>2 DEF TypeOK
  <2>4. Leaving' /\ (Quiet' => Quiet) /\ OwnedIDs' \subseteq OwnedIDs
    BY <2>1, <2>2 DEF Inv, Leaving, Quiet, OwnedIDs, Reading
  <2> QED BY <1>2, <2>1, <2>2, <2>3, <2>4, Around
<1>11. ASSUME NEW a \in Addresses, Move(a) PROVE Inv'
  <2>1. /\ UNCHANGED <<same, romm, roms, cursor, synced, run, problem, retry, rec, jobs, changes, faults, shifted, late>>
        /\ Calls(FALSE, "stop") /\ signin' = [signin EXCEPT !.address = a]
    BY <1>11 DEF Move
  <2>2. signin' \in [address : {NoServer} \cup Addresses, active : BOOLEAN] /\ signin'.address # NoServer
    BY <1>1, <2>1 DEF NoServer, Addresses
  <2>3. call' \in Call /\ calls' \in 0 .. MaxCalls /\ call'.pc = "stop" /\ ~call'.forgets
    BY <1>5, <2>1
  <2>4. TypeOK'
    BY <1>1, <2>1, <2>2, <2>3 DEF TypeOK
  <2>5. Leaving' /\ ~Quiet' /\ OwnedIDs' \subseteq OwnedIDs
    BY <2>1, <2>2, <2>3 DEF Leaving, Quiet, OwnedIDs
  <2> QED BY <1>2, <2>1, <2>2, <2>3, <2>4, <2>5, Around
<1>12. ASSUME NEW a \in Addresses, SignIn(a) PROVE Inv'
  <2>1. /\ UNCHANGED <<same, romm, roms, cursor, synced, run, problem, retry, rec, jobs, call, calls, changes, faults,
                       shifted, late>>
        /\ signin.address \in {NoServer, a} /\ signin' = [address |-> a, active |-> TRUE] /\ call = NoCall
    BY <1>12 DEF SignIn
  <2>2. signin' \in [address : {NoServer} \cup Addresses, active : BOOLEAN] /\ signin'.address = a /\ a # NoServer
    BY <2>1 DEF NoServer, Addresses
  <2>3. TypeOK'
    BY <1>1, <2>1, <2>2 DEF TypeOK
  <2>4. Leaving' /\ (Quiet' => Quiet) /\ OwnedIDs' \subseteq OwnedIDs
    BY <2>1, <2>2 DEF Inv, Leaving, Quiet, OwnedIDs, Reading
  <2>5. CASE signin.address = a \/ late
    BY <1>2, <2>1, <2>2, <2>3, <2>4, <2>5, Around DEF Quiet
  <2>6. CASE signin.address = NoServer /\ ~late
    <3>1. ~synced /\ ~Reading /\ Shown = {} /\ cursor = 0 /\ \A i \in Ids : ~roms[i].removed
      BY <2>6 DEF Inv, Leaving, CatalogInv, Blank, Shown, NoRow
    <3>2. Clock' /\ Blank'
      BY <2>1 DEF Inv, CatalogInv, Clock, Blank, Shown, Now
    <3>3. Had' /\ MarkedGone'
      BY <2>1, <3>1 DEF Had, MarkedGone, Shown, Has
    <3>4. CursorHolds'
      <4>1. \A i \in Ids : romm[IF same THEN 1 ELSE a][i].content # None => romm[IF same THEN 1 ELSE a][i].at > 0
        BY <1>1 DEF Inv, CatalogInv, Clock, Addresses
      <4>2. \A i \in Ids : romm[IF same THEN 1 ELSE a][i].at \in Nat
        BY <1>1 DEF TypeOK, Game, Addresses
      <4> QED BY <2>1, <2>2, <3>1, <4>1, <4>2 DEF CursorHolds, Has, At
    <3>5. RefreshInv' /\ JointInv'
      <4>1. run' \in Run /\ ~Reading'
        BY <2>1, <2>3, <3>1 DEF TypeOK, Reading
      <4>2. run'.pc \in {"off", "sync", "end"}
        BY <4>1 DEF Run, Reading
      <4> QED BY <4>2, NotReading
    <3>6. Types'
      BY <1>2, <2>1, <2>2, <2>3 DEF Inv, Types, Reading
    <3> QED BY <2>4, <3>2, <3>3, <3>4, <3>5, <3>6 DEF Inv, CatalogInv
  <2> QED BY <2>1, <2>5, <2>6
<1>13. CASE ForgetSignIn
  <2>1. /\ UNCHANGED <<same, romm, roms, cursor, synced, run, problem, retry, rec, jobs, calls, changes, faults, shifted>>
        /\ signin' = [address |-> NoServer, active |-> FALSE] /\ call.pc = "last" /\ call.forgets
        /\ late' = (late \/ Outlives \/ synced) /\ call' = NoCall
    BY <1>13 DEF ForgetSignIn
  <2>2. signin' \in [address : {NoServer} \cup Addresses, active : BOOLEAN] /\ signin'.address = NoServer
        /\ ~signin'.active /\ run \in Run /\ synced \in BOOLEAN
    BY <1>1, <2>1 DEF TypeOK
  <2>3. late' \in BOOLEAN
    BY <1>1, <2>1, <2>2 DEF Outlives
  <2>4. TypeOK'
    BY <1>1, <2>1, <2>2, <2>3 DEF TypeOK
  <2>5. Types'
    BY <1>2, <2>1, <2>2, <2>4 DEF Inv, Types, Reading
  <2>6. ~late' => ~late /\ ~synced /\ run.pc \in {"off", "sync", "end"}
    BY <2>1 DEF Outlives
  <2>7. Leaving'
    BY <2>1, <2>2, <2>6 DEF Inv, Leaving, OwnedIDs, Reading
  <2>8. CatalogInv'
    BY <2>1, <2>2, CatalogOn DEF Inv
  <2>9. RefreshInv' /\ JointInv'
    <3>1. CASE run.pc \in {"off", "sync", "end"}
      BY <2>1, <3>1, NotReading
    <3>2. CASE late'
      <4>1. RefreshInv'
        BY <2>1, RefreshOn DEF Inv
      <4>2. ~Quiet'
        BY <3>2 DEF Quiet
      <4>3. JointInv'
        BY <2>1, <4>2 DEF Inv, JointInv, SameServer, FullBlank, ShownListed, OthersStay, Reading
      <4> QED BY <4>1, <4>3
    <3> QED BY <2>6, <3>1, <3>2
  <2> QED BY <2>5, <2>7, <2>8, <2>9 DEF Inv
<1> QED BY <1>3, <1>4, <1>6, <1>7, <1>8, <1>9, <1>10, <1>11, <1>12, <1>13

LEMMA DeckSteps ==
  ASSUME Inv, \E i \in Ids : Queue(i) \/ Downloaded(i) \/ JobEnds(i) \/ Delete(i)
  PROVE  Inv'
<1> USE DEF catalog, timer, deck, bounds, aux
<1>1. /\ Types /\ TypeOK /\ calls \in 0 .. MaxCalls /\ MaxCalls \in Nat
      /\ jobs \in [Ids -> Jobs] /\ rec \in [Ids -> Record] /\ late \in BOOLEAN /\ call \in Call
      /\ romm \in [Addresses -> [Ids -> Game]] /\ same \in BOOLEAN
      /\ signin \in [address : {NoServer} \cup Addresses, active : BOOLEAN]
  BY BoundsAssumption DEF Inv, Types, TypeOK
<1>2. /\ signin.active => signin.address # NoServer
      /\ call.pc = "off" => call = NoCall
      /\ \A i \in Ids : rec[i] # NoRecord => rec[i].content # None
  BY <1>1 DEF Types
<1>3. ASSUME NEW i \in Ids, Queue(i) PROVE Inv'
  <2>1. /\ UNCHANGED <<same, romm, roms, cursor, synced, run, signin, problem, retry, rec, call, calls, changes, faults,
                       shifted>>
        /\ jobs' = [jobs EXCEPT ![i] = "runs"] /\ late' = (late \/ (call.forgets /\ call.pc # "wait"))
        /\ activeSignIn # NoServer
    BY <1>3 DEF Queue
  <2>2. jobs' \in [Ids -> Jobs] /\ late' \in BOOLEAN
    <3>1. jobs' \in [Ids -> Jobs]
      BY <1>1, <2>1 DEF Jobs
    <3>2. late' \in BOOLEAN
      BY <1>1, <2>1 DEF Call
    <3> QED BY <3>1, <3>2
  <2>3. TypeOK'
    BY <1>1, <2>1, <2>2 DEF TypeOK
  <2>4. signin.address # NoServer
    BY <1>2, <2>1 DEF activeSignIn
  <2>5. Leaving' /\ (Quiet' => Quiet) /\ OwnedIDs' \subseteq OwnedIDs
    BY <2>1, <2>4 DEF Inv, Leaving, Quiet, OwnedIDs, Reading
  <2> QED BY <1>2, <2>1, <2>3, <2>5, Around
<1>4. ASSUME NEW i \in Ids, JobEnds(i) PROVE Inv'
  <2>1. /\ UNCHANGED <<same, romm, roms, cursor, synced, run, signin, problem, retry, rec, call, calls, changes, faults,
                       shifted, late>>
        /\ jobs' = [jobs EXCEPT ![i] = "none"]
    BY <1>4 DEF JobEnds
  <2>2. jobs' \in [Ids -> Jobs] /\ \A j \in Ids : jobs[j] = "none" => jobs'[j] = "none"
    BY <1>1, <2>1 DEF Jobs
  <2>3. TypeOK'
    BY <1>1, <2>1, <2>2 DEF TypeOK
  <2>4. Leaving' /\ (Quiet' => Quiet) /\ OwnedIDs' \subseteq OwnedIDs
    BY <2>1, <2>2 DEF Inv, Leaving, Quiet, OwnedIDs, Reading
  <2> QED BY <1>2, <2>1, <2>3, <2>4, Around
<1>5. ASSUME NEW i \in Ids, Delete(i) PROVE Inv'
  <2>1. /\ UNCHANGED <<same, romm, roms, cursor, synced, run, signin, problem, retry, jobs, call, changes, faults,
                       shifted, late>>
        /\ rec' = [rec EXCEPT ![i] = NoRecord] /\ calls' \in 0 .. MaxCalls
    BY <1>1, <1>5 DEF Delete
  <2>2. rec' \in [Ids -> Record] /\ \A j \in Ids : rec'[j] \in {rec[j], NoRecord}
    BY <1>1, <2>1 DEF Record, NoRecord
  <2>3. TypeOK'
    BY <1>1, <2>1, <2>2 DEF TypeOK
  <2>4. OwnedIDs' \subseteq OwnedIDs /\ \A j \in Ids : rec'[j] # NoRecord => rec'[j].content # None
    BY <1>2, <2>2 DEF OwnedIDs
  <2>5. Leaving' /\ (Quiet' => Quiet)
    BY <2>1, <2>4 DEF Inv, Leaving, Quiet, Reading
  <2> QED BY <1>2, <2>1, <2>3, <2>4, <2>5, Around
<1>6. ASSUME NEW i \in Ids, Downloaded(i) PROVE Inv'
  <2> DEFINE r == [of |-> activeSignIn, content |-> At(activeSignIn)[i].content]
  <2>1. /\ UNCHANGED <<same, romm, roms, cursor, synced, run, signin, problem, retry, call, calls, changes, faults,
                       shifted, late>>
        /\ jobs[i] = "runs" /\ jobs' = [jobs EXCEPT ![i] = "none"] /\ rec' = [rec EXCEPT ![i] = r]
        /\ activeSignIn # NoServer /\ i \in Has(activeSignIn)
    BY <1>6 DEF Downloaded
  <2>2. activeSignIn = signin.address /\ signin.address \in Addresses
    BY <1>1, <2>1 DEF activeSignIn
  <2>3. At(activeSignIn)[i] \in Game /\ At(activeSignIn)[i].content # None
    BY <1>1, <2>1, <2>2 DEF At, Has, Addresses
  <2>4. r \in Record /\ r.content # None /\ jobs' \in [Ids -> Jobs]
    BY <1>1, <2>1, <2>2, <2>3 DEF Record, Game, Jobs
  <2> HIDE DEF r
  <2>5. rec' \in [Ids -> Record] /\ \A j \in Ids : rec'[j] # NoRecord => rec'[j].content # None
    BY <1>1, <1>2, <2>1, <2>4
  <2>6. OwnedIDs' \subseteq OwnedIDs \cup {i}
    BY <1>1, <2>1 DEF OwnedIDs
  <2>7. TypeOK'
    BY <1>1, <2>1, <2>4, <2>5 DEF TypeOK
  <2>8. Types'
    BY <1>2, <2>1, <2>5, <2>7 DEF Inv, Types, Reading
  <2>9. Leaving'
    BY <2>1, <2>2 DEF Inv, Leaving
  <2>10. CatalogInv' /\ RefreshInv'
    BY <2>1, CatalogOn, RefreshOn DEF Inv, Quiet
  <2>11. SameServer' /\ FullBlank' /\ ShownListed'
    BY <2>1 DEF Inv, JointInv, SameServer, FullBlank, ShownListed, Reading, Quiet, Shown, Has, At
  <2>12. OthersStay'
    <3> SUFFICES ASSUME Quiet, run.pc \in {"match", "apply"}, ~run.full,
                        NEW j \in (run.known \cap OwnedIDs' \cap Shown) \ (Received(run) \cup run.keep)
                 PROVE  j \in run.retain \/ (run.pc = "match" /\ j \in Looked)
      BY <2>1 DEF OthersStay, Quiet, Shown, Received, Looked
    <3>1. CASE j \in OwnedIDs
      BY <3>1 DEF Inv, JointInv, OthersStay
    <3>2. CASE j = i
      <4>1. run.address = activeSignIn
        BY <2>2 DEF Inv, JointInv, SameServer, Reading
      <4>2. j \in run.keep
        BY <2>1, <3>2, <4>1 DEF Inv, JointInv, ShownListed
      <4> QED BY <4>2
    <3> QED BY <2>6, <3>1, <3>2
  <2> QED BY <2>8, <2>9, <2>10, <2>11, <2>12 DEF Inv, JointInv
<1> QED BY <1>3, <1>4, <1>5, <1>6

-----------------------------------------------------------------------------
(* A refresh starts and ends. *)

\* No refresh reads after a step that leaves the Catalog, the records and the server alone.
LEMMA Rests ==
  ASSUME Inv, UNCHANGED <<same, romm, signin, roms, cursor, synced, rec, jobs, changes, shifted, late>>,
         TypeOK', run'.pc \in {"off", "sync", "end"}, run'.pc = "sync" => run' = [Off EXCEPT !.pc = "sync"],
         call' = call \/ (call' = NoCall /\ call.pc = "last")
  PROVE  Inv'
<1>1. (call'.pc = "off" => call' = NoCall) /\ (call' = NoCall => call'.pc = "off" /\ ~call'.forgets)
  BY DEF Inv, Types, NoCall
<1>2. Types'
  BY <1>1 DEF Inv, Types, Reading
<1>3. Quiet' => Quiet
  BY DEF Quiet
<1>4. CatalogInv'
  BY <1>3, CatalogOn DEF Inv
<1>5. RefreshInv' /\ JointInv'
  BY NotReading
<1>6. Leaving'
  BY <1>1 DEF Inv, Leaving, OwnedIDs, Reading
<1> QED BY <1>2, <1>4, <1>5, <1>6 DEF Inv

LEMMA OffRun ==
  /\ Off \in Run /\ Off.pc = "off"
  /\ [Off EXCEPT !.pc = "sync"] \in Run /\ [Off EXCEPT !.pc = "sync"].pc = "sync"
  /\ [Off EXCEPT !.pc = "sync"].got = [i \in Ids |-> 0] /\ [Off EXCEPT !.pc = "sync"].offset = 0
  /\ [Off EXCEPT !.pc = "end"] \in Run /\ [Off EXCEPT !.pc = "end"].pc = "end"
  /\ \A err \in Kinds : /\ [Off EXCEPT !.pc = "end", !.err = err] \in Run
                        /\ [Off EXCEPT !.pc = "end", !.err = err].pc = "end"
<1>1. Off \in Run /\ Off.pc = "off" /\ Off.got = [i \in Ids |-> 0] /\ Off.offset = 0
  BY DEF Off, Run, Kinds
<1> HIDE DEF Off
<1>2. \A pc \in {"sync", "end"} : /\ [Off EXCEPT !.pc = pc] \in Run /\ [Off EXCEPT !.pc = pc].pc = pc
                                 /\ [Off EXCEPT !.pc = pc].got = Off.got /\ [Off EXCEPT !.pc = pc].offset = Off.offset
  BY <1>1 DEF Run
<1>3. \A err \in Kinds : /\ [Off EXCEPT !.pc = "end", !.err = err] \in Run
                        /\ [Off EXCEPT !.pc = "end", !.err = err].pc = "end"
  BY <1>1 DEF Run
<1> QED BY <1>1, <1>2, <1>3

LEMMA EndSteps ==
  ASSUME Inv, Asked \/ Retry \/ ThenRefresh \/ End \/ RequestFails
  PROVE  Inv'
<1> USE DEF catalog, timer, deck, bounds, aux
<1>1. /\ Types /\ TypeOK /\ run \in Run /\ retry \in BOOLEAN /\ faults \in 0 .. MaxFaults /\ MaxFaults \in Nat
      /\ synced \in BOOLEAN /\ NoCall \in Call /\ call \in Call /\ calls \in 0 .. MaxCalls
  BY BoundsAssumption DEF Inv, Types, TypeOK, Call, NoCall
<1>2. Refresh => \/ UNCHANGED <<run, retry>>
                 \/ run' = [Off EXCEPT !.pc = "sync"] /\ retry' = FALSE
  BY DEF Refresh
<1>3. [Off EXCEPT !.pc = "sync"] \in Run /\ [Off EXCEPT !.pc = "sync"].pc = "sync"
  BY OffRun
<1>4. ASSUME UNCHANGED <<same, romm, signin, roms, cursor, synced, rec, jobs, problem, calls, changes, faults, shifted,
                         late>>,
             run' = [Off EXCEPT !.pc = "sync"], retry' = FALSE,
             call' = call \/ (call' = NoCall /\ call.pc = "last")
      PROVE  Inv'
  <2>1. run' \in Run /\ run'.pc = "sync" /\ call' \in Call
    BY <1>1, <1>3, <1>4
  <2>2. TypeOK'
    BY <1>1, <1>4, <2>1 DEF TypeOK
  <2>3. run'.pc \in {"off", "sync", "end"}
    BY <2>1
  <2> QED BY <1>4, <2>2, <2>3, Rests
<1>5. ASSUME UNCHANGED <<same, romm, signin, roms, cursor, synced, run, rec, jobs, problem, calls, changes, faults,
                         shifted, late>>,
             retry' \in BOOLEAN, call' = call \/ (call' = NoCall /\ call.pc = "last")
      PROVE  Inv'
  <2>1. call' \in Call /\ (call'.pc = "off" => call' = NoCall) /\ (Quiet' => Quiet)
    BY <1>1, <1>5 DEF Types, Quiet
  <2>2. call' = NoCall => ~call'.forgets
    BY DEF NoCall
  <2>3. Leaving'
    BY <1>5, <2>2 DEF Inv, Leaving, OwnedIDs, Reading
  <2>4. problem' \in Kinds /\ calls' \in 0 .. MaxCalls
    BY <1>1, <1>5 DEF TypeOK
  <2> QED BY <1>5, <2>1, <2>3, <2>4, AroundCall
<1>6. CASE Asked
  <2>1. /\ UNCHANGED <<same, romm, signin, roms, cursor, synced, rec, jobs, problem, call, calls, changes, faults, shifted,
                       late>>
        /\ Refresh
    BY <1>6 DEF Asked
  <2>2. CASE UNCHANGED <<run, retry>>
    BY <1>1, <1>5, <2>1, <2>2
  <2>3. CASE run' = [Off EXCEPT !.pc = "sync"] /\ retry' = FALSE
    BY <1>4, <2>1, <2>3
  <2> QED BY <1>2, <2>1, <2>2, <2>3
<1>7. CASE Retry
  <2>1. /\ UNCHANGED <<same, romm, signin, roms, cursor, synced, rec, jobs, problem, call, calls, changes, faults, shifted,
                       late>>
        /\ Refresh \/ (retry' = FALSE /\ run' = run)
    BY <1>7 DEF Retry
  <2>2. CASE run' = run /\ retry' \in BOOLEAN
    BY <1>5, <2>1, <2>2
  <2>3. CASE run' = [Off EXCEPT !.pc = "sync"] /\ retry' = FALSE
    BY <1>4, <2>1, <2>3
  <2> QED BY <1>1, <1>2, <2>1, <2>2, <2>3
<1>8. CASE ThenRefresh
  BY <1>1, <1>2, <1>4, <1>5, <1>8 DEF ThenRefresh
<1>9. CASE End
  <2>1. /\ UNCHANGED <<same, romm, signin, roms, cursor, synced, rec, jobs, call, calls, changes, faults, shifted, late>>
        /\ run' = Off /\ problem' = run.err /\ retry' = (retry \/ run.err = "unreachable")
    BY <1>9 DEF End
  <2>2. run' \in Run /\ run'.pc = "off" /\ problem' \in Kinds /\ retry' \in BOOLEAN
    <3>1. run' \in Run /\ run'.pc = "off"
      BY <2>1, OffRun
    <3>2. problem' \in Kinds
      BY <1>1, <2>1 DEF Run
    <3>3. retry' \in BOOLEAN
      BY <1>1, <2>1
    <3> QED BY <3>1, <3>2, <3>3
  <2>3. TypeOK'
    BY <1>1, <2>1, <2>2 DEF TypeOK
  <2>4. run'.pc \in {"off", "sync", "end"} /\ run'.pc # "sync"
    BY <2>2
  <2> QED BY <2>1, <2>3, <2>4, Rests
<1>10. CASE RequestFails
  <2>1. PICK err \in {"unreachable", "other"} :
          /\ UNCHANGED <<same, romm, signin, roms, cursor, synced, rec, jobs, call, calls, changes, shifted, late>>
          /\ UNCHANGED <<problem, retry>>
          /\ faults < MaxFaults /\ faults' = faults + 1 /\ run' = [Off EXCEPT !.pc = "end", !.err = err]
    BY <1>10 DEF RequestFails
  <2>2. run' \in Run /\ run'.pc = "end" /\ faults' \in 0 .. MaxFaults
    <3>1. run' \in Run /\ run'.pc = "end"
      BY <2>1, OffRun DEF Kinds
    <3>2. faults' \in 0 .. MaxFaults
      BY <1>1, <2>1
    <3> QED BY <3>1, <3>2
  <2>3. TypeOK'
    BY <1>1, <2>1, <2>2 DEF TypeOK
  <2>4. run'.pc \in {"off", "sync", "end"} /\ run'.pc # "sync"
    BY <2>2
  <2> QED BY <2>1, <2>3, <2>4, Rests
<1> QED BY <1>6, <1>7, <1>8, <1>9, <1>10

LEMMA SyncStep == Inv /\ Sync => Inv'
<1> SUFFICES ASSUME Inv, Sync PROVE Inv'
  OBVIOUS
<1> USE DEF catalog, timer, deck, bounds, aux
<1>1. /\ Types /\ TypeOK /\ run \in Run /\ synced \in BOOLEAN /\ cursor \in Nat
      /\ signin \in [address : {NoServer} \cup Addresses, active : BOOLEAN]
      /\ run = [Off EXCEPT !.pc = "sync"]
  BY DEF Inv, Types, TypeOK, Sync
<1>2. /\ UNCHANGED <<same, romm, signin, roms, cursor, synced, problem, retry, rec, jobs, call, calls, changes, faults,
                     shifted, late>>
  BY DEF Sync
<1>3. CASE activeSignIn = NoServer
  <2>1. run' = [run EXCEPT !.pc = "end"]
    BY <1>3 DEF Sync
  <2>2. run' \in Run /\ run'.pc = "end"
    BY <1>1, <2>1 DEF Run
  <2>3. TypeOK'
    BY <1>1, <1>2, <2>2 DEF TypeOK
  <2>4. run'.pc \in {"off", "sync", "end"} /\ run'.pc # "sync"
    BY <2>2
  <2> QED BY <1>2, <2>3, <2>4, Rests
<1>4. CASE activeSignIn # NoServer
  <2>1. activeSignIn = signin.address /\ signin.address \in Addresses
    BY <1>1, <1>4 DEF activeSignIn
  <2> DEFINE from == IF synced THEN cursor ELSE 0
  <2>2. run' = [run EXCEPT !.pc = "page", !.address = signin.address, !.full = ~synced, !.cursor = from]
    BY <1>4, <2>1 DEF Sync
  <2>3. from = cursor /\ cursor <= Now /\ from \in Nat
    BY <1>1 DEF Inv, CatalogInv, Clock, Blank
  <2> HIDE DEF from
  <2>4. run' \in Run
    BY <1>1, <2>1, <2>2, <2>3 DEF Run
  <2>5. run.got = [i \in Ids |-> 0] /\ run.offset = 0
    BY <1>1, OffRun
  <2>6. /\ run'.pc = "page" /\ run'.address = signin.address /\ run'.full = ~synced /\ run'.cursor = cursor
        /\ run'.got = [i \in Ids |-> 0] /\ run'.offset = 0
    BY <1>1, <2>2, <2>3, <2>5 DEF Run
  <2>7. TypeOK'
    BY <1>1, <1>2, <2>4 DEF TypeOK
  <2>8. Types'
    BY <1>1, <1>2, <2>1, <2>6, <2>7 DEF Types, Reading, NoServer, Addresses
  <2>9. CatalogInv'
    BY <1>2, CatalogOn DEF Inv, Quiet
  <2>10. Dated'
    BY <1>2, <2>3, <2>6 DEF Dated, Now
  <2>11. PagesReceived'
    <3> SUFFICES ASSUME NEW i \in Ids PROVE ~(i \in Changed(run.address, run.cursor)' /\ Before(Changed(run.address, run.cursor)', i) < 0)
      BY <2>6 DEF PagesReceived
    <3>1. Changed(run.address, run.cursor)' \in SUBSET Ids
      BY DEF Changed, Has
    <3> HIDE DEF Changed
    <3>2. Before(Changed(run.address, run.cursor)', i) \in Nat
      BY <3>1, BeforeNat
    <3> QED BY <3>2
  <2>12. RefreshInv'
    BY <2>6, <2>10, <2>11 DEF RefreshInv, AllReceived, IdsListed, RetainedApart
  <2>13. JointInv'
    BY <1>1, <1>2, <2>6 DEF JointInv, SameServer, FullBlank, ShownListed, OthersStay
  <2>14. Leaving'
    BY <1>2, <2>1, <2>6 DEF Inv, Leaving, OwnedIDs, NoServer, Addresses
  <2> QED BY <2>8, <2>9, <2>12, <2>13, <2>14 DEF Inv
<1> QED BY <1>3, <1>4

LEMMA EmptyStep == Inv /\ Empty => Inv'
<1> SUFFICES ASSUME Inv, Empty PROVE Inv'
  OBVIOUS
<1> USE DEF catalog, timer, deck, bounds, aux
<1>1. Types /\ TypeOK /\ run \in Run /\ late \in BOOLEAN /\ call \in Call
  BY DEF Inv, Types, TypeOK
<1>2. /\ UNCHANGED <<same, romm, signin, run, problem, retry, rec, jobs, calls, changes, faults, shifted>>
      /\ roms' = [i \in Ids |-> NoRow] /\ cursor' = 0 /\ synced' = FALSE
      /\ late' = (late \/ Outlives) /\ call.pc = "empty" /\ call' = [call EXCEPT !.pc = "last"]
  BY DEF Empty, Clear, Then
<1>3. call' \in Call /\ call'.pc = "last" /\ call'.forgets = call.forgets
  BY <1>1, <1>2 DEF Call
<1>4. roms' \in [Ids -> Row] /\ NoRow.of = NoServer /\ ~NoRow.removed
  BY <1>2 DEF Row, NoRow
<1>5. late' \in BOOLEAN
  BY <1>1, <1>2 DEF Outlives
<1>6. TypeOK'
  BY <1>1, <1>2, <1>3, <1>4, <1>5 DEF TypeOK
<1>7. Types'
  BY <1>1, <1>2, <1>3, <1>6 DEF Types, Reading
<1>8. ~late' => ~late /\ run.pc \in {"off", "sync", "end"}
  BY <1>2 DEF Outlives
<1>9. Leaving'
  BY <1>2, <1>3, <1>8 DEF Inv, Leaving, OwnedIDs, Reading
<1>10. CatalogInv'
  <2>1. Clock'
    <3>1. changes' \in Nat
      BY <1>6, BoundsAssumption DEF TypeOK
    <3> QED BY <1>2, <3>1 DEF Inv, CatalogInv, Clock, Now
  <2>2. Blank' /\ Had' /\ MarkedGone'
    BY <1>2, <1>4 DEF Blank, Had, MarkedGone, Shown, Has
  <2>3. CursorHolds'
    <3> SUFFICES ASSUME signin.address # NoServer, NEW i \in Has(signin.address) PROVE ~(At(signin.address)[i].at <= 0)
      BY <1>2 DEF CursorHolds, Has, At
    <3>1. At(signin.address)[i].at \in Nat /\ At(signin.address)[i].at > 0
      BY <1>1 DEF Inv, CatalogInv, Clock, TypeOK, Has, At, Addresses, Game
    <3> QED BY <3>1
  <2> QED BY <2>1, <2>2, <2>3 DEF CatalogInv
<1>11. RefreshInv' /\ JointInv'
  <2>1. CASE run.pc \in {"off", "sync", "end"}
    BY <1>2, <2>1, NotReading
  <2>2. CASE late'
    <3>1. RefreshInv' /\ ~Quiet'
      BY <1>2, <2>2, RefreshOn DEF Inv, Quiet
    <3>2. JointInv'
      BY <1>2, <3>1 DEF JointInv, SameServer, FullBlank, ShownListed, OthersStay, Reading
    <3> QED BY <3>1, <3>2
  <2> QED BY <1>8, <2>1, <2>2
<1> QED BY <1>7, <1>9, <1>10, <1>11 DEF Inv
-----------------------------------------------------------------------------
(* A refresh goes on. *)

\* A step of a refresh that reads, and reads on.
LEMMA Goes ==
  ASSUME Inv, UNCHANGED <<same, romm, signin, roms, cursor, synced, problem, retry, rec, jobs, call, changes, calls,
                          shifted, late>>,
         faults' \in 0 .. MaxFaults, Reading, run' \in Run, Reading',
         run'.address = run.address, run'.full = run.full, run'.cursor = run.cursor,
         run'.pc = "match" => run.pc = "match" \/ OwnedIDs # {}
  PROVE  Types' /\ CatalogInv' /\ SameServer' /\ FullBlank' /\ Leaving'
<1>1. TypeOK'
  BY DEF Inv, Types, TypeOK
<1>2. run'.pc # "sync"
  BY DEF Reading
<1>3. Types'
  BY <1>1, <1>2 DEF Inv, Types
<1>4. CatalogInv'
  BY CatalogOn DEF Inv, Quiet
<1>5. SameServer' /\ FullBlank'
  BY DEF Inv, JointInv, SameServer, FullBlank, Quiet
<1>6. Leaving'
  BY DEF Inv, Leaving, OwnedIDs
<1> QED BY <1>3, <1>4, <1>5, <1>6

LEMMA PageStep == Inv /\ Page => Inv'
<1> SUFFICES ASSUME Inv, Page PROVE Inv'
  OBVIOUS
<1> USE DEF catalog, timer, deck, bounds, aux
<1> DEFINE page == ROMs(run.address, run.cursor, run.offset)
           all == Changed(run.address, run.cursor)
<1>1. /\ TypeOK /\ run \in Run /\ faults \in 0 .. MaxFaults /\ run.address \in Addresses /\ Reading
      /\ romm \in [Addresses -> [Ids -> Game]] /\ PageSize \in Nat
  BY IdsFinite DEF Inv, Types, TypeOK, Page, Reading, Run
<1>2. /\ UNCHANGED <<same, romm, signin, roms, cursor, synced, problem, retry, rec, jobs, call, calls, changes, faults,
                     shifted, late>>
      /\ run.pc = "page"
      /\ run' = [run EXCEPT !.got = [i \in Ids |-> IF i \in page THEN At(run.address)[i].at ELSE @[i]],
                            !.offset = IF Cardinality(page) < PageSize THEN 0 ELSE @ + PageSize,
                            !.pc = IF Cardinality(page) = PageSize THEN "page" ELSE IF run.full THEN "gone" ELSE "ids"]
  BY DEF Page
<1>3. /\ all \in SUBSET Ids /\ \A i \in Ids : Before(all, i) \in Nat
      /\ page = {i \in all : Before(all, i) >= run.offset /\ Before(all, i) < run.offset + PageSize}
  <2>1. all \in SUBSET Ids
    BY DEF Changed, Has
  <2>2. page = {i \in all : Before(all, i) >= run.offset /\ Before(all, i) < run.offset + PageSize}
    BY DEF ROMs
  <2> HIDE DEF all, page
  <2> QED BY <2>1, <2>2, BeforeNat
<1>4. \A i \in Ids : At(run.address)[i].at \in Nat /\ (At(run.address)[i].content # None => At(run.address)[i].at > 0)
  BY <1>1 DEF Inv, CatalogInv, Clock, At, Game, Addresses
<1>5. \A i \in all : At(run.address)[i].at > run.cursor
  BY <1>1, <1>4 DEF Changed, Has, Run
<1> HIDE DEF all, page
<1>6. /\ run' \in Run /\ run'.address = run.address /\ run'.full = run.full /\ run'.cursor = run.cursor
      /\ \A i \in Ids : run'.got[i] = IF i \in page THEN At(run.address)[i].at ELSE run.got[i]
      /\ run'.pc = (IF Cardinality(page) = PageSize THEN "page" ELSE IF run.full THEN "gone" ELSE "ids")
      /\ Cardinality(page) = PageSize => run'.offset = run.offset + PageSize
  <2> DEFINE got == [i \in Ids |-> IF i \in page THEN At(run.address)[i].at ELSE run.got[i]]
             pc == IF Cardinality(page) = PageSize THEN "page" ELSE IF run.full THEN "gone" ELSE "ids"
             offset == IF Cardinality(page) < PageSize THEN 0 ELSE run.offset + PageSize
  <2>1. got \in [Ids -> Nat] /\ pc \in {"page", "ids", "gone"} /\ offset \in Nat
    BY <1>1, <1>4 DEF Run
  <2>2. Cardinality(page) = PageSize => offset = run.offset + PageSize
    BY <1>1
  <2>3. run' = [run EXCEPT !.got = got, !.offset = offset, !.pc = pc]
    BY <1>1, <1>2 DEF Run
  <2>4. \A i \in Ids : got[i] = IF i \in page THEN At(run.address)[i].at ELSE run.got[i]
    OBVIOUS
  <2>5. pc = (IF Cardinality(page) = PageSize THEN "page" ELSE IF run.full THEN "gone" ELSE "ids")
    OBVIOUS
  <2> HIDE DEF got, pc, offset
  <2> QED BY <1>1, <2>1, <2>2, <2>3, <2>4, <2>5 DEF Run
<1>7. At(run.address)' = At(run.address)
  BY <1>2, <1>6 DEF At
<1>8. Reading' /\ run'.pc # "match"
  BY <1>6 DEF Reading
<1>9. Types' /\ CatalogInv' /\ SameServer' /\ FullBlank' /\ Leaving'
  BY <1>1, <1>2, <1>6, <1>8, Goes
<1>10. Dated'
  BY <1>1, <1>2, <1>3, <1>4, <1>5, <1>6 DEF Inv, RefreshInv, Dated, Now, At
<1>11. Changed(run.address, run.cursor)' = all
  BY <1>2, <1>6 DEF Changed, Has, At, all
<1>12. ~shifted => \A i \in Ids : run.got[i] = IF i \in all /\ Before(all, i) < run.offset THEN At(run.address)[i].at ELSE 0
  BY <1>2 DEF Inv, RefreshInv, PagesReceived, all
<1>13. run.offset \in Nat
  BY <1>1 DEF Run
<1>14. ~shifted => \A i \in Ids : run'.got[i] = IF i \in all /\ Before(all, i) < run.offset + PageSize
                                               THEN At(run.address)[i].at ELSE 0
  BY <1>1, <1>3, <1>6, <1>12, <1>13
<1>15. PagesReceived'
  <2>1. CASE Cardinality(page) = PageSize
    BY <1>2, <1>6, <1>7, <1>11, <1>14, <2>1 DEF PagesReceived
  <2>2. CASE Cardinality(page) # PageSize
    BY <1>6, <2>2 DEF PagesReceived
  <2> QED BY <2>1, <2>2
<1>16. AllReceived'
  <2>1. CASE Cardinality(page) = PageSize
    BY <1>6, <2>1 DEF AllReceived
  <2>2. CASE Cardinality(page) # PageSize
    <3>1. \A i \in all : Before(all, i) < run.offset + PageSize
      BY <1>3, <1>13, <2>2, LastPage
    <3> QED BY <1>2, <1>3, <1>6, <1>7, <1>11, <1>14, <3>1 DEF AllReceived
  <2> QED BY <2>1, <2>2
<1>17. RefreshInv'
  BY <1>6, <1>10, <1>15, <1>16 DEF RefreshInv, IdsListed, RetainedApart
<1>18. JointInv'
  BY <1>6, <1>9 DEF JointInv, ShownListed, OthersStay
<1> QED BY <1>9, <1>17, <1>18 DEF Inv
\* What it received stays as it is.
LEMMA ReadsOn ==
  ASSUME RefreshInv, UNCHANGED <<same, romm, changes, shifted>>,
         run.pc \in {"ids", "gone", "match", "apply"}, run'.pc \in {"gone", "match", "apply"},
         run'.address = run.address, run'.cursor = run.cursor, run'.got = run.got
  PROVE  /\ Dated' /\ PagesReceived' /\ AllReceived'
         /\ Has(run.address)' = Has(run.address) /\ Received(run)' = Received(run)
         /\ \A i \in Ids : Newer(i)' <=> Newer(i)
<1>1. Dated' /\ PagesReceived'
  BY DEF RefreshInv, Dated, PagesReceived, Reading, At, Now
<1>2. Has(run.address)' = Has(run.address) /\ Received(run)' = Received(run)
  BY DEF Has, At, Received
<1>3. \A i \in Ids : Newer(i)' <=> Newer(i)
  BY DEF Newer, At
<1>4. Changed(run.address, run.cursor)' = Changed(run.address, run.cursor) /\ Changed(run.address, run.cursor) \subseteq Ids
  BY DEF Changed, Has, At
<1>5. AllReceived'
  BY <1>3, <1>4 DEF RefreshInv, AllReceived, At
<1> QED BY <1>1, <1>2, <1>3, <1>5

LEMMA KeepIdsStep == Inv /\ KeepIds => Inv'
<1> SUFFICES ASSUME Inv, KeepIds PROVE Inv'
  OBVIOUS
<1> USE DEF catalog, timer, deck, bounds, aux
<1>1. /\ TypeOK /\ run \in Run /\ faults \in 0 .. MaxFaults /\ RefreshInv
  BY DEF Inv, Types, TypeOK
<1>2. /\ UNCHANGED <<same, romm, signin, roms, cursor, synced, problem, retry, rec, jobs, call, calls, changes, faults,
                     shifted, late>>
      /\ run.pc = "ids" /\ run' = [run EXCEPT !.pc = "gone", !.keep = Has(run.address)]
  BY DEF KeepIds, ROMIDs
<1>3. Has(run.address) \in SUBSET Ids
  BY DEF Has
<1>4. /\ run' \in Run /\ run'.address = run.address /\ run'.full = run.full /\ run'.cursor = run.cursor
      /\ run'.got = run.got /\ run'.pc = "gone" /\ run'.keep = Has(run.address)
  BY <1>1, <1>2, <1>3 DEF Run
<1>5. Reading /\ Reading' /\ run'.pc # "match" /\ run.pc \in {"ids", "gone", "match", "apply"}
      /\ run'.pc \in {"gone", "match", "apply"}
  BY <1>2, <1>4 DEF Reading
<1>6. Types' /\ CatalogInv' /\ SameServer' /\ FullBlank' /\ Leaving'
  BY <1>1, <1>2, <1>4, <1>5, Goes
<1>7. Dated' /\ PagesReceived' /\ AllReceived' /\ Has(run.address)' = Has(run.address)
  BY <1>1, <1>2, <1>4, <1>5, ReadsOn
<1>8. RefreshInv'
  BY <1>4, <1>7 DEF RefreshInv, IdsListed, RetainedApart
<1>9. JointInv'
  BY <1>4, <1>6, <1>7 DEF JointInv, ShownListed, OthersStay
<1> QED BY <1>6, <1>8, <1>9 DEF Inv

LEMMA GoneStep == Inv /\ Gone => Inv'
<1> SUFFICES ASSUME Inv, Gone PROVE Inv'
  OBVIOUS
<1> USE DEF catalog, timer, deck, bounds, aux
<1> DEFINE gone == OwnedIDs \ (Received(run) \cup run.keep)
           look == IF Received(run) = {} THEN {} ELSE {i \in gone : jobs[i] = "none"}
           read == [i \in Ids |-> IF i \in look THEN rec[i].content ELSE None]
<1>1. /\ TypeOK /\ run \in Run /\ faults \in 0 .. MaxFaults /\ RefreshInv /\ rec \in [Ids -> Record]
      /\ \A i \in OwnedIDs : rec[i].content # None
  BY DEF Inv, Types, TypeOK, OwnedIDs
<1>2. /\ UNCHANGED <<same, romm, signin, roms, cursor, synced, problem, retry, rec, jobs, call, calls, changes, faults,
                     shifted, late>>
      /\ run.pc = "gone"
      /\ run' = [run EXCEPT !.pc = IF look = {} THEN "apply" ELSE "match", !.retain = gone \ look, !.known = OwnedIDs,
                            !.gone = read]
  BY DEF Gone
<1>3. /\ gone \in SUBSET Ids /\ look \subseteq gone /\ OwnedIDs \in SUBSET Ids
      /\ gone \subseteq OwnedIDs /\ gone \cap (Received(run) \cup run.keep) = {}
  BY DEF OwnedIDs
<1>4. /\ read \in [Ids -> Contents \cup {None}]
      /\ \A i \in Ids : read[i] # None <=> i \in look
  BY <1>1, <1>3 DEF Record
<1>5. gone = OwnedIDs \ (Received(run) \cup run.keep)
  OBVIOUS
<1> HIDE DEF gone, look, read
<1>6. /\ run' \in Run /\ run'.address = run.address /\ run'.full = run.full /\ run'.cursor = run.cursor
      /\ run'.got = run.got /\ run'.keep = run.keep /\ run'.retain = gone \ look /\ run'.gone = read
      /\ run'.known = OwnedIDs /\ run'.pc = IF look = {} THEN "apply" ELSE "match"
  BY <1>1, <1>2, <1>3, <1>4 DEF Run
<1>7. Reading /\ Reading' /\ (run'.pc = "match" => OwnedIDs # {}) /\ run.pc \in {"ids", "gone", "match", "apply"}
      /\ run'.pc \in {"gone", "match", "apply"}
  BY <1>2, <1>3, <1>6 DEF Reading
<1>8. Types' /\ CatalogInv' /\ SameServer' /\ FullBlank' /\ Leaving'
  BY <1>1, <1>2, <1>6, <1>7, Goes
<1>9. /\ Dated' /\ PagesReceived' /\ AllReceived' /\ Has(run.address)' = Has(run.address)
      /\ Received(run)' = Received(run) /\ \A i \in Ids : Newer(i)' <=> Newer(i)
  BY <1>1, <1>2, <1>6, <1>7, ReadsOn
<1>10. Looked' = look
  BY <1>3, <1>4, <1>6 DEF Looked
<1>11. IdsListed'
  BY <1>1, <1>2, <1>6, <1>9 DEF RefreshInv, IdsListed, Has
<1>12. RetainedApart'
  BY <1>3, <1>6, <1>9, <1>10 DEF RetainedApart
<1>13. ShownListed'
  BY <1>2, <1>6, <1>9 DEF Inv, JointInv, ShownListed, Quiet, Shown
<1>14. OthersStay'
  BY <1>2, <1>5, <1>6, <1>9, <1>10 DEF OthersStay, OwnedIDs
<1> QED BY <1>8, <1>9, <1>11, <1>12, <1>13, <1>14 DEF Inv, RefreshInv, JointInv

LEMMA MatchedStep == Inv /\ Matched => Inv'
<1> SUFFICES ASSUME Inv, Matched PROVE Inv'
  OBVIOUS
<1> USE DEF catalog, timer, deck, bounds, aux
<1>1. /\ TypeOK /\ run \in Run /\ faults \in 0 .. MaxFaults /\ MaxFaults \in Nat /\ RefreshInv
  BY BoundsAssumption DEF Inv, Types, TypeOK
<1>2. /\ UNCHANGED <<same, romm, signin, roms, cursor, synced, problem, retry, rec, jobs, call, calls, changes,
                     shifted, late>>
      /\ run.pc = "match" /\ run' = [run EXCEPT !.pc = "apply", !.retain = @ \cup Looked, !.gone = Off.gone]
      /\ faults' = faults \/ (faults < MaxFaults /\ faults' = faults + 1)
  BY DEF Matched
<1>3. Looked \in SUBSET Ids /\ Off.gone = [i \in Ids |-> None] /\ faults' \in 0 .. MaxFaults
  <2>1. Looked \in SUBSET Ids /\ Off.gone = [i \in Ids |-> None]
    BY DEF Looked, Off
  <2>2. faults' \in 0 .. MaxFaults
    BY <1>1, <1>2
  <2> QED BY <2>1, <2>2
<1>4. /\ run' \in Run /\ run'.address = run.address /\ run'.full = run.full /\ run'.cursor = run.cursor
      /\ run'.got = run.got /\ run'.keep = run.keep /\ run'.retain = run.retain \cup Looked
      /\ run'.gone = [i \in Ids |-> None] /\ run'.known = run.known /\ run'.pc = "apply"
  BY <1>1, <1>2, <1>3 DEF Run
<1>5. Reading /\ Reading' /\ run'.pc # "match" /\ run.pc \in {"ids", "gone", "match", "apply"}
      /\ run'.pc \in {"gone", "match", "apply"}
  BY <1>2, <1>4 DEF Reading
<1>6. Types' /\ CatalogInv' /\ SameServer' /\ FullBlank' /\ Leaving'
  BY <1>1, <1>2, <1>3, <1>4, <1>5, Goes
<1>7. /\ Dated' /\ PagesReceived' /\ AllReceived' /\ Has(run.address)' = Has(run.address)
      /\ Received(run)' = Received(run) /\ \A i \in Ids : Newer(i)' <=> Newer(i)
  BY <1>1, <1>2, <1>4, <1>5, ReadsOn
<1>8. Looked' = {}
  BY <1>4 DEF Looked
<1>9. IdsListed'
  BY <1>1, <1>2, <1>4, <1>7 DEF RefreshInv, IdsListed, Has
<1>10. RetainedApart'
  BY <1>1, <1>2, <1>4, <1>7, <1>8 DEF RefreshInv, RetainedApart
<1>11. ShownListed'
  BY <1>2, <1>4, <1>7 DEF Inv, JointInv, ShownListed, Quiet, Shown
<1>12. OthersStay'
  BY <1>2, <1>4, <1>7 DEF Inv, JointInv, OthersStay, Quiet, Shown, OwnedIDs
<1> QED BY <1>6, <1>7, <1>9, <1>10, <1>11, <1>12 DEF Inv, RefreshInv, JointInv
LEMMA MatchStep == ASSUME Inv, NEW i \in Ids, Match(i) PROVE Inv'
<1> USE DEF catalog, timer, deck, bounds, aux
<1>1. /\ TypeOK /\ Types /\ run \in Run /\ RefreshInv /\ rec \in [Ids -> Record] /\ Reading /\ run.pc = "match"
      /\ run.address # NoServer /\ \A k \in Ids : rec[k] # NoRecord => rec[k].content # None
      /\ signin \in [address : {NoServer} \cup Addresses, active : BOOLEAN]
  BY DEF Inv, Types, TypeOK, Match, Reading
<1>2. PICK j \in Matches(i) :
        /\ rec' = [rec EXCEPT ![i] = NoRecord, ![j] = [of |-> activeSignIn, content |-> run.gone[i]]]
        /\ run' = [run EXCEPT !.gone[i] = None, !.known = @ \cup {j}]
  BY DEF Match
<1>3. /\ UNCHANGED <<same, romm, signin, roms, cursor, synced, problem, retry, jobs, call, calls, changes, faults,
                     shifted, late>>
      /\ i \in Looked /\ activeSignIn = signin.address /\ activeSignIn \in Addresses
      /\ j \in Has(activeSignIn) /\ j \in Ids
  <2>1. i \in Looked /\ activeSignIn = signin.address /\ activeSignIn \in Addresses
    BY <1>1 DEF Match, activeSignIn
  <2>2. j \in Has(activeSignIn) /\ j \in Ids
    BY DEF Matches, Has
  <2> QED BY <2>1, <2>2 DEF Match
<1> DEFINE r == [of |-> activeSignIn, content |-> run.gone[i]]
<1>4. r \in Record /\ r.content # None
  BY <1>1, <1>3 DEF Looked, Record, Run
<1>5. rec' = [rec EXCEPT ![i] = NoRecord, ![j] = r]
  BY <1>2
<1> HIDE DEF r
<1>6. /\ rec' \in [Ids -> Record] /\ \A k \in Ids : rec'[k] \in {rec[k], NoRecord, r}
      /\ \A k \in Ids : k # j => rec'[k] \in {rec[k], NoRecord}
      /\ i # j => rec'[i] = NoRecord
  <2>1. NoRecord \in Record
    BY DEF NoRecord, Record
  <2> QED BY <1>1, <1>3, <1>4, <1>5, <2>1
<1>7. \A k \in Ids : rec'[k] # NoRecord => rec'[k].content # None
  BY <1>1, <1>4, <1>6
<1>8. /\ run' \in Run /\ run'.address = run.address /\ run'.full = run.full /\ run'.cursor = run.cursor
      /\ run'.got = run.got /\ run'.keep = run.keep /\ run'.retain = run.retain
      /\ run'.known = run.known \cup {j} /\ run'.pc = "match"
      /\ \A k \in Ids : k # i => run'.gone[k] = run.gone[k]
      /\ run'.gone[i] = None
  BY <1>1, <1>2, <1>3 DEF Run
<1>9. TypeOK'
  BY <1>1, <1>3, <1>6, <1>8 DEF TypeOK
<1>10. Types'
  BY <1>1, <1>3, <1>7, <1>8, <1>9 DEF Types
<1>11. CatalogInv'
  BY <1>3, CatalogOn DEF Inv, Quiet
<1>12. /\ Dated' /\ PagesReceived' /\ AllReceived' /\ Has(run.address)' = Has(run.address)
       /\ Received(run)' = Received(run) /\ \A k \in Ids : Newer(k)' <=> Newer(k)
  BY <1>1, <1>3, <1>8, ReadsOn
<1>13. Looked' \subseteq Looked /\ Looked \ {i} \subseteq Looked'
  BY <1>8 DEF Looked
<1>14. IdsListed'
  BY <1>1, <1>3, <1>8, <1>12 DEF RefreshInv, IdsListed, Has
<1>15. RetainedApart'
  BY <1>1, <1>8, <1>12, <1>13 DEF RefreshInv, RetainedApart
<1>16. SameServer' /\ FullBlank'
  BY <1>1, <1>3, <1>8 DEF Inv, JointInv, SameServer, FullBlank, Quiet, Reading
<1>17. ShownListed'
  BY <1>1, <1>3, <1>8, <1>12 DEF Inv, JointInv, ShownListed, Quiet, Shown
<1>18. OthersStay'
  <2> SUFFICES ASSUME Quiet, ~run.full,
                      NEW k \in ((run.known \cup {j}) \cap OwnedIDs' \cap Shown) \ (Received(run) \cup run.keep)
               PROVE  k \in run.retain \/ k \in Looked'
    BY <1>3, <1>8, <1>12 DEF OthersStay, Quiet, Shown
  <2>1. CASE k = j
    <3>1. run.address = activeSignIn
      BY <1>1, <1>3 DEF Inv, JointInv, SameServer
    <3>2. k \in run.keep
      BY <1>1, <1>3, <2>1, <3>1 DEF Inv, JointInv, ShownListed
    <3> QED BY <3>2
  <2>2. CASE k # j
    <3>1. k \in Ids /\ k # i /\ k \in OwnedIDs /\ k \in run.known
      BY <1>6, <2>2 DEF OwnedIDs
    <3>2. k \in run.retain \/ k \in Looked
      BY <1>1, <3>1 DEF Inv, JointInv, OthersStay
    <3> QED BY <1>13, <3>1, <3>2
  <2> QED BY <2>1, <2>2
<1>19. Leaving'
  BY <1>1, <1>3, <1>8 DEF Inv, Leaving, Reading, NoServer, Addresses
<1> QED BY <1>10, <1>11, <1>12, <1>14, <1>15, <1>16, <1>17, <1>18, <1>19 DEF Inv, RefreshInv, JointInv

\* What a refresh applies.
LEMMA AppliedStep == Inv /\ Applied => Inv'
<1> SUFFICES ASSUME Inv, Applied PROVE Inv'
  OBVIOUS
<1> USE DEF catalog, timer, deck, bounds, aux
<1> DEFINE all == {run.cursor} \cup {run.got[i] : i \in Ids}
           newest == MaxOf(all)
           kept == IF run.full THEN run.retain ELSE Ids
           upserted(i) == IF run.got[i] > 0 THEN [of |-> run.address, at |-> run.got[i], removed |-> FALSE]
                          ELSE IF i \in kept THEN roms[i] ELSE NoRow
           listed(i) == run.full \/ i \in run.keep \cup run.retain
<1>1. /\ TypeOK /\ Types /\ run \in Run /\ roms \in [Ids -> Row] /\ cursor \in Nat /\ Now \in Nat /\ Reading
      /\ run.address \in Addresses /\ run.pc = "apply" /\ changes \in Nat
      /\ romm \in [Addresses -> [Ids -> Game]] /\ signin \in [address : {NoServer} \cup Addresses, active : BOOLEAN]
  BY BoundsAssumption DEF Inv, Types, TypeOK, Now, Applied, Reading, Run
<1>2. /\ UNCHANGED <<same, romm, signin, problem, retry, rec, jobs, call, calls, changes, faults, shifted, late>>
      /\ run' = [Off EXCEPT !.pc = "end"] /\ synced' = TRUE
      /\ cursor' = IF newest = 0 THEN cursor ELSE newest
      /\ roms' = [i \in Ids |-> IF ~listed(i) \/ upserted(i) = NoRow THEN NoRow
                                ELSE [upserted(i) EXCEPT !.removed = @ \/ i \in run.retain]]
  BY DEF Applied, Apply
<1>3. newest \in all /\ \A m \in all : m <= newest
  <2>1. run.cursor \in 0 .. Now /\ \A i \in Ids : run.got[i] \in 0 .. Now
    <3>1. run.cursor \in Nat /\ run.cursor <= Now
      BY <1>1 DEF Inv, RefreshInv, Dated, Run
    <3>2. \A i \in Ids : /\ At(run.address)[i].at \in Nat /\ At(run.address)[i].at <= Now
                         /\ run.got[i] \in Nat /\ (run.got[i] > 0 => run.got[i] <= At(run.address)[i].at)
      BY <1>1 DEF Inv, CatalogInv, Clock, RefreshInv, Dated, At, Addresses, Game, Run
    <3>3. \A i \in Ids : run.got[i] <= Now
      BY <1>1, <3>2
    <3> QED BY <1>1, <3>1, <3>2, <3>3
  <2>2. all \in SUBSET (0 .. Now) /\ all # {}
    BY <2>1
  <2> HIDE DEF all
  <2> QED BY <1>1, <2>2, HasGreatest
<1>4. /\ newest \in Nat /\ newest <= Now /\ run.cursor <= newest /\ \A i \in Ids : run.got[i] <= newest
      /\ newest = run.cursor \/ \E i \in Ids : newest = run.got[i]
  <2>1. run.cursor \in Nat /\ \A i \in Ids : run.got[i] \in Nat
    BY <1>1 DEF Run
  <2>2. run.cursor <= newest /\ (\A i \in Ids : run.got[i] <= newest)
        /\ (newest = run.cursor \/ \E i \in Ids : newest = run.got[i])
    BY <1>3
  <2>3. run.cursor <= Now /\ \A i \in Ids : /\ At(run.address)[i].at \in Nat /\ At(run.address)[i].at <= Now
                                            /\ (run.got[i] > 0 => run.got[i] <= At(run.address)[i].at)
    BY <1>1 DEF Inv, CatalogInv, Clock, RefreshInv, Dated, At, Addresses, Game
  <2> HIDE DEF newest
  <2> QED BY <1>1, <2>1, <2>2, <2>3
<1> HIDE DEF newest, all
<1>5. /\ run' \in Run /\ run'.pc = "end"
  BY <1>2, OffRun
<1>6. \A i \in Ids : upserted(i) \in Row
  <2>1. NoRow \in Row /\ \A i \in Ids : run.got[i] \in Nat
    BY <1>1 DEF NoRow, Row, Run
  <2> QED BY <1>1, <2>1 DEF Row
<1>7. ASSUME NEW i \in Ids
      PROVE  /\ roms'[i] = IF ~listed(i) \/ upserted(i) = NoRow THEN NoRow
                           ELSE [upserted(i) EXCEPT !.removed = @ \/ i \in run.retain]
             /\ roms'[i] \in Row
             /\ roms'[i].of # NoServer => listed(i) /\ upserted(i).of # NoServer
             /\ listed(i) /\ upserted(i).of # NoServer => /\ roms'[i].of = upserted(i).of /\ roms'[i].at = upserted(i).at
                                                          /\ roms'[i].removed <=> upserted(i).removed \/ i \in run.retain
  <2>1. roms'[i] = IF ~listed(i) \/ upserted(i) = NoRow THEN NoRow
                   ELSE [upserted(i) EXCEPT !.removed = @ \/ i \in run.retain]
    BY <1>2
  <2>2. upserted(i) \in Row /\ NoRow \in Row /\ NoRow.of = NoServer
    BY <1>6 DEF NoRow, Row
  <2> HIDE DEF listed, upserted
  <2>3. CASE ~listed(i) \/ upserted(i) = NoRow
    BY <2>1, <2>2, <2>3
  <2>4. CASE listed(i) /\ upserted(i) # NoRow
    BY <2>1, <2>2, <2>4 DEF Row
  <2> QED BY <2>1, <2>3, <2>4<1>8. ASSUME NEW i \in Ids
      PROVE  /\ run.got[i] \in Nat
             /\ run.got[i] > 0 => upserted(i).of = run.address /\ upserted(i).at = run.got[i] /\ ~upserted(i).removed
             /\ run.got[i] = 0 /\ ~run.full => upserted(i) = roms[i]
             /\ run.got[i] = 0 /\ run.full => upserted(i) = roms[i] \/ upserted(i).of = NoServer
  BY <1>1 DEF Run, NoRow
<1>9. ASSUME NEW i \in Ids, roms'[i].of = NoServer PROVE roms'[i] = NoRow
  <2>1. roms[i].of = NoServer => roms[i] = NoRow
    BY DEF Inv, CatalogInv, Blank
  <2>2. NoRow \in Row /\ run.address # NoServer
    BY <1>1 DEF NoRow, Row, Addresses, NoServer
  <2>3. upserted(i) \in Row /\ (upserted(i).of = NoServer => upserted(i) = NoRow)
    BY <1>6, <2>1, <2>2
  <2> HIDE DEF upserted, listed
  <2> QED BY <1>7, <1>9, <2>3
<1> HIDE DEF upserted
<1>10. \A i \in Ids : /\ At(run.address)[i].at \in Nat
                      /\ At(run.address)[i].content # None => At(run.address)[i].at > 0
                      /\ run.got[i] > 0 => run.got[i] > run.cursor /\ run.got[i] <= At(run.address)[i].at
  BY <1>1 DEF Inv, CatalogInv, Clock, RefreshInv, Dated, At, Addresses, Game
<1>11. Clock' /\ Blank'
  <2>1. Clock'
    BY <1>2, <1>4 DEF Inv, CatalogInv, Clock, Now
  <2>2. Blank'
    BY <1>2, <1>9 DEF Blank
  <2> QED BY <2>1, <2>2
<1>12. Quiet => run.address = signin.address /\ run.cursor = cursor /\ cursor' = newest
  <2>1. Quiet => run.address = signin.address /\ run.cursor = cursor
    BY <1>1 DEF Inv, JointInv, SameServer
  <2> QED BY <1>1, <1>2, <1>4, <2>1
<1>13. Had'
  <2> SUFFICES ASSUME Quiet, signin.address # NoServer, NEW i \in Ids, roms'[i].of # NoServer
               PROVE  At(signin.address)[i].at > 0
    BY <1>2 DEF Had, Quiet, Shown, At
  <2>1. CASE run.got[i] > 0
    BY <1>8, <1>10, <1>12, <2>1
  <2>2. CASE run.got[i] = 0
    <3>1. i \in Shown
      BY <1>7, <1>8, <2>2 DEF Shown
    <3> QED BY <3>1 DEF Inv, CatalogInv, Had
  <2> QED BY <1>8, <2>1, <2>2
<1>14. CursorHolds'
  <2> SUFFICES ASSUME Quiet, ~shifted, NEW i \in Has(run.address), At(run.address)[i].at <= newest
               PROVE  roms'[i].of # NoServer /\ roms'[i].at = At(run.address)[i].at
    BY <1>2, <1>12 DEF CursorHolds, Quiet, Has, Shown, At
  <2>1. i \in Ids /\ At(run.address)[i].content # None /\ At(run.address)[i].at > 0 /\ At(run.address)[i].at \in Nat
    BY <1>10 DEF Has
  <2>2. ~Newer(i)
    <3>1. run.cursor \in Nat /\ \A j \in Ids : run.got[j] \in Nat
      BY <1>1 DEF Run
    <3> QED BY <1>4, <2>1, <3>1 DEF Newer
  <2>3. listed(i)
    <3>1. ~run.full => i \in run.keep
      BY <1>1, <2>2 DEF Inv, RefreshInv, IdsListed
    <3> QED BY <3>1
  <2> HIDE DEF listed
  <2>4. CASE i \in Changed(run.address, run.cursor)
    <3>1. run.got[i] = At(run.address)[i].at
      BY <1>1, <2>2, <2>4 DEF Inv, RefreshInv, AllReceived
    <3>2. upserted(i).of # NoServer /\ upserted(i).at = At(run.address)[i].at
      BY <1>1, <1>8, <2>1, <3>1 DEF Addresses, NoServer
    <3> QED BY <1>7, <2>1, <2>3, <3>2
  <2>5. CASE i \notin Changed(run.address, run.cursor)
    <3>1. run.cursor # 0 /\ ~(At(run.address)[i].at > run.cursor)
      BY <2>5 DEF Changed
    <3>2. run.cursor \in Nat /\ At(run.address)[i].at <= cursor /\ run.address = signin.address
      BY <1>1, <1>12, <2>1, <3>1
    <3>3. ~run.full
      BY <1>1, <1>12, <3>1 DEF Inv, JointInv, FullBlank, CatalogInv, Blank
    <3>4. i \in Shown /\ roms[i].at = At(run.address)[i].at
      BY <1>1, <3>2 DEF Inv, CatalogInv, CursorHolds, NoServer, Addresses
    <3>5. run.got[i] = 0
      BY <1>8, <1>10, <2>1, <3>1, <3>2
    <3>6. upserted(i) = roms[i] /\ upserted(i).of # NoServer
      BY <1>8, <2>1, <3>3, <3>4, <3>5 DEF Shown
    <3> QED BY <1>7, <2>1, <2>3, <3>4, <3>6
  <2> QED BY <2>4, <2>5
<1>15. MarkedGone'
  <2> SUFFICES ASSUME Quiet, NEW i \in Has(run.address), roms'[i].removed PROVE FALSE
    BY <1>2, <1>12 DEF MarkedGone, Quiet, Has, At
  <2>1. i \in Ids /\ run.address = signin.address /\ signin.address # NoServer
    BY <1>1, <1>12 DEF Has, Addresses, NoServer
  <2>2. roms'[i].of # NoServer
    BY <1>9, <2>1 DEF NoRow
  <2>3. listed(i) /\ upserted(i).of # NoServer /\ (upserted(i).removed \/ i \in run.retain)
    BY <1>7, <2>1, <2>2
  <2>4. CASE run.got[i] > 0
    <3>1. i \notin run.retain
      BY <1>1, <2>1, <2>4 DEF Inv, RefreshInv, RetainedApart, Received
    <3> QED BY <1>8, <2>1, <2>3, <2>4, <3>1
  <2>5. CASE run.got[i] = 0
    <3>1. upserted(i) = roms[i] /\ i \in Shown
      BY <1>8, <2>1, <2>3, <2>5 DEF Shown
    <3>2. ~roms[i].removed
      BY <2>1 DEF Inv, CatalogInv, MarkedGone
    <3>3. ~run.full
      BY <1>1, <3>1 DEF Inv, JointInv, FullBlank, CatalogInv, Blank
    <3>4. i \in run.keep
      BY <1>1, <3>1, <3>3 DEF Inv, JointInv, ShownListed
    <3>5. i \notin run.retain
      BY <1>1, <3>4 DEF Inv, RefreshInv, RetainedApart
    <3> QED BY <2>3, <3>1, <3>2, <3>5
  <2> QED BY <1>8, <2>1, <2>4, <2>5
<1>16. Types'
  <2>1. cursor' \in Nat /\ roms' \in [Ids -> Row] /\ synced' \in BOOLEAN
    BY <1>1, <1>2, <1>4, <1>7
  <2>2. TypeOK'
    BY <1>1, <1>2, <1>5, <2>1 DEF TypeOK
  <2> QED BY <1>1, <1>2, <1>5, <2>2 DEF Types, Reading
<1>17. RefreshInv' /\ JointInv'
  BY <1>5, NotReading
<1>18. Leaving'
  BY <1>1, <1>2, <1>5 DEF Inv, Leaving, OwnedIDs, NoServer, Addresses
<1> QED BY <1>11, <1>13, <1>14, <1>15, <1>16, <1>17, <1>18 DEF Inv, CatalogInv
-----------------------------------------------------------------------------
(* RomM's games change. *)

\* A game changes later than everything, or it is gone; and one that comes is new.
Turned ==
  \A a \in Addresses, k \in Ids :
    \/ At(a)'[k] = At(a)[k]
    \/ /\ At(a)'[k].content # None /\ At(a)'[k].at = Now + 1
       /\ At(a)[k].content # None \/ At(a)[k].at = 0
    \/ At(a)'[k].content = None /\ At(a)'[k].at = At(a)[k].at

LEMMA ChangeTurns ==
  ASSUME TypeOK, Clock, NEW s \in Addresses, NEW i \in Ids, NEW game \in Game, Change(s, i, game),
         \/ game.content # None /\ game.at = Now + 1 /\ (romm[s][i].content # None \/ romm[s][i].at = 0)
         \/ game.content = None /\ game.at = romm[s][i].at
  PROVE  TypeOK' /\ Clock' /\ Turned
<1> USE DEF catalog, timer, deck, bounds, aux
<1>1. /\ romm \in [Addresses -> [Ids -> Game]] /\ changes \in Nat /\ changes < MaxChanges /\ MaxChanges \in Nat
      /\ shifted \in BOOLEAN /\ same \in BOOLEAN /\ Now \in Nat /\ cursor \in Nat
  BY BoundsAssumption DEF TypeOK, Change, Now
<1>2. /\ UNCHANGED <<same, signin, roms, cursor, synced, run, problem, retry, rec, jobs, call, calls, faults, late>>
      /\ changes' = changes + 1 /\ romm' = [romm EXCEPT ![s][i] = game]
      /\ shifted' = (shifted \/ (run.pc = "page" /\ run.offset > 0))
      /\ same => s = 1
  BY DEF Change
<1>3. /\ romm' \in [Addresses -> [Ids -> Game]]
      /\ \A a \in Addresses, k \in Ids : romm'[a][k] = IF a = s /\ k = i THEN game ELSE romm[a][k]
  BY <1>1, <1>2
<1>4. changes' \in 0 .. MaxChanges /\ Now' = Now + 1
  BY <1>1, <1>2 DEF Now
<1>5. shifted' \in BOOLEAN
  BY <1>1, <1>2
<1>6. TypeOK'
  BY <1>2, <1>3, <1>4, <1>5 DEF TypeOK
<1>7. Clock'
  <2>1. \A a \in Addresses, k \in Ids : /\ romm[a][k].at \in Nat /\ romm[a][k].at <= Now
                                        /\ romm[a][k].content # None => romm[a][k].at > 0
    BY <1>1 DEF Clock, Game
  <2>2. game.at <= Now + 1 /\ (game.content # None => game.at > 0)
    BY <1>1, <2>1
  <2>3. \A a \in Addresses, k \in Ids : /\ romm'[a][k].at <= Now + 1
                                        /\ romm'[a][k].content # None => romm'[a][k].at > 0
    BY <1>1, <1>3, <2>1, <2>2
  <2>4. cursor' <= Now'
    BY <1>1, <1>2, <1>4 DEF Clock
  <2> QED BY <1>4, <2>3, <2>4 DEF Clock
<1>8. Turned
  <2> SUFFICES ASSUME NEW a \in Addresses, NEW k \in Ids
               PROVE  \/ At(a)'[k] = At(a)[k]
                      \/ /\ At(a)'[k].content # None /\ At(a)'[k].at = Now + 1
                         /\ At(a)[k].content # None \/ At(a)[k].at = 0
                      \/ At(a)'[k].content = None /\ At(a)'[k].at = At(a)[k].at
    BY DEF Turned
  <2> DEFINE b == IF same THEN 1 ELSE a
  <2>1. b \in Addresses /\ At(a)[k] = romm[b][k] /\ At(a)'[k] = romm'[b][k]
    BY <1>2 DEF At, Addresses
  <2> HIDE DEF b
  <2> QED BY <1>3, <2>1
<1> QED BY <1>6, <1>7, <1>8

LEMMA TurnedKeeps ==
  ASSUME Inv, Turned, TypeOK', Clock',
         UNCHANGED <<same, signin, roms, cursor, synced, run, rec, jobs, call, late>>, changes' = changes + 1,
         shifted' = (shifted \/ (run.pc = "page" /\ run.offset > 0))
  PROVE  Inv'
<1>1. /\ TypeOK /\ run \in Run /\ signin.address \in {NoServer} \cup Addresses /\ cursor \in Nat /\ changes \in Nat
      /\ romm \in [Addresses -> [Ids -> Game]] /\ Now \in Nat /\ Now' = Now + 1
      /\ Reading => run.address \in Addresses
  BY BoundsAssumption DEF Inv, Types, TypeOK, Now, Run
<1>2. Types' /\ Leaving' /\ Blank' /\ SameServer' /\ FullBlank' /\ RetainedApart'
  <2>1. Types'
    BY DEF Inv, Types, Reading
  <2>2. Leaving' /\ Blank'
    BY DEF Inv, Leaving, Reading, OwnedIDs, CatalogInv, Blank, Shown
  <2>3. SameServer' /\ FullBlank' /\ RetainedApart'
    BY DEF Inv, JointInv, SameServer, FullBlank, RefreshInv, RetainedApart, Reading, Quiet, Looked, Received
  <2> QED BY <2>1, <2>2, <2>3
<1>3. \A a \in Addresses, k \in Ids : At(a)[k].at \in Nat /\ At(a)[k].at <= Now /\ At(a)'[k].at >= At(a)[k].at
  <2>1. \A a \in Addresses, k \in Ids : At(a)[k].at \in Nat /\ At(a)[k].at <= Now
    BY <1>1 DEF Inv, CatalogInv, Clock, At, Addresses, Game
  <2> QED BY <1>1, <2>1 DEF Turned
<1>4. ASSUME Quiet, signin.address # NoServer, NEW k \in Ids, At(signin.address)'[k].content # None, k \in Shown
      PROVE  At(signin.address)[k].content # None
  BY <1>1, <1>4 DEF Inv, CatalogInv, Had, Turned
<1>5. Had'
  <2> SUFFICES ASSUME Quiet, signin.address # NoServer, NEW k \in Shown PROVE At(signin.address)'[k].at > 0
    BY DEF Had, Quiet, Shown
  <2>1. k \in Ids /\ At(signin.address)[k].at > 0
    BY DEF Inv, CatalogInv, Had, Shown
  <2>2. At(signin.address)'[k].at \in Nat
    BY <1>1, <2>1 DEF TypeOK, At, Addresses, Game
  <2> QED BY <1>1, <1>3, <2>1, <2>2
<1>6. CursorHolds'
  <2> SUFFICES ASSUME Quiet, ~shifted, signin.address # NoServer, NEW k \in Ids,
                      At(signin.address)'[k].content # None, At(signin.address)'[k].at <= cursor
               PROVE  k \in Shown /\ roms[k].at = At(signin.address)'[k].at
    BY DEF CursorHolds, Quiet, Shown, Has
  <2>1. cursor <= Now
    BY DEF Inv, CatalogInv, Clock
  <2>2. At(signin.address)'[k] = At(signin.address)[k]
    BY <1>1, <2>1 DEF Turned
  <2> QED BY <2>2 DEF Inv, CatalogInv, CursorHolds, Has
<1>7. MarkedGone'
  <2> SUFFICES ASSUME Quiet, signin.address # NoServer, NEW k \in Ids, At(signin.address)'[k].content # None
               PROVE  ~roms[k].removed
    BY DEF MarkedGone, Quiet, Has
  <2>1. CASE k \in Shown
    BY <1>4, <2>1 DEF Inv, CatalogInv, MarkedGone, Has
  <2>2. CASE k \notin Shown
    BY <2>2 DEF Inv, CatalogInv, Blank, Shown, NoRow
  <2> QED BY <2>1, <2>2
<1>8. Dated'
  <2> SUFFICES ASSUME Reading
               PROVE  /\ run.cursor <= Now'
                      /\ \A k \in Ids : run.got[k] > 0 => run.got[k] > run.cursor /\ run.got[k] <= At(run.address)'[k].at
    BY DEF Dated, Reading, At
  <2>1. run.cursor <= Now /\ run.cursor \in Nat
    BY <1>1 DEF Inv, RefreshInv, Dated, Run
  <2>2. \A k \in Ids : /\ run.got[k] \in Nat /\ At(run.address)'[k].at \in Nat
                       /\ run.got[k] > 0 => run.got[k] > run.cursor /\ run.got[k] <= At(run.address)[k].at
    <3>1. \A k \in Ids : run.got[k] \in Nat
      BY <1>1 DEF Run
    <3>2. \A k \in Ids : At(run.address)'[k].at \in Nat
      BY <1>1 DEF TypeOK, At, Addresses, Game
    <3> QED BY <3>1, <3>2 DEF Inv, RefreshInv, Dated
  <2>3. \A k \in Ids : At(run.address)[k].at \in Nat /\ At(run.address)'[k].at >= At(run.address)[k].at
    BY <1>1, <1>3
  <2>4. \A k \in Ids : run.got[k] > 0 => run.got[k] > run.cursor /\ run.got[k] <= At(run.address)'[k].at
    BY <2>2, <2>3
  <2> QED BY <1>1, <2>1, <2>4
<1>9. ASSUME NEW k \in Ids, Reading, At(run.address)'[k].content # None
      PROVE  \/ At(run.address)'[k] = At(run.address)[k]
             \/ /\ Newer(k)'
                /\ At(run.address)[k].content # None \/ At(run.address)[k].at = 0
  <2>1. CASE At(run.address)'[k] # At(run.address)[k]
    <3>1. /\ At(run.address)'[k].at = Now + 1
          /\ At(run.address)[k].content # None \/ At(run.address)[k].at = 0
      BY <1>1, <1>9, <2>1 DEF Turned
    <3>2. run.cursor \in Nat /\ run.cursor <= Now
      BY <1>1, <1>9 DEF Inv, RefreshInv, Dated, Run
    <3>3. \A j \in Ids : /\ run.got[j] \in Nat
                         /\ run.got[j] > 0 => run.got[j] <= At(run.address)[j].at
      BY <1>1, <1>9 DEF Inv, RefreshInv, Dated, Run
    <3>4. \A j \in Ids : At(run.address)[j].at \in Nat /\ At(run.address)[j].at <= Now
      BY <1>1, <1>3, <1>9
    <3>5. Now + 1 > run.cursor /\ \A j \in Ids : Now + 1 > run.got[j]
      BY <1>1, <3>2, <3>3, <3>4
    <3>6. Newer(k)'
      BY <3>1, <3>5 DEF Newer
    <3> QED BY <3>1, <3>6
  <2> QED BY <2>1
<1>10. PagesReceived'
  <2> SUFFICES ASSUME ~shifted, run.pc = "page", ~(run.offset > 0), NEW i \in Ids
               PROVE  run.got[i] = 0 /\ ~(Before(Changed(run.address, run.cursor)', i) < run.offset)
    BY DEF PagesReceived
  <2>1. run.offset = 0
    BY <1>1 DEF Run
  <2>2. Changed(run.address, run.cursor) \in SUBSET Ids /\ Changed(run.address, run.cursor)' \in SUBSET Ids
    BY DEF Changed, Has
  <2>3. run.got[i] = IF /\ i \in Changed(run.address, run.cursor)
                        /\ Before(Changed(run.address, run.cursor), i) < run.offset
                     THEN At(run.address)[i].at ELSE 0
    BY DEF Inv, RefreshInv, PagesReceived
  <2> DEFINE old == Changed(run.address, run.cursor)
             new == Changed(run.address, run.cursor)'
  <2>4. old \in SUBSET Ids /\ new \in SUBSET Ids
    BY <2>2
  <2> HIDE DEF old, new
  <2>5. Before(old, i) \in Nat /\ Before(new, i) \in Nat
    BY <2>4, BeforeNat
  <2> QED BY <2>1, <2>3, <2>5 DEF old, new
<1>11. AllReceived'
  <2> SUFFICES ASSUME ~shifted, run.pc \in {"ids", "gone", "match", "apply"}, NEW k \in Changed(run.address, run.cursor)'
               PROVE  run.got[k] = At(run.address)'[k].at \/ Newer(k)'
    BY DEF AllReceived, At
  <2>1. Reading /\ k \in Ids /\ At(run.address)'[k].content # None
        /\ (run.cursor = 0 \/ At(run.address)'[k].at > run.cursor)
    BY DEF Reading, Changed, Has
  <2>2. CASE At(run.address)'[k] = At(run.address)[k]
    <3>1. k \in Changed(run.address, run.cursor)
      BY <2>1, <2>2 DEF Changed, Has
    <3>2. run.got[k] = At(run.address)[k].at \/ Newer(k)
      BY <3>1 DEF Inv, RefreshInv, AllReceived
    <3> QED BY <2>2, <3>2 DEF Newer
  <2> QED BY <1>9, <2>1, <2>2
<1>12. IdsListed'
  <2> SUFFICES ASSUME run.pc \in {"gone", "match", "apply"}, ~run.full, NEW k \in Has(run.address)'
               PROVE  k \in run.keep \/ Newer(k)'
    BY DEF IdsListed
  <2>1. Reading /\ k \in Ids /\ At(run.address)'[k].content # None
    BY DEF Reading, Has
  <2>2. CASE At(run.address)'[k] = At(run.address)[k]
    <3>1. k \in Has(run.address)
      BY <2>1, <2>2 DEF Has
    <3>2. k \in run.keep \/ Newer(k)
      BY <3>1 DEF Inv, RefreshInv, IdsListed
    <3> QED BY <2>2, <3>2 DEF Newer
  <2> QED BY <1>9, <2>1, <2>2
<1>13. ShownListed'
  <2> SUFFICES ASSUME Quiet, run.pc \in {"gone", "match", "apply"}, ~run.full, NEW k \in Shown,
                      k \in Has(run.address)'
               PROVE  k \in run.keep
    BY DEF ShownListed, Quiet, Shown
  <2>1. Reading /\ k \in Ids /\ At(run.address)'[k].content # None /\ run.address = signin.address
        /\ signin.address # NoServer
    BY <1>1 DEF Reading, Has, Inv, JointInv, SameServer, Addresses, NoServer
  <2>2. At(run.address)[k].content # None
    BY <1>4, <2>1
  <2>3. k \in Has(run.address)
    BY <2>1, <2>2 DEF Has
  <2> QED BY <2>3 DEF Inv, JointInv, ShownListed
<1>14. OthersStay'
  BY DEF Inv, JointInv, OthersStay, Quiet, Shown, OwnedIDs, Received, Looked
<1> QED BY <1>2, <1>5, <1>6, <1>7, <1>8, <1>10, <1>11, <1>12, <1>13, <1>14 DEF Inv, CatalogInv, RefreshInv, JointInv

LEMMA RommSteps ==
  ASSUME Inv, NEW s \in Addresses, NEW i \in Ids, Touched(s, i) \/ Deleted(s, i) \/ \E c \in Contents : Imported(s, i, c)
  PROVE  Inv'
<1> USE DEF catalog, timer, deck, bounds, aux
<1>1. TypeOK /\ Clock /\ romm[s][i] \in Game /\ Now + 1 \in Nat
  BY BoundsAssumption DEF Inv, Types, TypeOK, CatalogInv, Now
<1>2. ASSUME NEW game \in Game, Change(s, i, game), TypeOK' /\ Clock' /\ Turned PROVE Inv'
  <2>1. /\ UNCHANGED <<same, signin, roms, cursor, synced, run, rec, jobs, call, late>> /\ changes' = changes + 1
        /\ shifted' = (shifted \/ (run.pc = "page" /\ run.offset > 0))
    BY <1>2 DEF Change
  <2> QED BY <1>2, <2>1, TurnedKeeps
<1>3. CASE Touched(s, i)
  <2>1. PICK game \in Game : /\ Change(s, i, game) /\ game.content = romm[s][i].content /\ game.at = Now + 1
                             /\ romm[s][i].content # None
    <3> DEFINE game == [romm[s][i] EXCEPT !.at = Now + 1]
    <3>1. game \in Game /\ game.content = romm[s][i].content /\ game.at = Now + 1
      BY <1>1 DEF Game
    <3>2. Change(s, i, game) /\ romm[s][i].content # None
      BY <1>3 DEF Touched
    <3> QED BY <3>1, <3>2
  <2> QED BY <1>1, <1>2, <2>1, ChangeTurns
<1>4. CASE Deleted(s, i)
  <2>1. PICK game \in Game : Change(s, i, game) /\ game.content = None /\ game.at = romm[s][i].at
    <3> DEFINE game == [romm[s][i] EXCEPT !.content = None]
    <3>1. game \in Game /\ game.content = None /\ game.at = romm[s][i].at
      BY <1>1 DEF Game
    <3>2. Change(s, i, game)
      BY <1>4 DEF Deleted
    <3> QED BY <3>1, <3>2
  <2> QED BY <1>1, <1>2, <2>1, ChangeTurns
<1>5. ASSUME NEW c \in Contents, Imported(s, i, c) PROVE Inv'
  <2>1. PICK game \in Game : Change(s, i, game) /\ game.content = c /\ game.at = Now + 1
    <3> DEFINE game == [content |-> c, at |-> Now + 1]
    <3>1. game \in Game /\ game.content = c /\ game.at = Now + 1
      BY <1>1 DEF Game
    <3>2. Change(s, i, game)
      BY <1>5 DEF Imported
    <3> QED BY <3>1, <3>2
  <2>2. c # None /\ romm[s][i].at = 0
    BY <1>5, ContentsAssumption DEF Imported
  <2> QED BY <1>1, <1>2, <2>1, <2>2, ChangeTurns
<1> QED BY <1>3, <1>4, <1>5
-----------------------------------------------------------------------------
LEMMA InvInit == Init => Inv
<1> SUFFICES ASSUME Init PROVE Inv
  OBVIOUS
<1>1. PICK c \in Contents : romm = [s \in Addresses |-> [i \in Ids |-> IF i = 1 THEN [content |-> c, at |-> 1]
                                                                       ELSE [content |-> None, at |-> 0]]]
  BY DEF Init
<1>2. /\ same \in BOOLEAN /\ signin = [address |-> 1, active |-> TRUE]
      /\ roms = [i \in Ids |-> NoRow] /\ cursor = 0 /\ synced = FALSE
      /\ run = Off /\ problem = "none" /\ retry = FALSE
      /\ rec = [i \in Ids |-> NoRecord] /\ jobs = [i \in Ids |-> "none"]
      /\ call = NoCall /\ changes = 0 /\ calls = 0 /\ faults = 0 /\ shifted = FALSE /\ late = FALSE
  BY DEF Init
<1>3. /\ romm \in [Addresses -> [Ids -> Game]]
      /\ \A s \in Addresses, i \in Ids : romm[s][i].at \in {0, 1} /\ (romm[s][i].content # None => romm[s][i].at > 0)
  <2>1. [content |-> c, at |-> 1] \in Game /\ [content |-> None, at |-> 0] \in Game
    BY DEF Game
  <2>2. \A s \in Addresses, i \in Ids : romm[s][i] \in {[content |-> c, at |-> 1], [content |-> None, at |-> 0]}
    BY <1>1
  <2>3. romm \in [Addresses -> [Ids -> Game]]
    BY <1>1, <2>1
  <2> QED BY <2>2, <2>3
<1>4. TypeOK
  <2>1. run \in Run /\ roms \in [Ids -> Row] /\ rec \in [Ids -> Record] /\ call \in Call
    BY <1>2, OffRun DEF NoRow, Row, NoRecord, Record, NoCall, Call
  <2>2. signin \in [address : {NoServer} \cup Addresses, active : BOOLEAN] /\ problem \in Kinds /\ jobs \in [Ids -> Jobs]
    BY <1>2 DEF Addresses, Kinds, Jobs
  <2>3. changes \in 0 .. MaxChanges /\ calls \in 0 .. MaxCalls /\ faults \in 0 .. MaxFaults
    BY <1>2, BoundsAssumption
  <2> QED BY <1>2, <1>3, <2>1, <2>2, <2>3 DEF TypeOK
<1>5. run.pc = "off" /\ ~Reading /\ signin.address # NoServer /\ call.pc = "off" /\ ~call.forgets
  <2>1. run.pc = "off" /\ ~Reading
    BY <1>2, OffRun DEF Reading
  <2>2. signin.address # NoServer /\ call.pc = "off" /\ ~call.forgets
    BY <1>2 DEF NoServer, NoCall
  <2> QED BY <2>1, <2>2
<1>6. Shown = {} /\ OwnedIDs = {} /\ \A i \in Ids : roms[i] = NoRow
  BY <1>2 DEF Shown, OwnedIDs, NoRow
<1>7. Types
  BY <1>2, <1>4, <1>5, <1>6 DEF Types, OwnedIDs
<1>8. CatalogInv
  <2>1. Clock
    BY <1>2, <1>3 DEF Clock, Now
  <2>2. Blank /\ Had /\ MarkedGone
    BY <1>2, <1>6 DEF Blank, Had, MarkedGone, NoRow, Has
  <2>3. CursorHolds
    <3> SUFFICES ASSUME NEW i \in Has(signin.address) PROVE ~(At(signin.address)[i].at <= 0)
      BY <1>2 DEF CursorHolds
    <3>1. At(signin.address)[i].at \in {0, 1} /\ At(signin.address)[i].at > 0
      BY <1>2, <1>3 DEF Has, At, Addresses
    <3> QED BY <3>1
  <2> QED BY <2>1, <2>2, <2>3 DEF CatalogInv
<1>9. RefreshInv
  BY <1>5 DEF RefreshInv, Dated, PagesReceived, AllReceived, IdsListed, RetainedApart
<1>10. JointInv
  BY <1>5 DEF JointInv, SameServer, FullBlank, ShownListed, OthersStay
<1>11. Leaving
  BY <1>5 DEF Leaving
<1> QED BY <1>7, <1>8, <1>9, <1>10, <1>11 DEF Inv

LEMMA InvStep == Inv /\ [Next]_vars => Inv'
<1> SUFFICES ASSUME Inv, [Next]_vars PROVE Inv'
  OBVIOUS
<1>1. CASE Asked \/ Retry \/ ThenRefresh \/ End \/ RequestFails
  BY <1>1, EndSteps
<1>2. CASE Sync \/ Page \/ KeepIds \/ Gone \/ Matched \/ Applied
  BY <1>2, SyncStep, PageStep, KeepIdsStep, GoneStep, MatchedStep, AppliedStep
<1>3. CASE \E i \in Ids : Match(i)
  BY <1>3, MatchStep
<1>4. CASE \/ Waited \/ ForgetServer \/ StopRetry \/ EmptyFails \/ ClearCache \/ Forget \/ Lapses \/ ForgetSignIn
           \/ \E a \in Addresses : Move(a) \/ SignIn(a)
  BY <1>4, CallSteps
<1>5. CASE Empty
  BY <1>5, EmptyStep
<1>6. CASE \E i \in Ids : Queue(i) \/ Downloaded(i) \/ JobEnds(i) \/ Delete(i)
  BY <1>6, DeckSteps
<1>7. CASE \E s \in Addresses, i \in Ids : Touched(s, i) \/ Deleted(s, i) \/ \E c \in Contents : Imported(s, i, c)
  BY <1>7, RommSteps
<1>8. CASE UNCHANGED vars
  <2>1. /\ UNCHANGED <<same, romm, signin, roms, cursor, synced, run, problem, retry, rec, jobs, call, changes, calls,
                       faults, shifted, late>>
    BY <1>8 DEF vars, catalog, timer, deck, bounds, aux
  <2>2. /\ problem' \in Kinds /\ retry' \in BOOLEAN /\ call' \in Call /\ calls' \in 0 .. MaxCalls
        /\ (call'.pc = "off" => call' = NoCall) /\ (Quiet' => Quiet)
    BY <2>1 DEF Inv, Types, TypeOK, Quiet
  <2>3. Leaving'
    BY <2>1 DEF Inv, Leaving, OwnedIDs, Reading
  <2> QED BY <2>1, <2>2, <2>3, AroundCall
<1> QED BY <1>1, <1>2, <1>3, <1>4, <1>5, <1>6, <1>7, <1>8 DEF Next, RunStep, CallStep

LEMMA InvHolds == Spec => []Inv
<1> QED BY InvInit, InvStep, PTL DEF Spec

-----------------------------------------------------------------------------
(* Theorems. *)

\* The variables keep their types: the Catalog's rows, the refresh and the call under way, the records.
THEOREM TypesHold == Spec => []TypeOK
<1>1. Inv => TypeOK
  BY DEF Inv, Types
<1> QED BY <1>1, InvHolds, PTL

\* No refresh moves the cursor past a change the Catalog lacks, however the pages fall and whatever
\* fails between them, as long as RomM's games stand still while the pages come (catalog.go, sync).
THEOREM CoveredHolds == Spec => []Covered
<1>1. Inv => Covered
  BY DEF Inv, CatalogInv, CursorHolds, Covered, Undisturbed, Current, Quiet, NoCall
<1> QED BY <1>1, InvHolds, PTL

\* A game marked Removed from RomM isn't on RomM, whichever way the refresh was interrupted
\* (removed.go, Rematch).
THEOREM RemovedGoneHolds == Spec => []RemovedGone
<1>1. Inv => RemovedGone
  BY DEF Inv, CatalogInv, MarkedGone, RemovedGone, Current, Quiet, NoCall
<1> QED BY <1>1, InvHolds, PTL

\* Forgetting a server leaves nothing of it on this Deck, unless a refresh or a download overtook the
\* call (server.go, Forget).
THEOREM ForgottenHolds == Spec => []Forgotten
<1>1. Inv => Forgotten
  BY DEF Inv, CatalogInv, Blank, Leaving, Forgotten
<1> QED BY <1>1, InvHolds, PTL

\* No refresh takes a game this Deck has a record of out of the library (cache/store.go, Apply).
THEOREM RecordsShownHolds == Spec => RecordsShown
<1>1. ASSUME Inv, Applied, Current, NEW i \in RecordedGone \ Received(run)
      PROVE  roms'[i].of # NoServer
  <2>1. /\ Quiet /\ Reading /\ run.pc = "apply" /\ i \in Ids /\ run \in Run /\ roms \in [Ids -> Row]
        /\ i \in (run.known \cap OwnedIDs \cap Shown) \ Received(run) /\ roms[i].of # NoServer
    BY <1>1 DEF Quiet, Current, NoCall, Reading, Applied, RecordedGone, Shown, Inv, Types, TypeOK
  <2>2. ~run.full
    BY <1>1, <2>1 DEF Inv, JointInv, FullBlank, CatalogInv, Blank
  <2>3. i \in run.keep \cup run.retain
    BY <1>1, <2>1, <2>2 DEF Inv, JointInv, OthersStay
  <2>4. ~(run.got[i] > 0)
    BY <2>1 DEF Received
  <2>5. roms[i] # NoRow
    BY <2>1 DEF NoRow
  <2>6. roms'[i] = [roms[i] EXCEPT !.removed = @ \/ i \in run.retain]
    BY <1>1, <2>1, <2>2, <2>3, <2>4, <2>5 DEF Applied, Apply
  <2> QED BY <2>1, <2>6 DEF Row
<1>2. Inv /\ [Next]_vars => [Applied /\ Current => \A i \in RecordedGone \ Received(run) : roms'[i].of # NoServer]_vars
  BY <1>1
<1> QED BY <1>2, InvHolds, PTL DEF Spec, RecordsShown

================================================================================
