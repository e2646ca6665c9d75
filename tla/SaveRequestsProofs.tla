-------------------------- MODULE SaveRequestsProofs --------------------------
(* Theorems of SaveRequests, for every set of games, emulators and          *)
(* goroutines, and every bound.                                            *)
EXTENDS SaveRequests, TLAPS

-----------------------------------------------------------------------------
(* The inductive invariant. *)

\* Where a pass that work began hasn't read the saves yet.
Reading == {"check", "lock", "plan"}

\* The game's save will be read: the game is pending, or the pass that covers it is yet to read.
OnItsWay(g) ==
  pendingAll \/ g \in pending \/ \E w \in Workers : thr[w].pc \in Reading /\ g \in Covers(w)

\* Whatever is asked for is on its way.
Ahead == \A g \in owed : OnItsWay(g)

\* What a pass of work's is yet to read is current.
CoversCurrent ==
  \A w \in Workers : thr[w].pc \in Reading => \A g \in Covers(w) : currentAll \/ g \in current

\* The watch asks for one game's sync at a time.
OneGame == loop.pc = "compare" => \E g \in Games : loop.ids = {g}

\* A save written is on its way, from the watch on.
Heard ==
  \A g \in (unread \cap differs) \ missed :
    g \in armed \/ g \in settled \/ (loop.pc = "compare" /\ g \in loop.ids) \/ OnItsWay(g)

Inv == TypeOK /\ OneWorker /\ AskedHeard /\ Ahead /\ CoversCurrent /\ OneGame /\ Heard

\* What doesn't depend on the watch.
Queue == OneWorker /\ AskedHeard /\ Ahead /\ CoversCurrent

LEMMA Records == Off \in Thread /\ Top \in Thread /\ Off.pc = "off" /\ Top.pc = "top" /\ Off.mine = {} /\ Top.mine = {}
BY DEF Off, Top, Thread, ThreadPC, Plan

LEMMA InitInv == Init => Inv
<1> SUFFICES ASSUME Init PROVE Inv
  OBVIOUS
<1>1. \A x \in Threads : thr[x] = Off
  BY DEF Init
<1>2. TypeOK
  <2>1. thr \in [Threads -> Thread]
    BY Records DEF Init
  <2>2. wrote \in [Games -> {"no", "recent"}] /\ rec \in [Games -> States] /\ loop \in Loop
    BY DEF Init, States, Loop, LoopPC, Select
  <2>3. {pendingAll, pendingManual, currentAll, working, recent, waits, ready} \subseteq BOOLEAN
    BY DEF Init
  <2>4. writes \in 0 .. MaxWrites /\ asks \in 0 .. MaxAsks /\ faults \in 0 .. MaxFaults
    BY BoundsAssumption DEF Init
  <2> QED BY <2>1, <2>2, <2>3, <2>4 DEF Init, TypeOK
<1>3. OneWorker /\ AskedHeard /\ CoversCurrent
  BY <1>1, Records DEF Init, OneWorker, AskedHeard, CoversCurrent, Reading, Threads
<1>4. Ahead /\ OneGame /\ Heard
  BY DEF Init, Ahead, OneGame, Heard, Select
<1> QED BY <1>2, <1>3, <1>4 DEF Inv

-----------------------------------------------------------------------------
(* What one goroutine's step leaves as it was.                              *)

\* A goroutine goes on: the others stay.
LEMMA OneThread ==
  ASSUME TypeOK, NEW x \in Threads, NEW r \in Thread, thr' = [thr EXCEPT ![x] = r]
  PROVE  /\ thr' \in [Threads -> Thread]
         /\ thr'[x] = r
         /\ \A y \in Threads : y # x => thr'[y] = thr[y]
BY DEF TypeOK

\* Neither a worker that starts or ends, nor a request.
LEMMA GoesOn ==
  ASSUME TypeOK, OneWorker, AskedHeard, NEW x \in Threads, NEW r \in Thread,
         thr' = [thr EXCEPT ![x] = r], UNCHANGED request, UNCHANGED asked,
         x \in Workers => /\ (r.pc = "off" <=> thr[x].pc = "off")
                          /\ r.mine # {} => r.manual
  PROVE  thr' \in [Threads -> Thread] /\ OneWorker' /\ AskedHeard'
<1>1. thr' \in [Threads -> Thread] /\ thr'[x] = r /\ \A y \in Threads : y # x => thr'[y] = thr[y]
  BY OneThread
<1>2. \A w \in Workers : thr'[w].pc # "off" <=> thr[w].pc # "off"
  BY <1>1 DEF Threads
<1>3. OneWorker'
  BY <1>2 DEF OneWorker, request
<1>4. AskedHeard'
  BY <1>1 DEF AskedHeard, request, Threads
<1> QED BY <1>1, <1>3, <1>4

\* A game stays on its way unless the pass that covers it goes beyond reading.
LEMMA WayKept ==
  ASSUME TypeOK, NEW x \in Threads, NEW r \in Thread, thr' = [thr EXCEPT ![x] = r], UNCHANGED request,
         NEW g, OnItsWay(g),
         x \in Workers /\ thr[x].pc \in Reading /\ g \in Covers(x) => r.pc \in Reading /\ g \in Cover(r.all, r.ids)
  PROVE  OnItsWay(g)'
<1>1. thr'[x] = r /\ \A y \in Threads : y # x => thr'[y] = thr[y]
  BY OneThread
<1>2. CASE pendingAll \/ g \in pending
  BY <1>2 DEF OnItsWay, request
<1>3. CASE \E w \in Workers : thr[w].pc \in Reading /\ g \in Covers(w)
  <2>1. PICK w \in Workers : thr[w].pc \in Reading /\ g \in Covers(w)
    BY <1>3
  <2>2. thr'[w].pc \in Reading /\ g \in Covers(w)'
    BY <1>1, <2>1 DEF Covers, Threads
  <2> QED BY <2>2 DEF OnItsWay
<1> QED BY <1>2, <1>3 DEF OnItsWay

\* What is read stays current as long as current doesn't change.
LEMMA CurrentKept ==
  ASSUME TypeOK, CoversCurrent, NEW x \in Threads, NEW r \in Thread, thr' = [thr EXCEPT ![x] = r],
         UNCHANGED <<current, currentAll>>,
         x \in Workers /\ r.pc \in Reading => thr[x].pc \in Reading /\ r.all = thr[x].all /\ r.ids = thr[x].ids
  PROVE  CoversCurrent'
<1>1. thr'[x] = r /\ \A y \in Threads : y # x => thr'[y] = thr[y]
  BY OneThread
<1> QED BY <1>1 DEF CoversCurrent, Covers, Threads

\* The one worker there is goes on, and nobody else reads.
LEMMA OnlyOne ==
  ASSUME TypeOK, OneWorker, NEW w \in Workers, thr[w].pc # "off", NEW r \in Thread, thr' = [thr EXCEPT ![w] = r]
  PROVE  /\ thr'[w] = r
         /\ \A v \in Workers : v # w => thr'[v] = thr[v] /\ thr[v].pc = "off"
         /\ thr' \in [Threads -> Thread]
<1>1. thr'[w] = r /\ (\A y \in Threads : y # w => thr'[y] = thr[y]) /\ thr' \in [Threads -> Thread]
  BY OneThread DEF Threads
<1> QED BY <1>1 DEF OneWorker, Threads

-----------------------------------------------------------------------------
(* request. *)

\* A request keeps the queue as it should be, and takes its games on their way.
LEMMA AskQueues ==
  ASSUME TypeOK, Queue, NEW th \in [Threads -> Thread], \A w \in Workers : th[w] = thr[w],
         NEW ids \in SUBSET Games, NEW all \in BOOLEAN, NEW manual \in BOOLEAN,
         Ask(th, ids, all, manual), UNCHANGED <<current, currentAll>>
  PROVE  /\ pending' \subseteq Games /\ {pendingAll', pendingManual', working'} \subseteq BOOLEAN
         /\ thr' \in [Threads -> Thread] /\ owed' \subseteq Games /\ asked' \subseteq Games
         /\ Queue'
         /\ \A g \in Games : OnItsWay(g) \/ g \in Cover(all, ids) => OnItsWay(g)'
<1>1. pending' \subseteq Games /\ owed' \subseteq Games /\ asked' \subseteq Games
  BY DEF Ask, TypeOK, Cover
<1>2. {pendingAll', pendingManual', working'} \subseteq BOOLEAN
  BY DEF Ask
<1>3. /\ thr' \in [Threads -> Thread]
      /\ \A w \in Workers : thr[w].pc # "off" => thr'[w] = thr[w]
      /\ \A w \in Workers : thr[w].pc = "off" => thr'[w].pc \in {"off", "top"} /\ (thr'[w] # thr[w] => thr'[w] = Top)
      /\ \E w \in Workers : thr'[w].pc # "off"
      /\ \A v, w \in Workers : thr'[w].pc # "off" /\ thr'[v].pc # "off" => v = w
  <2>1. CASE working
    <3>1. thr' = th
      BY <2>1 DEF Ask
    <3> QED BY <2>1, <3>1 DEF Queue, OneWorker
  <2>2. CASE ~working
    <3>1. PICK w \in Workers : thr[w].pc = "off" /\ thr' = [th EXCEPT ![w] = Top]
      BY <2>2 DEF Ask
    <3>2. \A v \in Workers : thr[v].pc = "off"
      BY <2>2 DEF Queue, OneWorker
    <3>3. thr' \in [Threads -> Thread] /\ thr'[w] = Top /\ \A v \in Workers : v # w => thr'[v] = thr[v]
      BY <3>1, Records DEF Threads
    <3> QED BY <3>2, <3>3, Records
  <2> QED BY <2>1, <2>2
<1>4. OneWorker'
  BY <1>3 DEF Ask, OneWorker
<1>5. AskedHeard'
  <2>1. \A w \in Workers : thr'[w].mine # {} => thr'[w].manual
    BY <1>3, Records DEF Queue, AskedHeard
  <2>2. asked' # {} => pendingManual'
    BY DEF Ask, Queue, AskedHeard
  <2> QED BY <2>1, <2>2 DEF AskedHeard
<1>6. CoversCurrent'
  BY <1>3 DEF Queue, CoversCurrent, Reading, Covers
<1>7. ASSUME NEW g \in Games, OnItsWay(g) \/ g \in Cover(all, ids) PROVE OnItsWay(g)'
  <2>1. CASE g \in Cover(all, ids)
    BY <2>1 DEF Cover, OnItsWay, Ask
  <2>2. CASE pendingAll \/ g \in pending
    BY <2>2 DEF OnItsWay, Ask
  <2>3. CASE \E w \in Workers : thr[w].pc \in Reading /\ g \in Covers(w)
    <3>1. PICK w \in Workers : thr[w].pc \in Reading /\ g \in Covers(w)
      BY <2>3
    <3>2. thr'[w] = thr[w]
      BY <1>3, <3>1 DEF Reading
    <3> QED BY <3>1, <3>2 DEF OnItsWay, Covers
  <2> QED BY <1>7, <2>1, <2>2, <2>3 DEF OnItsWay
<1>8. Ahead'
  <2>1. owed' = owed \cup Cover(all, ids) /\ Cover(all, ids) \subseteq Games
    BY DEF Ask, Cover
  <2>2. \A g \in owed : g \in Games /\ OnItsWay(g)
    BY DEF Queue, Ahead, TypeOK
  <2> QED BY <1>7, <2>1, <2>2 DEF Ahead
<1> QED BY <1>1, <1>2, <1>3, <1>4, <1>5, <1>6, <1>7, <1>8 DEF Queue

-----------------------------------------------------------------------------
(* The steps that make a request. *)

\* A request by whom nothing else changes: the watch's saves stay on their way.
LEMMA AskKeeps ==
  ASSUME Inv, NEW th \in [Threads -> Thread], \A w \in Workers : th[w] = thr[w],
         NEW ids \in SUBSET Games, NEW all \in BOOLEAN, NEW manual \in BOOLEAN,
         Ask(th, ids, all, manual), UNCHANGED <<running, waits, watch, rec, save, playing, ready, writes, faults>>,
         loop' \in Loop, OneGame', asks' \in 0 .. MaxAsks,
         \A g \in Games : loop.pc = "compare" /\ g \in loop.ids /\ g \in differs =>
                            g \in ids \/ (loop'.pc = "compare" /\ g \in loop'.ids)
  PROVE  Inv'
<1>1. /\ pending' \subseteq Games /\ {pendingAll', pendingManual', working'} \subseteq BOOLEAN
      /\ thr' \in [Threads -> Thread] /\ owed' \subseteq Games /\ asked' \subseteq Games
      /\ Queue'
      /\ \A g \in Games : OnItsWay(g) \/ g \in Cover(all, ids) => OnItsWay(g)'
  BY AskQueues DEF Inv, Queue, running
<1>2. TypeOK'
  BY <1>1 DEF Inv, TypeOK, running, watch, save
<1>3. Heard'
  <2> SUFFICES ASSUME NEW g \in (unread \cap differs) \ missed
               PROVE  g \in armed \/ g \in settled \/ (loop'.pc = "compare" /\ g \in loop'.ids) \/ OnItsWay(g)'
    BY DEF Heard, save, watch
  <2>1. g \in Games
    BY DEF Inv, TypeOK
  <2>2. g \in ids => OnItsWay(g)'
    BY <1>1, <2>1 DEF Cover
  <2> QED BY <1>1, <2>1, <2>2 DEF Inv, Heard
<1> QED BY <1>1, <1>2, <1>3 DEF Inv, Queue

LEMMA StartInv == ASSUME Inv, NEW ids \in SUBSET Games, NEW all \in BOOLEAN, Start(ids, all) PROVE Inv'
<1>1. asks' \in 0 .. MaxAsks
  BY BoundsAssumption DEF Inv, TypeOK, Start
<1>2. thr \in [Threads -> Thread] /\ loop' \in Loop /\ OneGame'
  BY DEF Inv, TypeOK, OneGame, Start
<1> QED BY <1>1, <1>2, AskKeeps DEF Start

LEMMA PullInv == ASSUME Inv, Pull PROVE Inv'
<1>1. thr \in [Threads -> Thread] /\ loop' \in Loop /\ OneGame' /\ asks' \in 0 .. MaxAsks
  BY DEF Inv, TypeOK, OneGame, Pull, world
<1> QED BY <1>1, AskKeeps DEF Pull, world

\* A caller that is done.
LEMMA CallerOff ==
  ASSUME TypeOK, NEW c \in Callers
  PROVE  /\ [thr EXCEPT ![c] = Off] \in [Threads -> Thread]
         /\ \A w \in Workers : [thr EXCEPT ![c] = Off][w] = thr[w]
BY Records, ThreadsAssumption DEF TypeOK, Threads

LEMMA OpenedAsksInv == ASSUME Inv, NEW c \in Callers, OpenedAsks(c) PROVE Inv'
<1>1. loop' \in Loop /\ OneGame' /\ asks' \in 0 .. MaxAsks
  BY DEF Inv, TypeOK, OneGame, OpenedAsks, world
<1> QED BY <1>1, AskKeeps, CallerOff DEF OpenedAsks, world, Inv

LEMMA AfterSyncInv == ASSUME Inv, NEW c \in Callers, AfterSync(c) PROVE Inv'
<1>1. loop' \in Loop /\ OneGame' /\ asks' \in 0 .. MaxAsks
  BY DEF Inv, TypeOK, OneGame, AfterSync, world
<1>2. CASE Ask([thr EXCEPT ![c] = Off], thr[c].ids, FALSE, thr[c].manual)
  <2>1. thr[c].ids \in SUBSET Games /\ thr[c].manual \in BOOLEAN
    BY DEF Inv, TypeOK, Thread, Threads
  <2> DEFINE th == [thr EXCEPT ![c] = Off]
  <2>2. th \in [Threads -> Thread] /\ \A w \in Workers : th[w] = thr[w]
    BY CallerOff DEF Inv
  <2>3. Ask(th, thr[c].ids, FALSE, thr[c].manual)
    BY <1>2
  <2> HIDE DEF th
  <2> QED BY <1>1, <2>1, <2>2, <2>3, AskKeeps DEF AfterSync, world
<1>3. CASE thr' = [thr EXCEPT ![c] = Off] /\ UNCHANGED <<request, aux>>
  <2>1. c \in Threads /\ c \notin Workers
    BY ThreadsAssumption DEF Threads
  <2>2. Off \in Thread
    BY Records
  <2>3. thr' \in [Threads -> Thread] /\ OneWorker' /\ AskedHeard'
    BY <1>3, <2>1, <2>2, GoesOn DEF Inv, aux
  <2>4. CoversCurrent'
    BY <1>3, <2>1, <2>2, CurrentKept DEF Inv, AfterSync, running
  <2>5. \A g : OnItsWay(g) => OnItsWay(g)'
    BY <1>3, <2>1, <2>2, WayKept DEF Inv
  <2> QED BY <1>1, <1>3, <2>3, <2>4, <2>5
       DEF Inv, TypeOK, Ahead, Heard, OneGame, AfterSync, request, running, watch, save, world, aux
<1> QED BY <1>2, <1>3 DEF AfterSync

LEMMA RetryAskInv == ASSUME Inv, RetryAsk PROVE Inv'
<1>1. Select \in Loop /\ Select.pc # "compare"
  BY DEF Select, Loop, LoopPC
<1>2. thr \in [Threads -> Thread] /\ loop' \in Loop /\ OneGame' /\ asks' \in 0 .. MaxAsks /\ loop.ids \in SUBSET Games
  BY <1>1 DEF Inv, TypeOK, OneGame, RetryAsk, world, Loop
<1> QED BY <1>2, AskKeeps DEF RetryAsk, world

LEMMA WrittenInv == ASSUME Inv, Written PROVE Inv'
<1>1. Select \in Loop /\ Select.pc # "compare"
  BY DEF Select, Loop, LoopPC
<1>2. thr \in [Threads -> Thread] /\ loop' \in Loop /\ OneGame' /\ asks' \in 0 .. MaxAsks /\ loop.ids \in SUBSET Games
  BY <1>1 DEF Inv, TypeOK, OneGame, Written, world, Loop
<1>3. CASE loop.ids \subseteq differs
  BY <1>2, <1>3, AskKeeps DEF Written, world
<1>4. CASE ~(loop.ids \subseteq differs)
  <2>1. \A g \in differs : g \notin loop.ids
    BY <1>4 DEF Inv, OneGame, Written
  <2>2. UNCHANGED <<request, running, waits, watch, thr, rec, save, world, aux>>
    BY <1>4 DEF Written
  <2>3. Queue'
    BY <2>2 DEF Inv, Queue, OneWorker, AskedHeard, Ahead, OnItsWay, CoversCurrent, Covers, request, running, aux
  <2>4. \A g : OnItsWay(g) => OnItsWay(g)'
    BY <2>2 DEF OnItsWay, Covers, request
  <2>5. Heard'
    BY <2>1, <2>2, <2>4 DEF Inv, Heard, save, watch
  <2>6. TypeOK'
    BY <1>2, <2>2 DEF Inv, TypeOK, request, running, watch, save, world, aux
  <2> QED BY <1>2, <2>3, <2>5, <2>6 DEF Inv, Queue
<1> QED BY <1>3, <1>4

-----------------------------------------------------------------------------
(* The steps of one goroutine. *)

\* work takes what is pending.
LEMMA TakeInv == ASSUME Inv, NEW w \in Workers, Take(w) PROVE Inv'
<1> DEFINE r == [Off EXCEPT !.pc = "check", !.all = pendingAll, !.ids = IF pendingAll THEN {} ELSE pending,
                            !.manual = pendingManual, !.mine = asked]
<1>1. r \in Thread /\ r.pc = "check" /\ r.all = pendingAll /\ r.ids = (IF pendingAll THEN {} ELSE pending)
      /\ r.manual = pendingManual /\ r.mine = asked
  BY DEF Inv, TypeOK, Off, Thread, ThreadPC, Plan
<1>2. thr' = [thr EXCEPT ![w] = r] /\ thr[w].pc = "top"
  BY DEF Take
<1> HIDE DEF r
<1>3. /\ thr'[w] = r /\ thr' \in [Threads -> Thread]
      /\ \A v \in Workers : v # w => thr'[v] = thr[v] /\ thr[v].pc = "off"
  BY <1>1, <1>2, OnlyOne DEF Inv
<1>4. TypeOK'
  BY <1>3 DEF Inv, TypeOK, Take, watch, save, world
<1>5. OneWorker' /\ AskedHeard'
  BY <1>1, <1>3 DEF Inv, OneWorker, AskedHeard, Take
<1>6. \A g : g \in Covers(w)' <=> IF pendingAll THEN g \in Games ELSE g \in pending
  BY <1>1, <1>3 DEF Covers, Cover
<1>7. CoversCurrent'
  BY <1>1, <1>3, <1>6 DEF CoversCurrent, Reading, Take
<1>8. \A g \in Games : OnItsWay(g) => OnItsWay(g)'
  BY <1>1, <1>2, <1>3, <1>6 DEF OnItsWay, Reading
<1>9. Ahead' /\ Heard' /\ OneGame'
  BY <1>8 DEF Inv, TypeOK, Ahead, Heard, OneGame, Take, watch, save
<1> QED BY <1>4, <1>5, <1>7, <1>9 DEF Inv

\* Nothing is on its way when work rests.
LEMMA RestInv == ASSUME Inv, NEW w \in Workers, Rest(w) PROVE Inv'
<1>1. thr' = [thr EXCEPT ![w] = Off] /\ thr[w].pc = "top" /\ Off \in Thread /\ Off.pc = "off" /\ Off.mine = {}
  BY Records DEF Rest
<1>2. /\ thr'[w] = Off /\ thr' \in [Threads -> Thread]
      /\ \A v \in Workers : v # w => thr'[v] = thr[v] /\ thr[v].pc = "off"
  BY <1>1, OnlyOne DEF Inv
<1>3. TypeOK'
  BY <1>2 DEF Inv, TypeOK, Rest, running, watch, save, world, aux
<1>4. OneWorker' /\ AskedHeard' /\ CoversCurrent'
  BY <1>1, <1>2 DEF Inv, OneWorker, AskedHeard, CoversCurrent, Reading, Rest, running, aux
<1>5. \A g : ~OnItsWay(g)
  BY <1>1, <1>2 DEF OnItsWay, Reading, Rest
<1>6. Ahead' /\ Heard' /\ OneGame'
  BY <1>5 DEF Inv, Ahead, Heard, OneGame, Rest, watch, save, aux
<1> QED BY <1>3, <1>4, <1>6 DEF Inv

LEMMA SkipInv == ASSUME Inv, NEW w \in Workers, Skip(w) PROVE Inv'
<1> DEFINE r == [Top EXCEPT !.mine = thr[w].mine]
<1>1. thr[w] \in Thread /\ thr[w].pc = "check" /\ thr[w].mine = {}
  BY DEF Inv, TypeOK, AskedHeard, Skip, Threads
<1>2. r \in Thread /\ r.pc = "top" /\ r.mine = {}
  BY <1>1, Records DEF Thread
<1>3. thr' = [thr EXCEPT ![w] = r]
  BY DEF Skip
<1> HIDE DEF r
<1>4. thr' \in [Threads -> Thread] /\ OneWorker' /\ AskedHeard'
  BY <1>1, <1>2, <1>3, GoesOn DEF Inv, Skip, Threads
<1>5. TypeOK'
  BY <1>4 DEF Inv, TypeOK, Skip, request, save, world, watch
<1>6. CoversCurrent'
  BY <1>1, <1>2, <1>3, OnlyOne DEF Inv, CoversCurrent, Reading
<1>7. \A g : OnItsWay(g) /\ g \notin Covers(w) => OnItsWay(g)'
  BY <1>2, <1>3, WayKept DEF Inv, Skip, Threads
<1>8. Ahead' /\ OneGame' /\ Heard'
  BY <1>7 DEF Inv, Ahead, OneGame, Heard, Skip, save
<1> QED BY <1>4, <1>5, <1>6, <1>8 DEF Inv

LEMMA ReportInv == ASSUME Inv, NEW w \in Workers, Report(w) PROVE Inv'
<1>1. thr' = [thr EXCEPT ![w] = Top] /\ thr[w].pc = "report" /\ Top \in Thread /\ Top.pc = "top" /\ Top.mine = {}
  BY Records DEF Report
<1>2. thr' \in [Threads -> Thread] /\ OneWorker' /\ AskedHeard'
  BY <1>1, GoesOn DEF Inv, Report, aux, Threads
<1>3. TypeOK'
  <2>1. waits' \in BOOLEAN
    BY DEF Report
  <2> QED BY <1>2, <2>1 DEF Inv, TypeOK, Report, request, watch, save, world, aux
<1>4. CoversCurrent'
  BY <1>1, OnlyOne DEF Inv, CoversCurrent, Reading
<1>5. \A g : OnItsWay(g) => OnItsWay(g)'
  BY <1>1, WayKept DEF Inv, Report, Reading, Threads
<1>6. Ahead' /\ OneGame' /\ Heard'
  BY <1>5 DEF Inv, Ahead, OneGame, Heard, Report, watch, save, aux
<1> QED BY <1>2, <1>3, <1>4, <1>6 DEF Inv

\* What x does once its pass is over.
LEMMA Overs ==
  ASSUME TypeOK, NEW x \in Threads
  PROVE  /\ Over(x) \in Thread /\ Over(x).pc \in {"report", "after"}
         /\ x \in Workers => Over(x).mine = thr[x].mine /\ Over(x).manual = thr[x].manual
<1>1. thr[x] \in Thread /\ Off \in Thread
  BY Records DEF TypeOK
<1> QED BY <1>1 DEF Over, Thread, ThreadPC

\* A goroutine goes on with r; what it was to read and no longer is, isn't asked for any more, nor
\* written.
LEMMA StepKeeps ==
  ASSUME Inv, NEW x \in Threads, NEW r \in Thread, thr' = [thr EXCEPT ![x] = r],
         UNCHANGED <<request, running, waits, loop, asked>>,
         x \in Workers => /\ thr[x].pc # "off" /\ r.pc # "off"
                          /\ r.mine = thr[x].mine /\ r.manual = thr[x].manual,
         x \in Workers /\ r.pc \in Reading => thr[x].pc \in Reading /\ r.all = thr[x].all /\ r.ids = thr[x].ids,
         owed' \subseteq owed,
         unread' \cap differs' \subseteq unread \cap differs, missed \subseteq missed' \cup (Games \ unread'),
         \A g \in unread' \cap differs' : g \in armed \/ g \in settled => g \in armed' \/ g \in settled',
         x \in Workers /\ thr[x].pc \in Reading /\ r.pc \notin Reading =>
           \A g \in Covers(x) : g \notin owed' /\ (g \notin unread' \/ g \in missed')
  PROVE  thr' \in [Threads -> Thread] /\ Queue' /\ OneGame' /\ Heard'
<1>1. thr' \in [Threads -> Thread] /\ OneWorker' /\ AskedHeard'
  BY GoesOn DEF Inv, AskedHeard
<1>2. CoversCurrent'
  BY CurrentKept DEF Inv, running
<1>3. \A g : OnItsWay(g) /\ ~(x \in Workers /\ thr[x].pc \in Reading /\ r.pc \notin Reading /\ g \in Covers(x)) => OnItsWay(g)'
  BY WayKept DEF Inv, Covers
<1>4. Ahead'
  BY <1>3 DEF Inv, Ahead
<1>5. Heard'
  <2> SUFFICES ASSUME NEW g \in (unread' \cap differs') \ missed'
               PROVE  g \in armed' \/ g \in settled' \/ (loop'.pc = "compare" /\ g \in loop'.ids) \/ OnItsWay(g)'
    BY DEF Heard
  <2>1. g \in (unread \cap differs) \ missed
    BY DEF Inv, TypeOK
  <2> QED BY <1>3, <2>1 DEF Inv, Heard
<1> QED BY <1>1, <1>2, <1>4, <1>5 DEF Inv, OneGame, Queue

\* Nothing is read or asked for: r is all that changes for the queue.
LEMMA StepOnly ==
  ASSUME Inv, NEW x \in Threads, NEW r \in Thread, thr' = [thr EXCEPT ![x] = r],
         UNCHANGED <<request, running, waits, loop, aux>>,
         x \in Workers => /\ thr[x].pc # "off" /\ r.pc # "off"
                          /\ r.mine = thr[x].mine /\ r.manual = thr[x].manual,
         x \in Workers => (r.pc \in Reading <=> thr[x].pc \in Reading) /\ r.all = thr[x].all /\ r.ids = thr[x].ids,
         unread' = unread, differs' \subseteq differs, missed' = missed,
         armed \subseteq armed', settled' = settled
  PROVE  thr' \in [Threads -> Thread] /\ Queue' /\ OneGame' /\ Heard'
BY StepKeeps DEF aux, Inv, TypeOK

LEMMA CallInv ==
  ASSUME Inv, NEW c \in Callers, Opened(c) \/ \E g \in Games, m \in BOOLEAN : SyncOne(c, g, m)
  PROVE  Inv'
<1>1. c \in Threads /\ c \notin Workers
  BY ThreadsAssumption DEF Threads
<1>2. PICK r \in Thread : thr' = [thr EXCEPT ![c] = r]
  <2>1. CASE Opened(c)
    <3>1. [Off EXCEPT !.pc = "open", !.all = TRUE] \in Thread
      BY Records DEF Thread, ThreadPC
    <3> QED BY <2>1, <3>1 DEF Opened
  <2>2. CASE \E g \in Games, m \in BOOLEAN : SyncOne(c, g, m)
    <3>1. PICK g \in Games, m \in BOOLEAN : SyncOne(c, g, m)
      BY <2>2
    <3>2. [Off EXCEPT !.pc = "lock", !.ids = {g}, !.manual = m] \in Thread
      BY Records DEF Thread, ThreadPC
    <3> QED BY <3>1, <3>2 DEF SyncOne
  <2> QED BY <2>1, <2>2
<1>3. /\ UNCHANGED <<request, running, waits, loop, watch, rec, save, playing, ready, writes, faults, aux>>
      /\ asks < MaxAsks /\ asks' = asks + 1
  BY DEF Opened, SyncOne
<1>4. thr' \in [Threads -> Thread] /\ Queue' /\ OneGame' /\ Heard'
  BY <1>1, <1>2, <1>3, StepOnly DEF watch, save
<1>5. asks' \in 0 .. MaxAsks
  BY <1>3, BoundsAssumption DEF Inv, TypeOK
<1>6. TypeOK'
  BY <1>3, <1>4, <1>5 DEF Inv, TypeOK, request, running, watch, save, aux
<1> QED BY <1>4, <1>6 DEF Inv, Queue

\* Where a goroutine goes without more.
LEMMA Goes ==
  ASSUME Inv, NEW x \in Threads, NEW pc \in ThreadPC, Goto(x, pc),
         UNCHANGED <<request, running, waits, loop, watch, save, aux>>,
         x \in Workers => thr[x].pc # "off" /\ pc # "off" /\ (pc \in Reading <=> thr[x].pc \in Reading)
  PROVE  thr' \in [Threads -> Thread] /\ Queue' /\ OneGame' /\ Heard'
<1> DEFINE r == [thr[x] EXCEPT !.pc = pc]
<1>1. thr[x] \in Thread
  BY DEF Inv, TypeOK
<1>2. r \in Thread /\ r.pc = pc /\ r.mine = thr[x].mine /\ r.manual = thr[x].manual /\ r.all = thr[x].all /\ r.ids = thr[x].ids
  BY <1>1 DEF Thread
<1>3. thr' = [thr EXCEPT ![x] = r]
  BY DEF Goto
<1> HIDE DEF r
<1> QED BY <1>2, <1>3, StepOnly DEF watch, save

LEMMA BeginInv == ASSUME Inv, NEW w \in Workers, Begin(w) PROVE Inv'
<1>1. thr' \in [Threads -> Thread] /\ Queue' /\ OneGame' /\ Heard'
  BY Goes DEF Begin, Reading, Threads, ThreadPC
<1>2. TypeOK'
  BY <1>1 DEF Inv, TypeOK, Begin, request, running, watch, save, world, aux
<1> QED BY <1>1, <1>2 DEF Inv, Queue

LEMMA LockInv == ASSUME Inv, NEW x \in Threads, Lock(x) PROVE Inv'
<1>1. CASE ready
  <2>1. Goto(x, "plan") /\ UNCHANGED <<owed, missed>> /\ thr[x].pc = "lock"
    BY <1>1 DEF Lock
  <2>2. thr' \in [Threads -> Thread] /\ Queue' /\ OneGame' /\ Heard'
    BY <2>1, Goes DEF Lock, Reading, ThreadPC, watch, aux
  <2>3. TypeOK'
    BY <2>1, <2>2 DEF Inv, TypeOK, Lock, request, running, save, world
  <2> QED BY <2>2, <2>3 DEF Inv, Queue
<1>2. CASE ~ready
  <2>1. /\ thr' = [thr EXCEPT ![x] = Over(x)] /\ thr[x].pc = "lock"
        /\ owed' = (IF x \in Workers THEN owed \ Covers(x) ELSE owed)
        /\ missed' = missed \cup (Covers(x) \cap unread)
        /\ UNCHANGED <<request, running, waits, loop, armed, settled, wrote, rec, save, world, asked>>
    BY <1>2 DEF Lock
  <2>2. thr' \in [Threads -> Thread] /\ Queue' /\ OneGame' /\ Heard'
    BY <2>1, Overs, StepKeeps DEF Inv, Reading, save
  <2>3. TypeOK'
    BY <2>1, <2>2 DEF Inv, TypeOK, request, running, save, world
  <2> QED BY <2>2, <2>3 DEF Inv, Queue
<1> QED BY <1>1, <1>2

LEMMA NegotiateInv == ASSUME Inv, NEW x \in Threads, Negotiate(x) PROVE Inv'
<1> DEFINE r == [thr[x] EXCEPT !.pc = "step", !.todo = Covers(x),
                  !.plan = [g \in Games |-> IF g \in Covers(x) THEN PlanOf(g) ELSE "none"]]
<1>1. thr[x] \in Thread /\ Covers(x) \subseteq Games
  BY DEF Inv, TypeOK, Covers, Cover, Thread
<1>2. \A g : PlanOf(g) \in Plan
  BY DEF PlanOf, Plan
<1>3. r \in Thread /\ r.pc = "step" /\ r.mine = thr[x].mine /\ r.manual = thr[x].manual
  BY <1>1, <1>2 DEF Thread, ThreadPC, Plan
<1>4. thr' = [thr EXCEPT ![x] = r] /\ thr[x].pc = "plan"
  BY DEF Negotiate
<1> HIDE DEF r
<1>5. thr' \in [Threads -> Thread] /\ Queue' /\ OneGame' /\ Heard'
  BY <1>1, <1>3, <1>4, StepKeeps DEF Negotiate, Reading, Inv, TypeOK
<1>6. TypeOK'
  BY <1>5 DEF Inv, TypeOK, Negotiate, request, running, world
<1> QED BY <1>5, <1>6 DEF Inv, Queue

LEMMA NegotiateFailsInv == ASSUME Inv, NEW x \in Threads, NegotiateFails(x) PROVE Inv'
<1>1. Covers(x) \subseteq Games
  BY DEF Inv, TypeOK, Covers, Cover, Thread
<1>2. thr' \in [Threads -> Thread] /\ Queue' /\ OneGame' /\ Heard'
  BY <1>1, Overs, StepKeeps DEF NegotiateFails, Reading, Inv, TypeOK
<1>3. faults' \in 0 .. MaxFaults
  BY BoundsAssumption DEF Inv, TypeOK, NegotiateFails
<1>4. TypeOK'
  BY <1>2, <1>3 DEF Inv, TypeOK, NegotiateFails, request, running
<1> QED BY <1>2, <1>4 DEF Inv, Queue

LEMMA PassEndsInv == ASSUME Inv, NEW x \in Threads, PassEnds(x) PROVE Inv'
<1>1. thr' \in [Threads -> Thread] /\ Queue' /\ OneGame' /\ Heard'
  BY Overs, StepKeeps DEF PassEnds, Reading, Inv, TypeOK, watch, save, aux
<1>2. TypeOK'
  BY <1>1 DEF Inv, TypeOK, PassEnds, request, running, watch, save, world, aux
<1> QED BY <1>1, <1>2 DEF Inv, Queue

\* A game's step is done.
LEMMA Dones ==
  ASSUME Inv, NEW x \in Threads, NEW g \in Games, NEW state \in States, Done(x, g, state),
         thr[x].pc = "step", UNCHANGED <<request, running, waits, loop, aux>>,
         unread' = unread, differs' \subseteq differs, missed' = missed,
         armed \subseteq armed', settled' = settled
  PROVE  thr' \in [Threads -> Thread] /\ rec' \in [Games -> States] /\ Queue' /\ OneGame' /\ Heard'
<1> DEFINE r == [thr[x] EXCEPT !.todo = @ \ {g}, !.waiting = @ \/ state = "waiting"]
<1>1. thr[x] \in Thread
  BY DEF Inv, TypeOK
<1>2. r \in Thread /\ r.pc = "step" /\ r.mine = thr[x].mine /\ r.manual = thr[x].manual /\ r.all = thr[x].all /\ r.ids = thr[x].ids
  BY <1>1 DEF Thread
<1>3. thr' = [thr EXCEPT ![x] = r]
  BY DEF Done
<1> HIDE DEF r
<1>4. rec' \in [Games -> States]
  BY DEF Inv, TypeOK, Done
<1> QED BY <1>2, <1>3, <1>4, StepOnly

LEMMA GameStepInv ==
  ASSUME Inv, NEW x \in Threads, NEW g \in Games,
         Upload(x, g) \/ Waits(x, g) \/ Download(x, g) \/ Compare(x, g) \/ StepFails(x, g)
  PROVE  Inv'
<1>1. CASE Upload(x, g)
  <2>1. thr' \in [Threads -> Thread] /\ rec' \in [Games -> States] /\ Queue' /\ OneGame' /\ Heard'
    BY <1>1, Dones DEF Upload, States, watch
  <2>2. TypeOK'
    BY <1>1, <2>1 DEF Inv, TypeOK, Upload, request, running, watch, world, aux
  <2> QED BY <2>1, <2>2 DEF Inv, Queue
<1>2. CASE Waits(x, g)
  <2>1. thr' \in [Threads -> Thread] /\ rec' \in [Games -> States] /\ Queue' /\ OneGame' /\ Heard'
    BY <1>2, Dones DEF Waits, States, watch, save
  <2>2. TypeOK'
    BY <1>2, <2>1 DEF Inv, TypeOK, Waits, request, running, watch, save, world, aux
  <2> QED BY <2>1, <2>2 DEF Inv, Queue
<1>3. CASE Download(x, g)
  <2>1. thr' \in [Threads -> Thread] /\ rec' \in [Games -> States] /\ Queue' /\ OneGame' /\ Heard'
    BY <1>3, Dones DEF Download, States
  <2>2. wrote' \in [Games -> {"no", "recent"}]
    BY <1>3 DEF Inv, TypeOK, Download
  <2>3. TypeOK'
    BY <1>3, <2>1, <2>2 DEF Inv, TypeOK, Download, request, running, world, aux
  <2> QED BY <2>1, <2>3 DEF Inv, Queue
<1>4. CASE Compare(x, g)
  <2>1. thr' \in [Threads -> Thread] /\ rec' \in [Games -> States] /\ Queue' /\ OneGame' /\ Heard'
    BY <1>4, Dones DEF Compare, States, watch, save
  <2>2. TypeOK'
    BY <1>4, <2>1 DEF Inv, TypeOK, Compare, request, running, watch, save, world, aux
  <2> QED BY <2>1, <2>2 DEF Inv, Queue
<1>5. CASE StepFails(x, g)
  <2>1. thr' \in [Threads -> Thread] /\ rec' \in [Games -> States] /\ Queue' /\ OneGame' /\ Heard'
    BY <1>5, Dones DEF StepFails, States, watch, save
  <2>2. faults' \in 0 .. MaxFaults
    BY <1>5, BoundsAssumption DEF Inv, TypeOK, StepFails
  <2>3. TypeOK'
    BY <1>5, <2>1, <2>2 DEF Inv, TypeOK, StepFails, request, running, watch, save, aux
  <2> QED BY <2>1, <2>3 DEF Inv, Queue
<1> QED BY <1>1, <1>2, <1>3, <1>4, <1>5

-----------------------------------------------------------------------------
(* Everyone else's steps. *)

\* The queue stays as it is.
LEMMA QueueKept ==
  ASSUME Queue, UNCHANGED <<request, current, currentAll, thr, aux>>
  PROVE  Queue' /\ \A g : OnItsWay(g) => OnItsWay(g)'
BY DEF Queue, OneWorker, AskedHeard, Ahead, OnItsWay, CoversCurrent, Covers, request, aux

LEMMA WatchInv == ASSUME Inv, NEW g \in Games, Fire(g) \/ Settled(g) \/ WriteAges(g) PROVE Inv'
<1>1. UNCHANGED <<request, running, waits, thr, rec, save, world, aux>>
  BY DEF Fire, Settled, WriteAges
<1>2. Queue' /\ \A h : OnItsWay(h) => OnItsWay(h)'
  BY <1>1, QueueKept DEF Inv, Queue, running
<1>3. /\ loop' \in Loop /\ OneGame' /\ wrote' \in [Games -> {"no", "recent"}]
      /\ armed' \subseteq Games /\ settled' \subseteq Games /\ missed' \subseteq Games
  <2>1. [Select EXCEPT !.pc = "compare", !.ids = {g}] \in Loop
        /\ [Select EXCEPT !.pc = "compare", !.ids = {g}].ids = {g}
    BY DEF Select, Loop, LoopPC
  <2>2. wrote' \in [Games -> {"no", "recent"}]
    BY DEF Inv, TypeOK, Fire, Settled, WriteAges
  <2>3. armed' \subseteq Games /\ settled' \subseteq Games /\ missed' \subseteq Games
    BY DEF Inv, TypeOK, Fire, Settled, WriteAges
  <2>4. loop' \in Loop /\ OneGame'
    BY <2>1 DEF Inv, TypeOK, OneGame, Fire, Settled, WriteAges
  <2> QED BY <2>2, <2>3, <2>4
<1>4. TypeOK'
  BY <1>1, <1>3 DEF Inv, TypeOK, request, running, save, world, aux
<1>5. Heard'
  <2> SUFFICES ASSUME NEW h \in (unread \cap differs) \ missed'
               PROVE  h \in armed' \/ h \in settled' \/ (loop'.pc = "compare" /\ h \in loop'.ids) \/ OnItsWay(h)'
    BY <1>1 DEF Heard, save
  <2>1. h \in armed \/ h \in settled \/ (loop.pc = "compare" /\ h \in loop.ids) \/ OnItsWay(h)
    BY DEF Inv, Heard, Fire, Settled, WriteAges
  <2>2. CASE Settled(g)
    <3>1. h = g => loop'.pc = "compare" /\ h \in loop'.ids
      BY <2>2 DEF Settled, Select
    <3> QED BY <1>2, <2>1, <2>2, <3>1 DEF Settled
  <2>3. CASE Fire(g) \/ WriteAges(g)
    BY <1>2, <2>1, <2>3 DEF Fire, WriteAges
  <2> QED BY <2>2, <2>3
<1> QED BY <1>2, <1>3, <1>4, <1>5 DEF Inv, Queue

LEMMA RetryInv == ASSUME Inv, Poll \/ RetrySet PROVE Inv'
<1>1. UNCHANGED <<request, running, watch, thr, rec, save, world, aux>>
  BY DEF Poll, RetrySet
<1>2. Queue' /\ \A h : OnItsWay(h) => OnItsWay(h)'
  BY <1>1, QueueKept DEF Inv, Queue, running
<1>3. loop' \in Loop /\ loop'.pc # "compare" /\ loop.pc # "compare"
  <2>1. CASE Poll
    <3> DEFINE ids == {g \in Games : rec[g] = "waiting" /\ ~Runs(g)}
               still == \E g \in Games : rec[g] = "waiting" /\ Runs(g)
    <3>1. loop' = [pc |-> "set", ids |-> ids, still |-> still] /\ loop.pc = "select"
      BY <2>1 DEF Poll
    <3>2. ids \subseteq Games /\ still \in BOOLEAN
      OBVIOUS
    <3> HIDE DEF ids, still
    <3> QED BY <3>1, <3>2 DEF Loop, LoopPC
  <2>2. CASE RetrySet
    BY <2>2 DEF Inv, TypeOK, RetrySet, Loop, LoopPC, Select
  <2> QED BY <2>1, <2>2
<1>4. waits' \in BOOLEAN
  BY DEF Inv, TypeOK, Poll, RetrySet, Loop
<1>5. TypeOK'
  BY <1>1, <1>3, <1>4 DEF Inv, TypeOK, request, running, watch, save, world, aux
<1>6. OneGame' /\ Heard'
  BY <1>1, <1>2, <1>3 DEF Inv, OneGame, Heard, watch, save
<1> QED BY <1>2, <1>5, <1>6 DEF Inv, Queue

LEMMA WorldInv ==
  ASSUME Inv, (\E g \in Games : EmulatorWrites(g) \/ OtherDevice(g)) \/ (\E e \in Emus : Play(e)) \/ ReadyTurns \/ GapPasses
  PROVE  Inv'
<1>1. UNCHANGED <<request, current, currentAll, waits, loop, settled, wrote, missed, thr, rec, aux>>
  BY DEF EmulatorWrites, OtherDevice, Play, ReadyTurns, GapPasses, running, watch, save
<1>2. Queue' /\ \A h : OnItsWay(h) => OnItsWay(h)'
  BY <1>1, QueueKept DEF Inv, Queue
<1>3. /\ armed' \subseteq Games /\ differs' \subseteq Games /\ unread' \subseteq Games /\ newer' \subseteq Games
      /\ playing' \subseteq Emus
  BY DEF Inv, TypeOK, EmulatorWrites, OtherDevice, Play, ReadyTurns, GapPasses, running, watch, save, world
<1>4. writes' \in 0 .. MaxWrites /\ asks' \in 0 .. MaxAsks /\ faults' \in 0 .. MaxFaults
  BY BoundsAssumption DEF Inv, TypeOK, EmulatorWrites, OtherDevice, Play, ReadyTurns, GapPasses, world
<1>5. {recent', ready'} \subseteq BOOLEAN
  BY DEF Inv, TypeOK, EmulatorWrites, OtherDevice, Play, ReadyTurns, GapPasses, running, world
<1>6. TypeOK'
  BY <1>1, <1>3, <1>4, <1>5 DEF Inv, TypeOK, request, aux
<1>7. OneGame'
  BY <1>1 DEF Inv, OneGame
<1>8. Heard'
  <2>1. \A h \in unread' \cap differs' : h \in unread \cap differs \/ h \in armed'
    BY DEF EmulatorWrites, OtherDevice, Play, ReadyTurns, GapPasses, save
  <2>2. armed \subseteq armed'
    BY DEF EmulatorWrites, OtherDevice, Play, ReadyTurns, GapPasses, watch
  <2> QED BY <1>1, <1>2, <2>1, <2>2 DEF Inv, Heard
<1> QED BY <1>2, <1>6, <1>7, <1>8 DEF Inv, Queue

-----------------------------------------------------------------------------
(* The theorems. *)

LEMMA StutterInv == ASSUME Inv, UNCHANGED vars PROVE Inv'
<1>1. UNCHANGED <<request, running, waits, thr, loop, watch, rec, save, world, aux>>
  BY DEF vars
<1>2. Queue' /\ \A g : OnItsWay(g) => OnItsWay(g)'
  BY <1>1, QueueKept DEF Inv, Queue, running
<1>3. TypeOK'
  BY <1>1 DEF Inv, TypeOK, request, running, watch, save, world, aux
<1>4. OneGame' /\ Heard'
  BY <1>1, <1>2 DEF Inv, OneGame, Heard, watch, save
<1> QED BY <1>2, <1>3, <1>4 DEF Inv, Queue

LEMMA NextInv == Inv /\ [Next]_vars => Inv'
<1> SUFFICES ASSUME Inv, [Next]_vars PROVE Inv'
  OBVIOUS
<1>1. ASSUME NEW w \in Workers, Work(w) PROVE Inv'
  BY <1>1, TakeInv, RestInv, SkipInv, BeginInv, ReportInv DEF Work
<1>2. ASSUME NEW x \in Threads, Pass(x) PROVE Inv'
  BY <1>2, LockInv, NegotiateInv, NegotiateFailsInv, PassEndsInv, GameStepInv DEF Pass
<1>3. ASSUME NEW c \in Callers, Call(c) \/ Opened(c) \/ \E g \in Games, m \in BOOLEAN : SyncOne(c, g, m) PROVE Inv'
  BY <1>3, CallInv, OpenedAsksInv, AfterSyncInv DEF Call
<1>4. ASSUME NEW ids \in SUBSET Games, NEW all \in BOOLEAN, Start(ids, all) PROVE Inv'
  BY <1>4, StartInv
<1>5. ASSUME Pull \/ Poll \/ Turn PROVE Inv'
  BY <1>5, PullInv, RetryInv, WrittenInv, RetryAskInv DEF Turn
<1>6. ASSUME NEW g \in Games, Fire(g) \/ Settled(g) \/ WriteAges(g) PROVE Inv'
  BY <1>6, WatchInv
<1>7. ASSUME (\E g \in Games : EmulatorWrites(g) \/ OtherDevice(g)) \/ (\E e \in Emus : Play(e)) \/ ReadyTurns \/ GapPasses
      PROVE Inv'
  BY <1>7, WorldInv
<1> QED BY <1>1, <1>2, <1>3, <1>4, <1>5, <1>6, <1>7, StutterInv DEF Next

\* The invariant holds.
THEOREM InvHolds == Spec => []Inv
BY InitInv, NextInv, PTL DEF Spec

\* Every variable has its type.
THEOREM TypesHold == Spec => []TypeOK
<1>1. Inv => TypeOK
  BY DEF Inv
<1> QED BY <1>1, InvHolds, PTL

\* One goroutine at a time runs the queued syncs, and one does as long as any is queued.
THEOREM OneWorkerHolds == Spec => []OneWorker
<1>1. Inv => OneWorker
  BY DEF Inv
<1> QED BY <1>1, InvHolds, PTL

\* No request is dropped: its games show as syncing until a pass has read their saves.
THEOREM RequestsKeptHolds == Spec => []RequestsKept
<1>1. Inv => RequestsKept
  BY DEF Inv, Ahead, OnItsWay, CoversCurrent, RequestsKept, Syncing
<1> QED BY <1>1, InvHolds, PTL

\* What the user asked for is told.
THEOREM AskedHeardHolds == Spec => []AskedHeard
<1>1. Inv => AskedHeard
  BY DEF Inv
<1> QED BY <1>1, InvHolds, PTL

\* A save that was written is on its way to a pass.
THEOREM WritesHeardHolds == Spec => []WritesHeard
<1>1. Inv => WritesHeard
  BY DEF Inv, Heard, OnItsWay, CoversCurrent, WritesHeard, Syncing
<1> QED BY <1>1, InvHolds, PTL

-----------------------------------------------------------------------------
(* Requests implement Coalescing: every step is one of its steps, or none. *)

\* Where work stands between two syncs.
Between == {"off", "top"}

\* No sync is running while work is between two.
Idle == (\A w \in Workers : thr[w].pc \in Between) => current = {} /\ ~currentAll

\* A step that neither begins nor ends a sync, nor asks for one.
LEMMA NoPart ==
  ASSUME TypeOK, Idle, NEW x \in Threads, NEW r \in Thread, thr' = [thr EXCEPT ![x] = r],
         UNCHANGED <<request, current, currentAll>>,
         x \in Workers => r.pc \notin Between \/ thr[x].pc \in Between
  PROVE  Idle' /\ UNCHANGED Promise!vars
<1>1. thr'[x] = r /\ \A y \in Threads : y # x => thr'[y] = thr[y]
  BY OneThread
<1>2. Idle'
  BY <1>1 DEF Idle, Threads
<1>3. UNCHANGED Promise!vars
  BY DEF Promise!vars, Cover, request
<1> QED BY <1>2, <1>3

LEMMA NobodyMoves ==
  ASSUME Idle, UNCHANGED <<request, current, currentAll, thr>>
  PROVE  Idle' /\ UNCHANGED Promise!vars
BY DEF Idle, Promise!vars, Cover, request

LEMMA AskAsks ==
  ASSUME TypeOK, Idle, NEW th \in [Threads -> Thread], \A w \in Workers : th[w] = thr[w],
         NEW ids \in SUBSET Games, NEW all \in BOOLEAN, NEW manual \in BOOLEAN,
         Ask(th, ids, all, manual), UNCHANGED <<current, currentAll>>
  PROVE  Idle' /\ Promise!Next
<1>1. \A w \in Workers : thr'[w].pc \in Between => thr[w].pc \in Between
  <2>1. CASE thr' = th
    BY <2>1
  <2>2. CASE thr' # th
    <3>1. PICK w \in Workers : thr[w].pc = "off" /\ thr' = [th EXCEPT ![w] = Top]
      BY <2>2 DEF Ask
    <3>2. \A v \in Workers : v # w => thr'[v] = thr[v]
      BY <3>1 DEF Threads
    <3> QED BY <3>1, <3>2 DEF Between
  <2> QED BY <2>1, <2>2
<1>2. Cover(all, ids) \in SUBSET Games
  BY DEF Cover
<1>3. Promise!Ask(Cover(all, ids))
  BY DEF Promise!Ask, Ask, Cover, TypeOK
<1> QED BY <1>1, <1>2, <1>3 DEF Idle, Promise!Next

LEMMA WorkDoes ==
  ASSUME Inv, Idle, NEW w \in Workers, Work(w)
  PROVE  Idle' /\ [Promise!Next]_(Promise!vars)
<1>1. TypeOK /\ OneWorker /\ w \in Threads /\ thr \in [Threads -> Thread] /\ thr[w] \in Thread
  BY DEF Inv, TypeOK, Threads
<1>2. thr[w].pc = "top" => current = {} /\ ~currentAll
  BY <1>1 DEF Idle, OneWorker, Between
<1>3. CASE Take(w)
  <2>1. thr'[w].pc = "check"
    BY <1>1, <1>3 DEF Take
  <2>2. Idle'
    BY <2>1 DEF Idle, Between
  <2>3. working
    BY <1>1, <1>3 DEF Take, OneWorker
  <2>4. CASE Cover(pendingAll, pending) = {}
    <3>1. Cover(currentAll', current') = {} /\ Cover(currentAll, current) = {} /\ Cover(pendingAll', pending') = {}
      BY <1>2, <1>3, <2>4 DEF Take, Cover
    <3>2. UNCHANGED Promise!vars
      BY <1>3, <2>4, <3>1 DEF Take, Promise!vars
    <3> QED BY <2>2, <3>2
  <2>5. CASE Cover(pendingAll, pending) # {}
    <3>1. Promise!Begin
      BY <1>2, <1>3, <2>3, <2>5 DEF Take, Promise!Begin, Cover
    <3> QED BY <3>1, <2>2 DEF Promise!Next
  <2> QED BY <2>2, <2>4, <2>5
<1>4. CASE Rest(w)
  <2>1. Off \in Thread /\ Off.pc \in Between
    BY Records DEF Between
  <2>2. \A v \in Workers : thr'[v].pc \in Between => thr[v].pc \in Between
    BY <1>1, <1>4, <2>1 DEF Rest, Between
  <2>3. Idle'
    BY <1>2, <1>4 DEF Rest, Idle, running
  <2>4. working
    BY <1>1, <1>4 DEF Rest, OneWorker
  <2>5. Promise!Rest
    BY <1>2, <1>4, <2>4 DEF Rest, Promise!Rest, Cover, running
  <2> QED BY <2>3, <2>5 DEF Promise!Next
<1>5. CASE Skip(w) \/ Report(w)
  <2>1. current' = {} /\ currentAll' = FALSE /\ UNCHANGED request
    BY <1>5 DEF Skip, Report
  <2>2. CASE Cover(currentAll, current) = {}
    BY <2>1, <2>2 DEF Promise!vars, Cover, request, Idle
  <2>3. CASE Cover(currentAll, current) # {}
    <3>1. Promise!End
      BY <2>1, <2>3 DEF Promise!End, Cover, request
    <3> QED BY <3>1, <2>1 DEF Promise!Next, Idle
  <2> QED BY <2>2, <2>3
<1>6. CASE Begin(w)
  <2> DEFINE r == [thr[w] EXCEPT !.pc = "lock"]
  <2>1. r \in Thread /\ r.pc = "lock"
    BY <1>1 DEF Thread, ThreadPC
  <2>2. thr' = [thr EXCEPT ![w] = r]
    BY <1>1, <1>6 DEF Begin, Goto
  <2> HIDE DEF r
  <2> QED BY <1>1, <1>6, <2>1, <2>2, NoPart DEF Begin, running, Between
<1> QED BY <1>3, <1>4, <1>5, <1>6 DEF Work

LEMMA PassDoes ==
  ASSUME Inv, Idle, NEW x \in Threads, Pass(x)
  PROVE  Idle' /\ UNCHANGED Promise!vars
<1>1. TypeOK /\ thr[x] \in Thread
  BY DEF Inv, TypeOK
<1>2. UNCHANGED <<request, current, currentAll>>
  BY DEF Pass, Lock, Negotiate, NegotiateFails, PassEnds, Upload, Waits, Download, Compare, StepFails, running
<1>3. Over(x) \in Thread /\ (x \in Workers => Over(x).pc = "report")
  BY <1>1, Overs, Records DEF Over, Thread, ThreadPC
<1>4. PICK r \in Thread : thr' = [thr EXCEPT ![x] = r] /\ (x \in Workers => r.pc \notin Between)
  <2>1. CASE thr' = [thr EXCEPT ![x] = Over(x)]
    BY <1>3, <2>1 DEF Between
  <2>2. CASE Goto(x, "plan")
    <3>1. [thr[x] EXCEPT !.pc = "plan"] \in Thread
      BY <1>1 DEF Thread, ThreadPC
    <3> QED BY <1>1, <2>2, <3>1 DEF Goto, Between, Thread
  <2>3. CASE Negotiate(x)
    <3> DEFINE r == [thr[x] EXCEPT !.pc = "step", !.todo = Covers(x),
                                   !.plan = [g \in Games |-> IF g \in Covers(x) THEN PlanOf(g) ELSE "none"]]
    <3>1. r \in Thread /\ r.pc = "step"
      BY <1>1 DEF Thread, ThreadPC, Covers, Cover, PlanOf, Plan
    <3>2. thr' = [thr EXCEPT ![x] = r]
      BY <2>3 DEF Negotiate
    <3> HIDE DEF r
    <3> QED BY <3>1, <3>2 DEF Between
  <2>4. CASE \E g \in Games : Upload(x, g) \/ Waits(x, g) \/ Download(x, g) \/ Compare(x, g) \/ StepFails(x, g)
    <3>1. PICK g \in Games, state \in States : Done(x, g, state) /\ thr[x].pc = "step"
      BY <2>4 DEF Upload, Waits, Download, Compare, StepFails, States
    <3> DEFINE r == [thr[x] EXCEPT !.todo = @ \ {g}, !.waiting = @ \/ state = "waiting"]
    <3>2. r \in Thread /\ r.pc = "step"
      BY <1>1, <3>1 DEF Thread
    <3>3. thr' = [thr EXCEPT ![x] = r]
      BY <3>1 DEF Done
    <3> HIDE DEF r
    <3> QED BY <3>2, <3>3 DEF Between
  <2> QED BY <2>1, <2>2, <2>3, <2>4 DEF Pass, Lock, NegotiateFails, PassEnds
<1> QED BY <1>1, <1>2, <1>4, NoPart

LEMMA CallDoes ==
  ASSUME Inv, Idle, NEW c \in Callers,
         Call(c) \/ Opened(c) \/ \E g \in Games, m \in BOOLEAN : SyncOne(c, g, m)
  PROVE  Idle' /\ [Promise!Next]_(Promise!vars)
<1>1. TypeOK /\ c \in Threads /\ c \notin Workers /\ thr[c] \in Thread
  BY ThreadsAssumption DEF Inv, TypeOK, Threads
<1>2. UNCHANGED <<current, currentAll>>
  BY DEF Call, OpenedAsks, AfterSync, Opened, SyncOne, running
<1> DEFINE th == [thr EXCEPT ![c] = Off]
<1>3. th \in [Threads -> Thread] /\ \A w \in Workers : th[w] = thr[w]
  BY <1>1, CallerOff
<1>4. CASE OpenedAsks(c)
  <2>1. Ask(th, {}, TRUE, FALSE)
    BY <1>4 DEF OpenedAsks
  <2> HIDE DEF th
  <2> QED BY <1>1, <1>2, <1>3, <2>1, AskAsks
<1>5. CASE AfterSync(c) /\ Ask(th, thr[c].ids, FALSE, thr[c].manual)
  <2>1. thr[c].ids \in SUBSET Games /\ thr[c].manual \in BOOLEAN
    BY <1>1 DEF Thread
  <2>2. Ask(th, thr[c].ids, FALSE, thr[c].manual)
    BY <1>5
  <2> HIDE DEF th
  <2> QED BY <1>1, <1>2, <1>3, <2>1, <2>2, AskAsks
<1>6. CASE AfterSync(c) /\ thr' = th /\ UNCHANGED request
  BY <1>1, <1>2, <1>6, Records, NoPart
<1>7. CASE Opened(c) \/ \E g \in Games, m \in BOOLEAN : SyncOne(c, g, m)
  <2>1. PICK r \in Thread : thr' = [thr EXCEPT ![c] = r]
    <3>1. CASE Opened(c)
      <4>1. [Off EXCEPT !.pc = "open", !.all = TRUE] \in Thread
        BY Records DEF Thread, ThreadPC
      <4> QED BY <3>1, <4>1 DEF Opened
    <3>2. CASE \E g \in Games, m \in BOOLEAN : SyncOne(c, g, m)
      <4>1. PICK g \in Games, m \in BOOLEAN : SyncOne(c, g, m)
        BY <3>2
      <4>2. [Off EXCEPT !.pc = "lock", !.ids = {g}, !.manual = m] \in Thread
        BY Records DEF Thread, ThreadPC
      <4> QED BY <4>1, <4>2 DEF SyncOne
    <3> QED BY <1>7, <3>1, <3>2
  <2>2. UNCHANGED request
    BY <1>7 DEF Opened, SyncOne
  <2> QED BY <1>1, <1>2, <2>1, <2>2, NoPart
<1> QED BY <1>4, <1>5, <1>6, <1>7 DEF Call, AfterSync

LEMMA LoopDoes ==
  ASSUME Inv, Idle, Pull \/ Poll \/ Turn \/ \E ids \in SUBSET Games, all \in BOOLEAN : Start(ids, all)
  PROVE  Idle' /\ [Promise!Next]_(Promise!vars)
<1>1. TypeOK /\ thr \in [Threads -> Thread]
  BY DEF Inv, TypeOK
<1>2. loop \in Loop /\ loop.ids \in SUBSET Games
  BY DEF Inv, TypeOK, Loop
<1>3. CASE \E ids \in SUBSET Games, all \in BOOLEAN : Start(ids, all)
  BY <1>1, <1>3, AskAsks DEF Start, running
<1>4. CASE Pull
  BY <1>1, <1>4, AskAsks DEF Pull, running
<1>5. CASE Poll \/ RetrySet
  BY <1>5, NobodyMoves DEF Poll, RetrySet, running
<1>6. CASE RetryAsk
  BY <1>1, <1>2, <1>6, AskAsks DEF RetryAsk, running
<1>7. CASE Written /\ loop.ids \subseteq differs
  BY <1>1, <1>2, <1>7, AskAsks DEF Written, running
<1>8. CASE Written /\ ~(loop.ids \subseteq differs)
  BY <1>8, NobodyMoves DEF Written, running
<1> QED BY <1>3, <1>4, <1>5, <1>6, <1>7, <1>8 DEF Turn

LEMMA NextDoes == Inv /\ Idle /\ [Next]_vars => Idle' /\ [Promise!Next]_(Promise!vars)
<1> SUFFICES ASSUME Inv, Idle, [Next]_vars PROVE Idle' /\ [Promise!Next]_(Promise!vars)
  OBVIOUS
<1>1. CASE \E w \in Workers : Work(w)
  BY <1>1, WorkDoes
<1>2. CASE \E x \in Threads : Pass(x)
  BY <1>2, PassDoes
<1>3. CASE \E c \in Callers : Call(c) \/ Opened(c) \/ \E g \in Games, m \in BOOLEAN : SyncOne(c, g, m)
  BY <1>3, CallDoes
<1>4. CASE Pull \/ Poll \/ Turn \/ \E ids \in SUBSET Games, all \in BOOLEAN : Start(ids, all)
  BY <1>4, LoopDoes
<1>5. CASE \E g \in Games : Fire(g) \/ Settled(g) \/ EmulatorWrites(g) \/ OtherDevice(g) \/ WriteAges(g)
  BY <1>5, NobodyMoves DEF Fire, Settled, EmulatorWrites, OtherDevice, WriteAges, running
<1>6. CASE (\E e \in Emus : Play(e)) \/ ReadyTurns \/ GapPasses \/ UNCHANGED vars
  BY <1>6, NobodyMoves DEF Play, ReadyTurns, GapPasses, running, vars
<1> QED BY <1>1, <1>2, <1>3, <1>4, <1>5, <1>6 DEF Next

\* Whatever goroutine asks, whatever the syncs do and whoever calls Sync directly, the requests and the
\* running sync are one queue: a sync begins with all that was asked for, one at a time, and nothing asked
\* for leaves the queue any other way (saves.go:256, 276).
THEOREM CoalescesHolds == Spec => Promise!Safety
<1>1. Init => Idle /\ Promise!Init
  BY DEF Init, Idle, Promise!Init, Cover
<1> QED BY <1>1, InvHolds, NextDoes, PTL DEF Spec, Promise!Safety
===============================================================================
