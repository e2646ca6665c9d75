--------------------------- MODULE ConnectionProofs ---------------------------
(* Theorems of Connection, for every set of goroutines, waiters and         *)
(* servers, and every bound.                                               *)
EXTENDS Connection, TLAPS, FiniteSetTheorems

-----------------------------------------------------------------------------
(* The inductive invariant. *)

\* What a goroutine is about to save, or will once RomM answers, signs the plugin in.
Prepared ==
  \A t \in Threads :
    /\ thr[t].pc \in {"exchange", "register", "wait", "moveCheck", "save"} =>
         thr[t].in.server \in Servers /\ ~thr[t].in.out
    /\ thr[t].pc \in {"moveCheck", "save"} => thr[t].in.token # 0

\* A sign-in about to be marked Signed out holds a token RomM rejected, and is the one saved, unless
\* another call already ended that.
Rejected ==
  \A t \in Threads :
    /\ thr[t].pc \in {"lapse", "lapseWrite"} => thr[t].in.token \in revoked
    /\ thr[t].pc = "lapseWrite" /\ Active(saved) => saved = thr[t].in

\* Nobody took a channel that isn't there yet.
Taken == \A w \in Waiters : waiter[w].gen <= gen

\* Whoever is about to sleep, or sleeps, on the channel there is now, while a sign-in is saved, is
\* about to be woken.
Woken ==
  \A w \in Waiters : waiter[w].pc \in {"park", "asleep"} /\ waiter[w].gen = gen /\ Active(saved) =>
                      \E t \in Threads : thr[t].pc = "close"

\* The pending pairing is the only live one.
LiveIsPending == \A p \in Pairings : ctx[p] = "live" => pending = p

Inv == TypeOK /\ Prepared /\ Rejected /\ Taken /\ Woken /\ LiveIsPending

\* One goroutine at most holds c.mu.
OneHolds == \A t, u \in Threads : thr[t].pc \in Holding /\ thr[u].pc \in Holding => t = u

\* The goroutines about to report that token k lapsed.
Reporting(k) == {t \in Threads : thr[t].pc = "lapseTell" /\ thr[t].in.token = k}

\* The lapse of token k can still be found: it is signed in with, or about to be marked Signed out.
Open(k) == \/ Active(saved) /\ saved.token = k
           \/ \E t \in Threads : thr[t].pc = "lapseWrite" /\ thr[t].in.token = k

\* Every lapse reported, about to be, or still to be found, is of a time the token was saved, or of one the
\* disk failed to keep it from being found again.
LapsesCounted ==
  \A k \in Tokens : /\ IsFiniteSet(Reporting(k))
                    /\ lapses[k] + Cardinality(Reporting(k)) + (IF Open(k) THEN 1 ELSE 0) <= saves[k] + faults

LapseInv == OneHolds /\ LapsesCounted

\* NewConnection.
LEMMA InitInv == Init => Inv
<1> SUFFICES ASSUME Init PROVE Inv
  OBVIOUS
<1>1. TypeOK
  BY BoundsAssumption, ServersAssumption DEF Init, TypeOK, SignIn, NoSignIn, Active, Thread, Idle,
     ThreadPC, Op, Status, Waiter, Pairings, Tokens
<1>2. Prepared /\ Rejected
  BY DEF Init, Prepared, Rejected, Idle, NoSignIn, Active
<1>3. Taken /\ Woken /\ LiveIsPending
  BY DEF Init, Taken, Woken, LiveIsPending, NoSignIn, Active, Pairings
<1> QED BY <1>1, <1>2, <1>3 DEF Inv

-----------------------------------------------------------------------------
(* What a goroutine's step leaves of it has its type, and is prepared.      *)

Ready(r) ==
  /\ r.pc \in {"exchange", "register", "wait", "moveCheck", "save"} => r.in.server \in Servers /\ ~r.in.out
  /\ r.pc \in {"moveCheck", "save"} => r.in.token # 0

\* One goroutine goes from one such state to another.
LEMMA OneThread ==
  ASSUME TypeOK, Prepared, NEW t \in Threads, NEW r \in Thread, Ready(r), thr' = [thr EXCEPT ![t] = r]
  PROVE  thr' \in [Threads -> Thread] /\ Prepared'
<1>1. thr \in [Threads -> Thread]
  BY DEF TypeOK
<1>2. \A u \in Threads : thr'[u] \in Thread /\ Ready(thr'[u])
  BY <1>1 DEF Prepared, Ready
<1> QED BY <1>1, <1>2 DEF Prepared, Ready

\* It goes on to pc, with nothing else changed.
LEMMA GoesTo ==
  ASSUME TypeOK, Prepared, NEW t \in Threads, NEW pc \in ThreadPC,
         pc \notin {"exchange", "register", "wait", "moveCheck", "save"}, Goto(t, pc)
  PROVE  thr' \in [Threads -> Thread] /\ Prepared'
<1> DEFINE r == [thr[t] EXCEPT !.pc = pc]
<1>1. thr[t] \in Thread
  BY DEF TypeOK
<1>2. r \in Thread /\ r.pc = pc
  BY <1>1 DEF Thread
<1>3. thr' = [thr EXCEPT ![t] = r]
  BY DEF Goto
<1>4. Ready(r)
  BY <1>2 DEF Ready
<1> HIDE DEF r
<1> QED BY <1>2, <1>3, <1>4, OneThread

\* It ends.
LEMMA Ends ==
  ASSUME TypeOK, Prepared, NEW t \in Threads, End(t)
  PROVE  thr' \in [Threads -> Thread] /\ Prepared'
<1>1. Idle \in Thread /\ Ready(Idle)
  BY ServersAssumption, BoundsAssumption DEF Idle, Thread, Ready, ThreadPC, Op, Status, NoSignIn, SignIn
<1> QED BY <1>1, OneThread DEF End

\* It knows its status.
LEMMA Knows ==
  ASSUME TypeOK, Prepared, NEW t \in Threads, NEW st \in Status, Know(t, st)
  PROVE  thr' \in [Threads -> Thread] /\ Prepared'
<1> DEFINE r == [thr[t] EXCEPT !.pc = "tell", !.st = st]
<1>1. thr[t] \in Thread
  BY DEF TypeOK
<1>2. r \in Thread /\ r.pc = "tell"
  BY <1>1 DEF Thread, ThreadPC
<1>3. Ready(r)
  BY <1>2 DEF Ready
<1>4. CASE End(t)
  BY <1>4, Ends
<1>5. CASE thr' = [thr EXCEPT ![t] = r]
  <2> HIDE DEF r
  <2> QED BY <1>2, <1>3, <1>5, OneThread
<1> QED BY <1>4, <1>5 DEF Know

\* RomM gave it a token.
LEMMA Gets ==
  ASSUME TypeOK, Prepared, NEW t \in Threads, thr[t].pc \in {"exchange", "wait"}, issued < MaxTokens,
         thr' = [thr EXCEPT ![t] = [@ EXCEPT !.pc = "save", !.in.token = issued + 1]]
  PROVE  thr' \in [Threads -> Thread] /\ Prepared'
<1> DEFINE in == [thr[t].in EXCEPT !.token = issued + 1]
           r == [thr[t] EXCEPT !.pc = "save", !.in = in]
<1>1. thr[t] \in Thread /\ issued + 1 \in 0 .. MaxTokens /\ issued + 1 # 0
  BY BoundsAssumption DEF TypeOK
<1>2. thr[t].in \in SignIn
  BY <1>1 DEF Thread
<1>3. in \in SignIn /\ in.server = thr[t].in.server /\ in.out = thr[t].in.out /\ in.token # 0
  BY <1>1, <1>2 DEF SignIn
<1>4. r \in Thread /\ r.pc = "save" /\ r.in = in
  <2> HIDE DEF in
  <2> QED BY <1>1, <1>3 DEF Thread, ThreadPC
<1>5. Ready(r)
  <2>1. thr[t].in.server \in Servers /\ ~thr[t].in.out
    BY DEF Prepared
  <2> HIDE DEF r, in
  <2> QED BY <1>3, <1>4, <2>1 DEF Ready
<1>6. thr' = [thr EXCEPT ![t] = r]
  OBVIOUS
<1> HIDE DEF r, in
<1> QED BY <1>4, <1>5, <1>6, OneThread

\* It goes on with the sign-in there is.
LEMMA Takes ==
  ASSUME TypeOK, Prepared, NEW t \in Threads, NEW pc \in {"ask", "lapseWrite"},
         thr' = [thr EXCEPT ![t] = [@ EXCEPT !.pc = pc, !.in = saved]]
  PROVE  thr' \in [Threads -> Thread] /\ Prepared'
<1> DEFINE r == [thr[t] EXCEPT !.pc = pc, !.in = saved]
<1>1. thr[t] \in Thread /\ saved \in SignIn
  BY DEF TypeOK
<1>2. r \in Thread /\ r.pc = pc
  BY <1>1 DEF Thread, ThreadPC
<1>3. Ready(r)
  BY <1>2 DEF Ready
<1>4. thr' = [thr EXCEPT ![t] = r]
  OBVIOUS
<1> HIDE DEF r
<1> QED BY <1>2, <1>3, <1>4, OneThread

\* Every step of a goroutine does.
LEMMA ThreadKeepsTypes ==
  ASSUME TypeOK, Prepared, NEW t \in Threads, ThreadStep(t) \/ Poll(t)
  PROVE  thr' \in [Threads -> Thread] /\ Prepared'
<1> USE DEF ThreadPC
<1>0. thr[t] \in Thread
  BY DEF TypeOK
<1>1. CASE Exchange(t)
  BY <1>1, Gets, Ends DEF Exchange
<1>2. CASE Save(t)
  BY <1>2, GoesTo DEF Save
<1>3. CASE Close(t)
  BY <1>3, GoesTo DEF Close
<1>4. CASE Clear(t)
  BY <1>4, GoesTo, Ends DEF Clear
<1>5. CASE SettingsFail(t)
  <2>1. CASE thr' = [thr EXCEPT ![t] = [@ EXCEPT !.pc = "pairTell", !.st = "none"]]
    <3> DEFINE r == [thr[t] EXCEPT !.pc = "pairTell", !.st = "none"]
    <3>1. r \in Thread /\ r.pc = "pairTell"
      BY <1>0 DEF Thread, Status
    <3>2. Ready(r)
      BY <3>1 DEF Ready
    <3>3. thr' = [thr EXCEPT ![t] = r]
      BY <2>1
    <3> HIDE DEF r
    <3> QED BY <3>1, <3>2, <3>3, OneThread
  <2> QED BY <1>5, <2>1, GoesTo, Ends DEF SettingsFail
<1>6. CASE Read(t)
  <2>1. CASE Active(saved)
    BY <1>6, <2>1, Takes DEF Read
  <2>2. CASE ~Active(saved)
    <3>1. PICK st \in {"notSetUp", "signedOut"} : Know(t, st)
      BY <1>6, <2>2 DEF Read, Know
    <3> QED BY <3>1, Knows DEF Status
  <2> QED BY <2>1, <2>2
<1>7. CASE Ask(t)
  BY <1>7, Knows, GoesTo DEF Ask, Status
<1>8. CASE Lapse(t)
  BY <1>8, Knows, Takes DEF Lapse, Status
<1>9. CASE LapseWrite(t)
  BY <1>9, GoesTo DEF LapseWrite
<1>10. CASE LapseTell(t)
  BY <1>10, Knows DEF LapseTell, Status
<1>11. CASE Tell(t)
  BY <1>11, GoesTo, Ends DEF Tell
<1>12. CASE Start(t)
  <2>1. ASSUME NEW p \in Pairings, Register(t, p) PROVE thr' \in [Threads -> Thread] /\ Prepared'
    <3> DEFINE r == [thr[t] EXCEPT !.pc = "wait", !.op = "poll", !.code = p]
    <3>1. p \in 0 .. MaxPairings
      BY BoundsAssumption DEF Pairings
    <3>2. r \in Thread /\ r.pc = "wait" /\ r.in = thr[t].in
      BY <1>0, <3>1 DEF Thread, Op
    <3>3. Ready(r)
      <4>1. thr[t].in.server \in Servers /\ ~thr[t].in.out
        BY <2>1 DEF Register, Prepared
      <4> HIDE DEF r
      <4> QED BY <3>2, <4>1 DEF Ready
    <3>4. thr' = [thr EXCEPT ![t] = r]
      BY <2>1 DEF Register
    <3> HIDE DEF r
    <3> QED BY <3>2, <3>3, <3>4, OneThread
  <2> QED BY <1>12, <2>1, Ends DEF Start
<1>13. CASE PollEnds(t)
  BY <1>13, Ends DEF PollEnds
<1>14. CASE PairTell(t)
  BY <1>14, Ends DEF PairTell
<1>15. CASE Name(t)
  <2> DEFINE r == [thr[t] EXCEPT !.pc = "cancelPairing", !.code = pending]
  <2>1. r \in Thread /\ r.pc = "cancelPairing"
    BY <1>0 DEF Thread, TypeOK
  <2>2. Ready(r)
    BY <2>1 DEF Ready
  <2>3. thr' = [thr EXCEPT ![t] = r]
    BY <1>15 DEF Name
  <2> HIDE DEF r
  <2> QED BY <2>1, <2>2, <2>3, OneThread
<1>16. CASE CancelPairing(t)
  <2> DEFINE r == IF thr[t].op = "cancel" THEN Idle
                  ELSE [Idle EXCEPT !.pc = AfterCancel(thr[t].op), !.op = thr[t].op]
  <2>1. r \in Thread /\ r.pc \in {"idle", "out", "forgetIn"}
    <3> DEFINE pc == AfterCancel(thr[t].op)
    <3>1. Idle \in Thread /\ Idle.pc = "idle"
      BY BoundsAssumption, ServersAssumption DEF Thread, Idle, NoSignIn, SignIn, Op, Status
    <3>2. pc \in {"idle", "out", "forgetIn"} /\ thr[t].op \in Op
      BY <1>0 DEF AfterCancel, Thread
    <3>3. [Idle EXCEPT !.pc = pc, !.op = thr[t].op] \in Thread
          /\ [Idle EXCEPT !.pc = pc, !.op = thr[t].op].pc = pc
      <4> HIDE DEF pc
      <4> QED BY <3>1, <3>2 DEF Thread
    <3> QED BY <3>1, <3>2, <3>3
  <2>2. Ready(r)
    BY <2>1 DEF Ready
  <2>3. thr' = [thr EXCEPT ![t] = r]
    BY <1>16 DEF CancelPairing
  <2> HIDE DEF r
  <2> QED BY <2>1, <2>2, <2>3, OneThread
<1>17. CASE Out(t)
  BY <1>17, GoesTo, Ends DEF Out
<1>18. CASE OutWrite(t)
  BY <1>18, Ends DEF OutWrite
<1>19. CASE ForgetRecords(t)
  BY <1>19, GoesTo, Ends DEF ForgetRecords
<1>20. CASE ForgetIn(t)
  BY <1>20, Ends DEF ForgetIn
<1>21. CASE MoveCheck(t)
  <2>1. ASSUME NEW s \in Servers, thr' = [thr EXCEPT ![t] = [@ EXCEPT !.pc = "save", !.in.server = s]]
        PROVE  thr' \in [Threads -> Thread] /\ Prepared'
    <3> DEFINE in == [thr[t].in EXCEPT !.server = s]
               r == [thr[t] EXCEPT !.pc = "save", !.in = in]
    <3>1. thr[t].in \in SignIn /\ thr[t].in.token # 0 /\ ~thr[t].in.out
      BY <1>0, <1>21 DEF Thread, MoveCheck, Prepared
    <3>2. in \in SignIn /\ in.server = s /\ ~in.out /\ in.token # 0
      BY <3>1 DEF SignIn
    <3>3. r \in Thread /\ r.pc = "save" /\ r.in = in
      <4> HIDE DEF in
      <4> QED BY <1>0, <3>2 DEF Thread
    <3>4. Ready(r)
      <4> HIDE DEF in, r
      <4> QED BY <3>2, <3>3 DEF Ready
    <3>5. thr' = [thr EXCEPT ![t] = r]
      BY <2>1
    <3> HIDE DEF r, in
    <3> QED BY <3>3, <3>4, <3>5, OneThread
  <2> QED BY <1>21, <2>1, Ends DEF MoveCheck
<1>22. CASE Poll(t)
  BY <1>22, Gets, Ends DEF Poll
<1> QED BY <1>1, <1>2, <1>3, <1>4, <1>5, <1>6, <1>7, <1>8, <1>9, <1>10, <1>11, <1>12, <1>13, <1>14,
           <1>15, <1>16, <1>17, <1>18, <1>19, <1>20, <1>21, <1>22 DEF ThreadStep

-----------------------------------------------------------------------------
(* Everything else.                                                         *)

\* The sign-in saved, and what a step adds to it.
LEMMA ThreadKeepsSaved ==
  ASSUME TypeOK, Prepared, NEW t \in Threads, ThreadStep(t) \/ Poll(t)
  PROVE  saved' \in SignIn /\ (Active(saved') => saved'.token # 0)
<1> USE ServersAssumption, BoundsAssumption
<1>0. thr[t] \in Thread /\ thr[t].in \in SignIn /\ saved \in SignIn
  BY DEF TypeOK, Thread
<1>1. CASE Save(t)
  BY <1>0, <1>1 DEF Save, Prepared, Active
<1>2. CASE LapseWrite(t)
  BY <1>0, <1>2 DEF LapseWrite, SignIn, Active
<1>3. CASE OutWrite(t)
  <2>1. CASE saved' = saved
    BY <2>1 DEF TypeOK, Active
  <2>2. CASE saved' = [saved EXCEPT !.token = 0, !.out = TRUE]
    <3>1. 0 \in 0 .. MaxTokens
      OBVIOUS
    <3>2. saved' \in SignIn /\ saved'.out
      BY <1>0, <2>2, <3>1 DEF SignIn
    <3> QED BY <3>2 DEF Active
  <2> QED BY <1>3, <2>1, <2>2 DEF OutWrite
<1>4. CASE ForgetIn(t)
  BY <1>4 DEF ForgetIn, NoSignIn, SignIn, Active
<1>5. CASE UNCHANGED saved
  BY <1>5 DEF TypeOK, Active
<1> QED BY <1>1, <1>2, <1>3, <1>4, <1>5 DEF ThreadStep, Exchange, Close, Clear, SettingsFail, Read, Ask,
     Lapse, LapseTell, Tell, Start, Register, PollEnds, PairTell, Name, CancelPairing, Out, ForgetRecords,
     MoveCheck, Poll, local

\* The pairings.
LEMMA ThreadKeepsPairings ==
  ASSUME TypeOK, LiveIsPending, NEW t \in Threads, ThreadStep(t) \/ Poll(t)
  PROVE  /\ pending' \in 0 .. MaxPairings
         /\ ctx' \in [Pairings -> {"unused", "live", "cancelled", "expired"}]
         /\ told' \in [Pairings -> {"none", "approved", "failed", "denied", "expired"}]
         /\ LiveIsPending'
<1> USE BoundsAssumption DEF Pairings
<1>1. CASE Start(t)
  <2>1. ASSUME NEW p \in Pairings, Register(t, p)
        PROVE  /\ pending' = p /\ told' = told
               /\ ctx' \in [Pairings -> {"unused", "live", "cancelled", "expired"}]
               /\ LiveIsPending'
    BY <2>1 DEF Register, TypeOK, LiveIsPending
  <2> QED BY <1>1, <2>1 DEF Start, TypeOK, LiveIsPending, local
<1>2. CASE CancelPairing(t)
  <2> DEFINE p == thr[t].code
  <2>1. CASE p # 0 /\ pending = p
    <3>1. pending' = 0 /\ ctx' = [ctx EXCEPT ![p] = IF @ = "live" THEN "cancelled" ELSE @] /\ told' = told
      BY <1>2, <2>1 DEF CancelPairing
    <3>2. ctx' \in [Pairings -> {"unused", "live", "cancelled", "expired"}]
      BY <3>1 DEF TypeOK
    <3>3. \A q \in Pairings : ctx'[q] # "live"
      BY <2>1, <3>1 DEF TypeOK, LiveIsPending
    <3> QED BY <3>1, <3>2, <3>3 DEF TypeOK, LiveIsPending
  <2>2. CASE ~(p # 0 /\ pending = p)
    BY <1>2, <2>2 DEF CancelPairing, TypeOK, LiveIsPending
  <2> QED BY <2>1, <2>2
<1>3. CASE PollEnds(t) \/ PairTell(t) \/ Poll(t)
  BY <1>3 DEF PollEnds, PairTell, Poll, TypeOK, LiveIsPending
<1>4. CASE UNCHANGED <<pending, ctx, told>>
  BY <1>4 DEF TypeOK, LiveIsPending
<1> QED BY <1>1, <1>2, <1>3, <1>4 DEF ThreadStep, Exchange, Save, Close, Clear, SettingsFail, Read, Ask,
     Lapse, LapseWrite, LapseTell, Tell, Name, Out, OutWrite, ForgetRecords, ForgetIn, MoveCheck, local

\* Counting one more.
LEMMA Counts ==
  ASSUME NEW f \in [Tokens -> Nat], NEW k PROVE [f EXCEPT ![k] = @ + 1] \in [Tokens -> Nat]
<1> DEFINE g == [f EXCEPT ![k] = @ + 1]
<1>1. DOMAIN g = Tokens
  OBVIOUS
<1>2. ASSUME NEW x \in Tokens PROVE g[x] \in Nat
  <2>1. CASE x = k
    BY <2>1
  <2>2. CASE x # k
    BY <2>2
  <2> QED BY <2>1, <2>2
<1>3. g = [x \in Tokens |-> g[x]]
  OBVIOUS
<1>4. g \in [Tokens -> Nat]
  <2> HIDE DEF g
  <2> QED BY <1>2, <1>3
<1> QED BY <1>4

\* The counters.
LEMMA ThreadKeepsCounts ==
  ASSUME TypeOK, NEW t \in Threads, ThreadStep(t) \/ Poll(t)
  PROVE  /\ gen' \in Nat /\ faults' \in Nat
         /\ issued' \in 0 .. MaxTokens /\ revoked' = revoked
         /\ saves' \in [Tokens -> Nat] /\ lapses' \in [Tokens -> Nat]
         /\ over' \in {"no", "signedOut", "forgotten"}
         /\ waiter' = waiter
<1> USE BoundsAssumption DEF TypeOK
<1>1. CASE Exchange(t) \/ Poll(t)
  BY <1>1 DEF Exchange, Poll, local, aux
<1>2. CASE Save(t)
  <2>1. saves' \in [Tokens -> Nat]
    BY <1>2, Counts DEF Save
  <2>2. over' \in {"no", "signedOut", "forgotten"}
    BY <1>2 DEF Save
  <2> QED BY <1>2, <2>1, <2>2 DEF Save, romm
<1>3. CASE Close(t)
  BY <1>3 DEF Close, romm, aux
<1>4. CASE SettingsFail(t)
  BY <1>4 DEF SettingsFail, local, romm, aux
<1>5. CASE LapseTell(t)
  <2>1. lapses' \in [Tokens -> Nat]
    BY <1>5, Counts DEF LapseTell
  <2> QED BY <1>5, <2>1 DEF LapseTell, local, romm
<1>6. CASE OutWrite(t) \/ ForgetIn(t)
  BY <1>6 DEF OutWrite, ForgetIn, romm
<1>7. CASE UNCHANGED <<gen, waiter, romm, faults, aux>>
  BY <1>7 DEF romm, aux
<1> QED BY <1>1, <1>2, <1>3, <1>4, <1>5, <1>6, <1>7 DEF ThreadStep, Clear, Read, Ask, Lapse, LapseWrite,
     Tell, Start, Register, PollEnds, PairTell, Name, CancelPairing, Out, ForgetRecords, MoveCheck, local

\* Once it knows its status, a goroutine has nothing to end.
LEMMA KnowsAndGoesOn ==
  ASSUME TypeOK, NEW t \in Threads, NEW st \in Status, Know(t, st)
  PROVE  thr'[t].pc \in {"tell", "idle"}
<1>1. thr \in [Threads -> Thread] /\ thr[t] \in Thread
  BY DEF TypeOK
<1>2. CASE End(t)
  BY <1>1, <1>2 DEF End, Idle
<1>3. CASE thr' = [thr EXCEPT ![t] = [@ EXCEPT !.pc = "tell", !.st = st]]
  BY <1>1, <1>3 DEF Thread
<1> QED BY <1>2, <1>3 DEF Know

\* Only RomM's rejection leads to the end of a sign-in, and only that to its report; only who finds c.mu free
\* gets it.
LEMMA OthersEndNothing ==
  ASSUME TypeOK, NEW t \in Threads, ThreadStep(t) \/ Poll(t), ~Ask(t), ~Lapse(t)
  PROVE  /\ thr'[t].pc \notin {"lapse", "lapseWrite"}
         /\ thr'[t].pc \in Holding => Save(t) \/ Out(t)
         /\ thr'[t].pc = "lapseTell" => /\ LapseWrite(t) \/ SettingsFail(t)
                                        /\ thr[t].pc = "lapseWrite" /\ thr'[t].in = thr[t].in
<1> USE DEF Holding
<1>1. thr \in [Threads -> Thread] /\ thr[t] \in Thread
  BY DEF TypeOK
<1>2. ASSUME NEW pc, Goto(t, pc) PROVE thr'[t].pc = pc /\ thr'[t].in = thr[t].in
  BY <1>1, <1>2 DEF Goto, Thread
<1>3. ASSUME End(t) PROVE thr'[t].pc = "idle"
  BY <1>1, <1>3 DEF End, Idle
<1>4. CASE Exchange(t) \/ Poll(t)
  <2>1. CASE End(t)
    BY <2>1, <1>3
  <2>2. CASE thr' = [thr EXCEPT ![t] = [@ EXCEPT !.pc = "save", !.in.token = issued + 1]]
    BY <1>1, <2>2 DEF Thread
  <2> QED BY <1>4, <2>1, <2>2 DEF Exchange, Poll
<1>5. CASE Save(t) \/ Clear(t) \/ LapseWrite(t) \/ Tell(t) \/ PollEnds(t) \/ PairTell(t) \/ Out(t)
           \/ OutWrite(t) \/ ForgetRecords(t) \/ ForgetIn(t)
  BY <1>2, <1>3, <1>5 DEF Save, Clear, LapseWrite, Tell, PollEnds, PairTell, Out, OutWrite, ForgetRecords,
     ForgetIn
<1>6. CASE Close(t)
  BY <1>2, <1>6 DEF Close
<1>7. CASE SettingsFail(t)
  <2>1. CASE thr' = [thr EXCEPT ![t] = [@ EXCEPT !.pc = "pairTell", !.st = "none"]]
    BY <1>1, <2>1 DEF Thread
  <2> QED BY <1>2, <1>3, <1>7, <2>1 DEF SettingsFail
<1>8. CASE Read(t)
  <2>1. CASE End(t)
    BY <2>1, <1>3
  <2>2. CASE thr' = [thr EXCEPT ![t] = [@ EXCEPT !.pc = "ask", !.in = saved]]
    BY <1>1, <2>2 DEF Thread
  <2>3. ASSUME NEW st, thr' = [thr EXCEPT ![t] = [@ EXCEPT !.pc = "tell", !.st = st]]
        PROVE  thr'[t].pc = "tell"
    BY <1>1, <2>3 DEF Thread
  <2> QED BY <1>8, <2>1, <2>2, <2>3 DEF Read
<1>9. CASE LapseTell(t)
  BY <1>9, KnowsAndGoesOn DEF LapseTell, Status
<1>10. CASE Start(t)
  <2>1. ASSUME NEW p \in Pairings, Register(t, p) PROVE thr'[t].pc = "wait"
    BY <1>1, <2>1 DEF Register, Thread
  <2> QED BY <1>3, <1>10, <2>1 DEF Start
<1>11. CASE Name(t)
  BY <1>1, <1>11 DEF Name, Thread
<1>12. CASE CancelPairing(t)
  <2>1. \A op : AfterCancel(op) \in {"out", "forgetIn", "idle"}
    BY DEF AfterCancel
  <2> QED BY <1>1, <1>12, <2>1 DEF CancelPairing, Idle
<1>13. CASE MoveCheck(t)
  <2>1. ASSUME NEW s, thr' = [thr EXCEPT ![t] = [@ EXCEPT !.pc = "save", !.in.server = s]]
        PROVE  thr'[t].pc = "save"
    BY <1>1, <2>1 DEF Thread
  <2> QED BY <1>3, <1>13, <2>1 DEF MoveCheck
<1> QED BY <1>4, <1>5, <1>6, <1>7, <1>8, <1>9, <1>10, <1>11, <1>12, <1>13 DEF ThreadStep

\* Rejected: only Lapse finds a sign-in to end, and c.mu keeps others from saving until it has.
LEMMA ThreadKeepsRejected ==
  ASSUME Inv, NEW t \in Threads, ThreadStep(t) \/ Poll(t)
  PROVE  Rejected'
<1> SUFFICES ASSUME NEW u \in Threads
             PROVE  /\ thr'[u].pc \in {"lapse", "lapseWrite"} => thr'[u].in.token \in revoked
                    /\ thr'[u].pc = "lapseWrite" /\ Active(saved') => saved' = thr'[u].in
  <2>1. revoked' = revoked
    BY ThreadKeepsCounts DEF Inv
  <2> QED BY <2>1 DEF Rejected
<1>1. /\ thr[u].pc \in {"lapse", "lapseWrite"} => thr[u].in.token \in revoked
      /\ thr[u].pc = "lapseWrite" /\ Active(saved) => saved = thr[u].in
      /\ thr \in [Threads -> Thread] /\ thr[t] \in Thread /\ thr[t].in \in SignIn
  BY DEF Inv, Rejected, TypeOK, Thread
<1>2. CASE u # t
  <2>1. thr'[u] = thr[u]
    BY <1>1, <1>2 DEF ThreadStep, Exchange, Save, Close, Clear, SettingsFail, Read, Ask, Lapse, LapseWrite,
       LapseTell, Tell, Start, Register, PollEnds, PairTell, Name, CancelPairing, Out, OutWrite,
       ForgetRecords, ForgetIn, MoveCheck, Poll, Know, Goto, End
  <2>2. thr[u].pc = "lapseWrite" => saved' = saved \/ ~Active(saved')
    <3>1. CASE Save(t)
      BY <3>1 DEF Save, Free, Holding
    <3>2. CASE LapseWrite(t)
      BY <3>2, <1>1 DEF LapseWrite, Active, SignIn
    <3>3. CASE OutWrite(t)
      BY <3>3 DEF OutWrite, Active, Inv, TypeOK, SignIn
    <3>4. CASE ForgetIn(t)
      BY <3>4 DEF ForgetIn, Active, NoSignIn
    <3>5. CASE UNCHANGED saved
      BY <3>5
    <3> QED BY <3>1, <3>2, <3>3, <3>4, <3>5 DEF ThreadStep, Exchange, Close, Clear, SettingsFail, Read, Ask,
     Lapse, LapseTell, Tell, Start, Register, PollEnds, PairTell, Name, CancelPairing, Out, ForgetRecords,
     MoveCheck, Poll, local
  <2> QED BY <1>1, <2>1, <2>2
<1>3. CASE u = t
  <2>1. CASE Ask(t)
    <3>1. CASE thr[t].in.token \in revoked /\ Goto(t, "lapse")
      <4>1. thr'[t].pc = "lapse" /\ thr'[t].in = thr[t].in
        BY <1>1, <3>1 DEF Goto, Thread
      <4> QED BY <1>3, <3>1, <4>1
    <3>2. CASE \E st \in Status : Know(t, st)
      <4>1. thr'[t].pc \in {"tell", "idle"}
        BY <3>2, KnowsAndGoesOn DEF Inv, Status
      <4> QED BY <1>3, <4>1
    <3> QED BY <2>1, <3>1, <3>2 DEF Ask, Status
  <2>2. CASE Lapse(t)
    <3>1. CASE /\ Active(saved) /\ saved.token = thr[t].in.token /\ saved' = saved
               /\ thr' = [thr EXCEPT ![t] = [@ EXCEPT !.pc = "lapseWrite", !.in = saved]]
      <4>1. thr'[t].in = saved
        BY <1>1, <3>1 DEF Thread
      <4> QED BY <1>1, <1>3, <2>2, <3>1, <4>1 DEF Lapse
    <3>2. CASE Know(t, "signedOut")
      <4>1. thr'[t].pc \in {"tell", "idle"}
        BY <3>2, KnowsAndGoesOn DEF Inv, Status
      <4> QED BY <1>3, <4>1
    <3> QED BY <2>2, <3>1, <3>2 DEF Lapse, local
  <2>3. CASE ~Ask(t) /\ ~Lapse(t)
    <3>1. thr'[t].pc \notin {"lapse", "lapseWrite"}
      BY <2>3, OthersEndNothing DEF Inv
    <3> QED BY <1>3, <3>1
  <2> QED BY <2>1, <2>2, <2>3
<1> QED BY <1>2, <1>3

\* Taken and Woken: a sign-in is saved only by Save, and the goroutine that saved it closes the channel.
LEMMA ThreadKeepsWoken ==
  ASSUME Inv, NEW t \in Threads, ThreadStep(t) \/ Poll(t)
  PROVE  Taken' /\ Woken'
<1>0. /\ thr \in [Threads -> Thread] /\ thr[t] \in Thread /\ gen \in Nat
      /\ waiter \in [Waiters -> Waiter]
  BY DEF Inv, TypeOK
<1>1. waiter' = waiter
  BY ThreadKeepsCounts DEF Inv
<1>2. CASE Close(t)
  <2>1. gen' = gen + 1
    BY <1>2 DEF Close
  <2>2. \A w \in Waiters : waiter[w].gen \in Nat /\ waiter[w].gen <= gen
    BY <1>0 DEF Inv, Taken, Waiter
  <2> QED BY <1>0, <1>1, <2>1, <2>2 DEF Taken, Woken
<1>3. CASE Save(t)
  <2>1. gen' = gen /\ thr'[t].pc = "close"
    BY <1>0, <1>3 DEF Save, Goto, Thread
  <2> QED BY <1>1, <2>1 DEF Inv, Taken, Woken
<1>4. CASE ~Close(t) /\ ~Save(t)
  <2>1. gen' = gen
    BY <1>4 DEF ThreadStep, Exchange, Clear, SettingsFail, Read, Ask, Lapse, LapseWrite, LapseTell, Tell,
       Start, Register, PollEnds, PairTell, Name, CancelPairing, Out, OutWrite, ForgetRecords, ForgetIn,
       MoveCheck, Poll, local
  <2>2. Active(saved') => Active(saved)
    <3>1. CASE LapseWrite(t)
      <4>1. thr[t].in \in SignIn
        BY <1>0 DEF Thread
      <4> QED BY <3>1, <4>1 DEF LapseWrite, Active, SignIn
    <3>2. CASE OutWrite(t)
      BY <3>2 DEF OutWrite, Active, Inv, TypeOK, SignIn
    <3>3. CASE ForgetIn(t)
      BY <3>3 DEF ForgetIn, Active, NoSignIn
    <3>4. CASE UNCHANGED saved
      BY <3>4
    <3> QED BY <1>4, <3>1, <3>2, <3>3, <3>4 DEF ThreadStep, Exchange, Clear, SettingsFail, Read, Ask,
     Lapse, LapseTell, Tell, Start, Register, PollEnds, PairTell, Name, CancelPairing, Out, ForgetRecords,
     MoveCheck, Poll, local
  <2>3. \A u \in Threads : thr[u].pc = "close" => thr'[u].pc = "close"
    <3> SUFFICES ASSUME NEW u \in Threads, thr[u].pc = "close" PROVE thr'[u].pc = "close"
      OBVIOUS
    <3>1. CASE u = t
      BY <1>4, <3>1 DEF ThreadStep, Exchange, Clear, SettingsFail, Read, Ask, Lapse, LapseWrite, LapseTell,
         Tell, Start, Register, PollEnds, PairTell, Name, CancelPairing, Out, OutWrite, ForgetRecords,
         ForgetIn, MoveCheck, Poll
    <3>2. CASE u # t
      BY <1>0, <3>2 DEF ThreadStep, Exchange, Save, Close, Clear, SettingsFail, Read, Ask, Lapse, LapseWrite,
         LapseTell, Tell, Start, Register, PollEnds, PairTell, Name, CancelPairing, Out, OutWrite,
         ForgetRecords, ForgetIn, MoveCheck, Poll, Know, Goto, End
    <3> QED BY <3>1, <3>2
  <2> QED BY <1>1, <2>1, <2>2, <2>3 DEF Inv, Taken, Woken
<1> QED BY <1>2, <1>3, <1>4
-----------------------------------------------------------------------------
(* Every step.                                                              *)

\* A call begins with nothing to end, and Edit URL with the sign-in there is.
LEMMA CallBegins ==
  ASSUME TypeOK, NEW t \in Threads, NEW op \in Op, Call(t, op)
  PROVE  /\ thr'[t] \in Thread /\ Ready(thr'[t])
         /\ thr'[t].pc \notin Holding \cup {"lapse", "lapseTell", "save"}
         /\ thr[t].pc = "idle"
         /\ \A u \in Threads \ {t} : thr'[u] = thr[u]
<1> DEFINE Is(r) == thr' = [thr EXCEPT ![t] = r]
<1>1. thr \in [Threads -> Thread] /\ thr[t].pc = "idle"
  BY DEF TypeOK, Call, Idle
<1>2. Idle \in Thread /\ Idle.in = NoSignIn /\ NoSignIn \in SignIn /\ ~NoSignIn.out
  BY ServersAssumption, BoundsAssumption DEF Idle, Thread, ThreadPC, Op, Status, NoSignIn, SignIn
<1>3. ASSUME NEW pc \in ThreadPC
      PROVE  /\ Begin(op, pc) \in Thread /\ Begin(op, pc).pc = pc /\ Begin(op, pc).in = NoSignIn
  BY <1>2 DEF Begin, Thread
<1>4. ASSUME NEW r \in Thread, Is(r), Ready(r), r.pc \notin Holding \cup {"lapse", "lapseTell", "save"}
      PROVE  /\ thr'[t] \in Thread /\ Ready(thr'[t])
             /\ thr'[t].pc \notin Holding \cup {"lapse", "lapseTell", "save"}
             /\ \A u \in Threads \ {t} : thr'[u] = thr[u]
  <2>1. thr'[t] = r /\ \A u \in Threads \ {t} : thr'[u] = thr[u]
    BY <1>1, <1>4
  <2> QED BY <1>4, <2>1
<1>5. ASSUME NEW pc \in {"name", "forgetRecords", "read"}, Is(Begin(op, pc))
      PROVE  /\ thr'[t] \in Thread /\ Ready(thr'[t])
             /\ thr'[t].pc \notin Holding \cup {"lapse", "lapseTell", "save"}
             /\ \A u \in Threads \ {t} : thr'[u] = thr[u]
  <2>1. pc \in ThreadPC
    BY DEF ThreadPC
  <2>2. Begin(op, pc) \in Thread /\ Begin(op, pc).pc = pc
    BY <1>3, <2>1
  <2>3. Ready(Begin(op, pc))
    BY <2>2 DEF Ready
  <2> HIDE DEF Is
  <2> QED BY <1>4, <1>5, <2>2, <2>3 DEF Holding
<1>6. ASSUME NEW pc \in {"exchange", "register"}, NEW s \in Servers, Is([Begin(op, pc) EXCEPT !.in.server = s])
      PROVE  /\ thr'[t] \in Thread /\ Ready(thr'[t])
             /\ thr'[t].pc \notin Holding \cup {"lapse", "lapseTell", "save"}
             /\ \A u \in Threads \ {t} : thr'[u] = thr[u]
  <2> DEFINE in == [NoSignIn EXCEPT !.server = s]
             r == [Begin(op, pc) EXCEPT !.in = in]
  <2>1. pc \in ThreadPC
    BY DEF ThreadPC
  <2>2. Begin(op, pc) \in Thread /\ Begin(op, pc).pc = pc /\ Begin(op, pc).in = NoSignIn
    BY <1>3, <2>1
  <2>3. in \in SignIn /\ in.server = s /\ ~in.out
    BY <1>2 DEF SignIn
  <2>4. r \in Thread /\ r.pc = pc /\ r.in = in
    <3> HIDE DEF in
    <3> QED BY <2>2, <2>3 DEF Thread
  <2>5. Ready(r)
    <3> HIDE DEF r, in
    <3> QED BY <2>3, <2>4 DEF Ready
  <2>6. Is(r)
    BY <1>6, <2>2
  <2> HIDE DEF Is, r
  <2> QED BY <1>4, <2>4, <2>5, <2>6 DEF Holding
<1>7. ASSUME NEW p \in Pairings, Is([Begin(op, "cancelPairing") EXCEPT !.code = p])
      PROVE  /\ thr'[t] \in Thread /\ Ready(thr'[t])
             /\ thr'[t].pc \notin Holding \cup {"lapse", "lapseTell", "save"}
             /\ \A u \in Threads \ {t} : thr'[u] = thr[u]
  <2> DEFINE r == [Begin(op, "cancelPairing") EXCEPT !.code = p]
  <2>1. "cancelPairing" \in ThreadPC /\ p \in 0 .. MaxPairings
    BY BoundsAssumption DEF ThreadPC, Pairings
  <2>2. r \in Thread /\ r.pc = "cancelPairing"
    BY <1>3, <2>1 DEF Thread
  <2>3. Ready(r)
    BY <2>2 DEF Ready
  <2>4. Is(r)
    BY <1>7
  <2> HIDE DEF Is, r
  <2> QED BY <1>4, <2>2, <2>3, <2>4 DEF Holding
<1>8. ASSUME Active(saved), Is([Begin(op, "moveCheck") EXCEPT !.in = saved])
      PROVE  /\ thr'[t] \in Thread /\ Ready(thr'[t])
             /\ thr'[t].pc \notin Holding \cup {"lapse", "lapseTell", "save"}
             /\ \A u \in Threads \ {t} : thr'[u] = thr[u]
  <2> DEFINE r == [Begin(op, "moveCheck") EXCEPT !.in = saved]
  <2>1. saved \in SignIn /\ saved.token # 0 /\ saved.server \in Servers /\ ~saved.out
    BY <1>8 DEF TypeOK, Active, SignIn
  <2>2. "moveCheck" \in ThreadPC
    BY DEF ThreadPC
  <2>3. r \in Thread /\ r.pc = "moveCheck" /\ r.in = saved
    BY <1>3, <2>1, <2>2 DEF Thread
  <2>4. Ready(r)
    <3> HIDE DEF r
    <3> QED BY <2>1, <2>3 DEF Ready
  <2>5. Is(r)
    BY <1>8
  <2> HIDE DEF Is, r
  <2> QED BY <1>4, <2>3, <2>4, <2>5 DEF Holding
<1> QED BY <1>1, <1>5, <1>6, <1>7, <1>8 DEF Call

\* A call keeps the inductive invariant.
LEMMA CallKeepsInv ==
  ASSUME Inv, NEW t \in Threads, NEW op \in Op, Call(t, op)
  PROVE  Inv'
<1>1. /\ UNCHANGED <<local, waiter, romm, faults, saves, lapses>>
      /\ thr \in [Threads -> Thread] /\ over' \in {"no", "signedOut", "forgotten"}
  BY DEF Call, Inv, TypeOK
<1>2. /\ thr'[t] \in Thread /\ Ready(thr'[t])
      /\ thr'[t].pc \notin Holding \cup {"lapse", "lapseTell", "save"}
      /\ thr[t].pc = "idle"
      /\ \A u \in Threads \ {t} : thr'[u] = thr[u]
  BY CallBegins DEF Inv
<1>3. thr' \in [Threads -> Thread]
  <2>1. \E r : thr' = [thr EXCEPT ![t] = r]
    BY DEF Call
  <2> QED BY <1>1, <1>2, <2>1
<1>4. TypeOK'
  BY <1>1, <1>3 DEF Inv, TypeOK, local, romm, Active
<1>5. Prepared'
  BY <1>2 DEF Inv, Prepared, Ready
<1>6. Rejected'
  BY <1>1, <1>2 DEF Inv, Rejected, Holding, local, romm, Active
<1>7. Taken' /\ LiveIsPending'
  BY <1>1 DEF Inv, Taken, LiveIsPending, local
<1>8. Woken'
  <2>1. \A u \in Threads : thr[u].pc = "close" => thr'[u].pc = "close"
    BY <1>2
  <2> QED BY <1>1, <2>1 DEF Inv, Woken, local, Active
<1> QED BY <1>4, <1>5, <1>6, <1>7, <1>8 DEF Inv

\* WaitSignedIn: it takes the channel before it reads the sign-in.
LEMMA WaiterKeepsInv ==
  ASSUME Inv, NEW w \in Waiters, WaiterStep(w) \/ GiveUp(w)
  PROVE  Inv'
<1>1. UNCHANGED <<local, thr, romm, faults, aux>>
  BY DEF WaiterStep, Take, Look, Park, Wake, GiveUp
<1>2. /\ waiter \in [Waiters -> Waiter] /\ waiter[w] \in Waiter /\ gen \in Nat
      /\ waiter[w].gen <= gen
  BY DEF Inv, TypeOK, Taken
<1>3. /\ waiter' \in [Waiters -> Waiter]
      /\ \A v \in Waiters \ {w} : waiter'[v] = waiter[v]
      /\ waiter'[w].gen <= gen
      /\ waiter'[w].pc \in {"park", "asleep"} =>
           /\ waiter'[w].gen = waiter[w].gen
           /\ waiter[w].pc \in {"park", "asleep"} \/ ~Active(saved)
  <2>1. ASSUME NEW r \in Waiter, waiter' = [waiter EXCEPT ![w] = r]
        PROVE  /\ waiter' \in [Waiters -> Waiter] /\ waiter'[w] = r
               /\ \A v \in Waiters \ {w} : waiter'[v] = waiter[v]
    BY <1>2, <2>1
  <2>2. CASE Take(w)
    <3> DEFINE r == [pc |-> "read", gen |-> gen]
    <3>1. r \in Waiter /\ r.pc = "read" /\ r.gen = gen
      BY <1>2 DEF Waiter
    <3>2. waiter' = [waiter EXCEPT ![w] = r]
      BY <2>2 DEF Take
    <3> HIDE DEF r
    <3> QED BY <1>2, <2>1, <3>1, <3>2
  <2>3. ASSUME NEW pc \in {"idle", "take", "park", "asleep"}, waiter' = [waiter EXCEPT ![w].pc = pc]
        PROVE  /\ waiter' \in [Waiters -> Waiter]
               /\ waiter'[w].gen = waiter[w].gen /\ waiter'[w].pc = pc
               /\ \A v \in Waiters \ {w} : waiter'[v] = waiter[v]
    <3> DEFINE r == [waiter[w] EXCEPT !.pc = pc]
    <3>1. r \in Waiter /\ r.pc = pc /\ r.gen = waiter[w].gen
      BY <1>2 DEF Waiter
    <3>2. waiter' = [waiter EXCEPT ![w] = r]
      BY <2>3
    <3> HIDE DEF r
    <3> QED BY <2>1, <3>1, <3>2
  <2>4. CASE Look(w)
    <3>1. CASE Active(saved)
      BY <1>2, <2>3, <2>4, <3>1 DEF Look
    <3>2. CASE ~Active(saved)
      BY <1>2, <2>3, <2>4, <3>2 DEF Look
    <3> QED BY <3>1, <3>2
  <2>5. CASE Park(w) \/ Wake(w) \/ GiveUp(w)
    BY <1>2, <2>3, <2>5 DEF Park, Wake, GiveUp
  <2> QED BY <2>2, <2>4, <2>5 DEF WaiterStep
<1>4. TypeOK' /\ Prepared' /\ Rejected' /\ LiveIsPending'
  BY <1>1, <1>3 DEF Inv, TypeOK, Prepared, Rejected, LiveIsPending, local, romm, aux, Active
<1>5. Taken' /\ Woken'
  BY <1>1, <1>3 DEF Inv, Taken, Woken, local, Active
<1> QED BY <1>4, <1>5 DEF Inv

\* The inductive invariant is kept.
LEMMA NextInv == Inv /\ [Next]_vars => Inv'
<1> SUFFICES ASSUME Inv, [Next]_vars PROVE Inv'
  OBVIOUS
<1>1. ASSUME NEW t \in Threads, ThreadStep(t) \/ Poll(t) PROVE Inv'
  <2>1. TypeOK /\ Prepared /\ LiveIsPending
    BY DEF Inv
  <2>2. thr' \in [Threads -> Thread] /\ Prepared'
    BY <1>1, <2>1, ThreadKeepsTypes
  <2>3. saved' \in SignIn /\ (Active(saved') => saved'.token # 0)
    BY <1>1, <2>1, ThreadKeepsSaved
  <2>4. /\ pending' \in 0 .. MaxPairings
        /\ ctx' \in [Pairings -> {"unused", "live", "cancelled", "expired"}]
        /\ told' \in [Pairings -> {"none", "approved", "failed", "denied", "expired"}]
        /\ LiveIsPending'
    BY <1>1, <2>1, ThreadKeepsPairings
  <2>5. /\ gen' \in Nat /\ faults' \in Nat
        /\ issued' \in 0 .. MaxTokens /\ revoked' = revoked
        /\ saves' \in [Tokens -> Nat] /\ lapses' \in [Tokens -> Nat]
        /\ over' \in {"no", "signedOut", "forgotten"}
        /\ waiter' = waiter
    BY <1>1, <2>1, ThreadKeepsCounts
  <2>6. TypeOK'
    BY <2>1, <2>2, <2>3, <2>4, <2>5 DEF TypeOK, Active
  <2>7. Rejected'
    BY <1>1, ThreadKeepsRejected
  <2>8. Taken' /\ Woken'
    BY <1>1, ThreadKeepsWoken
  <2> QED BY <2>2, <2>4, <2>6, <2>7, <2>8 DEF Inv
<1>2. ASSUME NEW t \in Threads, NEW op \in Op, Call(t, op) PROVE Inv'
  BY <1>2, CallKeepsInv
<1>3. ASSUME NEW w \in Waiters, WaiterStep(w) \/ GiveUp(w) PROVE Inv'
  BY <1>3, WaiterKeepsInv
<1>4. ASSUME NEW p \in Pairings, Expire(p) PROVE Inv'
  <2>1. UNCHANGED <<saved, gen, pending, told, thr, waiter, romm, faults, aux>>
        /\ ctx' = [ctx EXCEPT ![p] = "expired"]
    BY <1>4 DEF Expire
  <2>2. TypeOK' /\ LiveIsPending'
    BY <2>1 DEF Inv, TypeOK, LiveIsPending, romm, aux, Active
  <2>3. Prepared' /\ Rejected' /\ Taken' /\ Woken'
    BY <2>1 DEF Inv, Prepared, Rejected, Taken, Woken, romm, aux, Active
  <2> QED BY <2>2, <2>3 DEF Inv
<1>5. ASSUME NEW k \in Tokens, Revoke(k) PROVE Inv'
  <2>1. UNCHANGED <<local, thr, waiter, issued, faults, aux>> /\ revoked' = revoked \cup {k}
    BY <1>5 DEF Revoke
  <2>2. TypeOK' /\ LiveIsPending'
    BY <2>1 DEF Inv, TypeOK, LiveIsPending, local, aux, Active
  <2>3. Prepared' /\ Rejected' /\ Taken' /\ Woken'
    BY <2>1 DEF Inv, Prepared, Rejected, Taken, Woken, local, aux, Active
  <2> QED BY <2>2, <2>3 DEF Inv
<1>6. CASE UNCHANGED vars
  BY <1>6 DEF Inv, TypeOK, Prepared, Rejected, Taken, Woken, LiveIsPending, vars, local, romm, aux, Active
<1> QED BY <1>1, <1>2, <1>3, <1>4, <1>5, <1>6 DEF Next

-----------------------------------------------------------------------------
(* How often a lapse is reported.                                           *)

\* A step of a goroutine is of no other.
LEMMA OthersStay ==
  ASSUME TypeOK, NEW t \in Threads, ThreadStep(t) \/ Poll(t)
  PROVE  \A u \in Threads \ {t} : thr'[u] = thr[u]
<1>1. thr \in [Threads -> Thread]
  BY DEF TypeOK
<1> QED BY <1>1 DEF ThreadStep, Exchange, Save, Close, Clear, SettingsFail, Read, Ask, Lapse, LapseWrite,
     LapseTell, Tell, Start, Register, PollEnds, PairTell, Name, CancelPairing, Out, OutWrite,
     ForgetRecords, ForgetIn, MoveCheck, Poll, Know, Goto, End

\* Where RomM's answer leads, and the rejection once c.mu is free.
LEMMA AskLeads ==
  ASSUME TypeOK, NEW t \in Threads, Ask(t)
  PROVE  thr'[t].pc \in {"lapse", "tell", "idle"}
<1>1. thr \in [Threads -> Thread] /\ thr[t] \in Thread
  BY DEF TypeOK
<1>2. ASSUME Goto(t, "lapse") PROVE thr'[t].pc = "lapse"
  BY <1>1, <1>2 DEF Goto, Thread
<1> QED BY <1>2, KnowsAndGoesOn DEF Ask, Status

LEMMA LapseLeads ==
  ASSUME TypeOK, NEW t \in Threads, Lapse(t)
  PROVE  \/ thr'[t].pc \in {"tell", "idle"}
         \/ thr'[t].pc = "lapseWrite" /\ Active(saved) /\ thr'[t].in = saved
<1>1. thr \in [Threads -> Thread] /\ thr[t] \in Thread
  BY DEF TypeOK
<1>2. ASSUME thr' = [thr EXCEPT ![t] = [@ EXCEPT !.pc = "lapseWrite", !.in = saved]]
      PROVE  thr'[t].pc = "lapseWrite" /\ thr'[t].in = saved
  BY <1>1, <1>2 DEF Thread
<1> QED BY <1>2, KnowsAndGoesOn DEF Lapse, Status

\* Whoever takes c.mu found it free.
LEMMA ThreadKeepsOne ==
  ASSUME TypeOK, OneHolds, NEW t \in Threads, ThreadStep(t) \/ Poll(t)
  PROVE  OneHolds'
<1>1. \A u \in Threads \ {t} : thr'[u] = thr[u]
  BY OthersStay
<1>2. thr'[t].pc \in Holding => Free
  <2>1. CASE Ask(t)
    BY <2>1, AskLeads DEF Holding
  <2>2. CASE Lapse(t)
    BY <2>2 DEF Lapse
  <2>3. CASE ~Ask(t) /\ ~Lapse(t)
    BY <2>3, OthersEndNothing DEF Save, Out
  <2> QED BY <2>1, <2>2, <2>3
<1> QED BY <1>1, <1>2 DEF OneHolds, Free

\* A goroutine that has no lapse to report before or after leaves those who have.
LEMMA SameReporting ==
  ASSUME NEW t \in Threads, \A u \in Threads \ {t} : thr'[u] = thr[u],
         thr[t].pc # "lapseTell", thr'[t].pc # "lapseTell", NEW k \in Tokens
  PROVE  Reporting(k)' = Reporting(k)
BY DEF Reporting

\* LapsesCounted: a lapse found is reported at most once, and then there's none to find.
LEMMA ThreadKeepsCounted ==
  ASSUME Inv, LapseInv, NEW t \in Threads, ThreadStep(t) \/ Poll(t)
  PROVE  LapsesCounted'
<1> SUFFICES ASSUME NEW k \in Tokens
             PROVE  /\ IsFiniteSet(Reporting(k)')
                    /\ lapses'[k] + Cardinality(Reporting(k)') + (IF Open(k)' THEN 1 ELSE 0) <= saves'[k] + faults'
  BY DEF LapsesCounted
<1> DEFINE R == Reporting(k)
<1>1. /\ TypeOK /\ OneHolds /\ thr \in [Threads -> Thread] /\ thr[t] \in Thread /\ thr[t].in \in SignIn
      /\ saved \in SignIn
      /\ lapses \in [Tokens -> Nat] /\ saves \in [Tokens -> Nat] /\ faults \in Nat
      /\ IsFiniteSet(R) /\ Cardinality(R) \in Nat
      /\ lapses[k] + Cardinality(R) + (IF Open(k) THEN 1 ELSE 0) <= saves[k] + faults
  BY FS_CardinalityType DEF Inv, TypeOK, LapseInv, LapsesCounted, Thread
<1>2. \A u \in Threads \ {t} : thr'[u] = thr[u]
  BY <1>1, OthersStay
<1>3. CASE Save(t)
  <2>1. thr[t].pc = "save" /\ thr'[t].pc = "close" /\ thr[t].in.token # 0 /\ saved' = thr[t].in
    BY <1>1, <1>3 DEF Save, Goto, Inv, Prepared, Thread
  <2>2. Reporting(k)' = R
    BY <1>2, <2>1, SameReporting
  <2>3. Open(k)' => k = thr[t].in.token
    BY <1>2, <1>3, <2>1 DEF Save, Free, Holding, Open
  <2>4. saves'[k] = (IF k = thr[t].in.token THEN saves[k] + 1 ELSE saves[k]) /\ UNCHANGED <<lapses, faults>>
    BY <1>1, <1>3 DEF Save
  <2> QED BY <1>1, <2>2, <2>3, <2>4
<1>4. CASE LapseWrite(t) \/ (SettingsFail(t) /\ thr[t].pc = "lapseWrite")
  <2>1. /\ thr[t].pc = "lapseWrite" /\ thr'[t].pc = "lapseTell" /\ thr'[t].in = thr[t].in
        /\ UNCHANGED <<lapses, saves>>
    BY <1>1, <1>4 DEF LapseWrite, SettingsFail, Goto, Thread, aux
  <2>2. \A u \in Threads \ {t} : thr'[u].pc # "lapseWrite"
    BY <1>1, <1>2, <2>1 DEF OneHolds, Holding
  <2>3. CASE thr[t].in.token = k
    <3>1. Reporting(k)' = R \cup {t} /\ t \notin R /\ Open(k)
      BY <1>2, <2>1, <2>3 DEF Reporting, Open
    <3>2. IsFiniteSet(R \cup {t}) /\ Cardinality(R \cup {t}) = Cardinality(R) + 1
      BY <1>1, <3>1, FS_AddElement
    <3>3. CASE LapseWrite(t)
      <4>1. ~Active(saved') /\ faults' = faults
        BY <1>1, <3>3 DEF LapseWrite, Active, SignIn
      <4>2. ~Open(k)'
        BY <2>1, <2>2, <4>1 DEF Open, Active
      <4> QED BY <1>1, <2>1, <3>1, <3>2, <4>1, <4>2
    <3>4. CASE SettingsFail(t)
      <4>1. faults' = faults + 1
        BY <3>4 DEF SettingsFail
      <4> QED BY <1>1, <2>1, <3>1, <3>2, <4>1
    <3> QED BY <1>4, <3>3, <3>4
  <2>4. CASE thr[t].in.token # k
    <3>1. Reporting(k)' = R
      BY <1>2, <2>1, <2>4 DEF Reporting
    <3>2. Open(k)' => Open(k)
      <4>1. Active(saved)' => saved' = saved
        BY <1>1, <1>4 DEF LapseWrite, SettingsFail, Active, SignIn, local
      <4> QED BY <2>1, <2>2, <4>1 DEF Open, Active
    <3>3. faults' \in Nat /\ faults' >= faults
      BY <1>1, <1>4 DEF LapseWrite, SettingsFail
    <3> QED BY <1>1, <2>1, <3>1, <3>2, <3>3
  <2> QED BY <2>3, <2>4
<1>5. CASE LapseTell(t)
  <2>1. thr[t].pc = "lapseTell" /\ thr'[t].pc \in {"tell", "idle"} /\ UNCHANGED <<saved, saves, faults>>
    BY <1>1, <1>5, KnowsAndGoesOn DEF LapseTell, Status, local
  <2>2. Open(k)' => Open(k)
    BY <1>2, <2>1 DEF Open, Active
  <2>3. CASE thr[t].in.token = k
    <3>1. Reporting(k)' = R \ {t} /\ t \in R
      BY <1>2, <2>1, <2>3 DEF Reporting
    <3>2. IsFiniteSet(R \ {t}) /\ Cardinality(R \ {t}) = Cardinality(R) - 1
      BY <1>1, <3>1, FS_RemoveElement
    <3>3. lapses'[k] = lapses[k] + 1
      BY <1>1, <1>5, <2>3 DEF LapseTell
    <3> QED BY <1>1, <2>1, <2>2, <3>1, <3>2, <3>3
  <2>4. CASE thr[t].in.token # k
    <3>1. Reporting(k)' = R
      BY <1>2, <2>1, <2>4 DEF Reporting
    <3>2. lapses'[k] = lapses[k]
      BY <1>1, <1>5, <2>4 DEF LapseTell
    <3> QED BY <1>1, <2>1, <2>2, <3>1, <3>2
  <2> QED BY <2>3, <2>4
<1>6. CASE ~Save(t) /\ ~LapseWrite(t) /\ ~(SettingsFail(t) /\ thr[t].pc = "lapseWrite") /\ ~LapseTell(t)
  <2>1. thr'[t].pc # "lapseTell"
    <3>1. CASE Ask(t)
      BY <1>1, <3>1, AskLeads
    <3>2. CASE Lapse(t)
      BY <1>1, <3>2, LapseLeads
    <3> QED BY <1>1, <1>6, <3>1, <3>2, OthersEndNothing
  <2>2. thr[t].pc # "lapseTell"
    BY <1>6 DEF ThreadStep, Exchange, Close, Clear, SettingsFail, Read, Ask, Lapse, Tell, Start, Register,
       PollEnds, PairTell, Name, CancelPairing, Out, OutWrite, ForgetRecords, ForgetIn, MoveCheck, Poll
  <2>3. Reporting(k)' = R
    BY <1>2, <2>1, <2>2, SameReporting
  <2>4. UNCHANGED <<lapses, saves>> /\ faults' \in Nat /\ faults' >= faults
    <3>1. CASE SettingsFail(t)
      BY <1>1, <3>1 DEF SettingsFail, aux
    <3>2. CASE ~SettingsFail(t)
      <4>1. UNCHANGED <<lapses, saves, faults>>
        BY <1>6, <3>2 DEF ThreadStep, Exchange, Close, Clear, Read, Ask, Lapse, Tell, Start, Register,
           PollEnds, PairTell, Name, CancelPairing, Out, OutWrite, ForgetRecords, ForgetIn, MoveCheck, Poll, aux
      <4> QED BY <1>1, <4>1
    <3> QED BY <3>1, <3>2
  <2>5. Active(saved') => saved' = saved
    <3>1. CASE OutWrite(t)
      BY <1>1, <3>1 DEF OutWrite, Active, SignIn
    <3>2. CASE ForgetIn(t)
      BY <3>2 DEF ForgetIn, Active, NoSignIn
    <3> QED BY <1>6, <3>1, <3>2 DEF ThreadStep, Exchange, Close, Clear, SettingsFail, Read, Ask, Lapse, Tell,
         Start, Register, PollEnds, PairTell, Name, CancelPairing, Out, ForgetRecords, MoveCheck, Poll, local
  <2>6. thr'[t].pc = "lapseWrite" => Active(saved) /\ thr'[t].in = saved
    <3>1. CASE Ask(t)
      BY <1>1, <3>1, AskLeads
    <3>2. CASE Lapse(t)
      BY <1>1, <3>2, LapseLeads
    <3> QED BY <1>1, <3>1, <3>2, OthersEndNothing
  <2>7. Open(k)' => Open(k)
    BY <1>2, <2>5, <2>6 DEF Open
  <2> QED BY <1>1, <2>3, <2>4, <2>7
<1> QED BY <1>3, <1>4, <1>5, <1>6

\* Every step.
LEMMA LapseNext == Inv /\ LapseInv /\ [Next]_vars => LapseInv'
<1> SUFFICES ASSUME Inv, LapseInv, [Next]_vars PROVE LapseInv'
  OBVIOUS
<1>1. ASSUME NEW t \in Threads, ThreadStep(t) \/ Poll(t) PROVE LapseInv'
  BY <1>1, ThreadKeepsOne, ThreadKeepsCounted DEF Inv, LapseInv
<1>2. ASSUME NEW t \in Threads, NEW op \in Op, Call(t, op) PROVE LapseInv'
  <2>1. /\ thr'[t].pc \notin Holding \cup {"lapse", "lapseTell", "save"} /\ thr[t].pc = "idle"
        /\ \A u \in Threads \ {t} : thr'[u] = thr[u]
    BY <1>2, CallBegins DEF Inv
  <2>2. UNCHANGED <<saved, faults, saves, lapses>>
    BY <1>2 DEF Call, local
  <2>3. OneHolds'
    BY <2>1 DEF LapseInv, OneHolds
  <2>4. \A k \in Tokens : Reporting(k)' = Reporting(k)
    BY <2>1, SameReporting
  <2>5. \A k \in Tokens : Open(k)' <=> Open(k)
    BY <2>1, <2>2 DEF Open, Active, Holding
  <2>6. LapsesCounted'
    BY <2>2, <2>4, <2>5 DEF LapseInv, LapsesCounted
  <2> QED BY <2>3, <2>6 DEF LapseInv
<1>3. CASE UNCHANGED <<saved, thr, faults, saves, lapses>>
  BY <1>3 DEF LapseInv, OneHolds, LapsesCounted, Reporting, Open, Active
<1> QED BY <1>1, <1>2, <1>3 DEF Next, WaiterStep, Take, Look, Park, Wake, GiveUp, Expire, Revoke, vars, local,
     aux

-----------------------------------------------------------------------------
(* The theorems.                                                            *)

\* The inductive invariant holds in every state the plugin's sign-in can be in.
THEOREM InvHolds == Spec => []Inv
<1> QED BY InitInv, NextInv, PTL DEF Spec

\* What settings.json, the pairings and every call keep has its type, and a sign-in has a token.
THEOREM TypesHold == Spec => []TypeOK
<1>1. Inv => TypeOK
  BY DEF Inv
<1> QED BY <1>1, InvHolds, PTL

\* WaitSignedIn takes the channel before it reads the sign-in: no wake-up is lost between the two.
THEOREM WakeNotLostHolds == Spec => []WakeNotLost
<1>1. Inv => WakeNotLost
  BY DEF Inv, Woken, WakeNotLost
<1> QED BY <1>1, InvHolds, PTL

\* StartDevicePairing cancels the pairing it replaces: two never both wait for a sign-in.
THEOREM OnePairingHolds == Spec => []OnePairing
<1>1. Inv => OnePairing
  BY DEF Inv, LiveIsPending, OnePairing, Polling
<1> QED BY <1>1, InvHolds, PTL

\* CancelDevicePairing, SignOut and Forget cancel the pairing they name and no newer one.
THEOREM NewerPairingKeptHolds == Spec => NewerPairingKept
<1> DEFINE Kept == \A p \in Pairings : ctx[p] = "live" /\ ctx'[p] = "cancelled" =>
                     \/ pending' \notin {0, p}
                     \/ \E t \in Threads : thr[t].pc = "cancelPairing" /\ thr[t].code = p
<1>1. Inv /\ [Next]_vars => [Kept]_vars
  <2> SUFFICES ASSUME Inv, Next, NEW p \in Pairings, ctx[p] = "live", ctx'[p] = "cancelled"
               PROVE  \/ pending' \notin {0, p}
                      \/ \E t \in Threads : thr[t].pc = "cancelPairing" /\ thr[t].code = p
    OBVIOUS
  <2>1. /\ ctx \in [Pairings -> {"unused", "live", "cancelled", "expired"}]
        /\ p \in 1 .. MaxPairings /\ 0 \notin Pairings
    BY BoundsAssumption DEF Inv, TypeOK, Pairings
  <2>2. ASSUME NEW t \in Threads, Start(t) PROVE pending' \notin {0, p}
    <3>1. ASSUME NEW q \in Pairings, ctx[q] = "unused", Register(t, q) PROVE pending' = q /\ q # p
      BY <3>1 DEF Register
    <3> QED BY <2>1, <2>2, <3>1 DEF Start, local
  <2>3. ASSUME NEW t \in Threads, CancelPairing(t) PROVE thr[t].pc = "cancelPairing" /\ thr[t].code = p
    BY <2>1, <2>3 DEF CancelPairing
  <2>4. ASSUME NEW q \in Pairings, Expire(q) PROVE FALSE
    BY <2>1, <2>4 DEF Expire
  <2>5. ASSUME ctx' = ctx PROVE FALSE
    BY <2>5
  <2> QED BY ZenonT(60), <2>2, <2>3, <2>4, <2>5 DEF Next, ThreadStep, Exchange, Save, Close, Clear, SettingsFail, Read,
       Ask, Lapse, LapseWrite, LapseTell, Tell, PollEnds, PairTell, Name, Out, OutWrite, ForgetRecords,
       ForgetIn, MoveCheck, Poll, Call, WaiterStep, Take, Look, Park, Wake, GiveUp, Revoke, local
<1> QED BY <1>1, InvHolds, PTL DEF Spec, NewerPairingKept

\* A late rejection of a token a newer sign-in replaced changes nothing: a sign-in ends when RomM
\* rejects its token, when another replaces it, or when SignOut or Forget ends it.
THEOREM EndsForReasonHolds == Spec => EndsForReason
<1> DEFINE Reason == \A k \in Tokens : Active(saved) /\ saved.token = k /\ ~(Active(saved') /\ saved'.token = k) =>
                       \/ k \in revoked
                       \/ Active(saved')
                       \/ \E t \in Threads : thr[t].pc \in {"outWrite", "forgetIn"}
<1>1. Inv /\ [Next]_vars => [Reason]_vars
  <2> SUFFICES ASSUME Inv, Next, NEW k \in Tokens, Active(saved), saved.token = k,
                      ~(Active(saved') /\ saved'.token = k)
               PROVE  \/ k \in revoked
                      \/ Active(saved')
                      \/ \E t \in Threads : thr[t].pc \in {"outWrite", "forgetIn"}
    OBVIOUS
  <2>1. ASSUME NEW t \in Threads, Save(t) PROVE Active(saved')
    BY <2>1, ServersAssumption DEF Inv, Prepared, Save, Active
  <2>2. ASSUME NEW t \in Threads, LapseWrite(t) PROVE k \in revoked
    BY <2>2 DEF Inv, Rejected, LapseWrite
  <2>3. ASSUME NEW t \in Threads, OutWrite(t) \/ ForgetIn(t) PROVE thr[t].pc \in {"outWrite", "forgetIn"}
    BY <2>3 DEF OutWrite, ForgetIn
  <2>4. ASSUME saved' = saved PROVE FALSE
    BY <2>4
  <2> QED BY ZenonT(60), <2>1, <2>2, <2>3, <2>4 DEF Next, ThreadStep, Exchange, Close, Clear, SettingsFail, Read,
       Ask, Lapse, LapseTell, Tell, Start, Register, PollEnds, PairTell, Name, CancelPairing, Out,
       ForgetRecords, MoveCheck, Poll, Call, WaiterStep, Take, Look, Park, Wake, GiveUp, Revoke, Expire, local
<1> QED BY <1>1, InvHolds, PTL DEF Spec, EndsForReason
\* Only the first rejection of a token reports that it lapsed: as often as it was saved, and once more for
\* each time the disk failed to keep that, however many requests RomM rejects at once.
THEOREM LapseOnceHolds == Spec => []LapseOnce
<1>1. Init => LapseInv
  <2> SUFFICES ASSUME Init PROVE LapseInv
    OBVIOUS
  <2>1. OneHolds
    BY DEF Init, OneHolds, Idle, Holding
  <2>2. \A k \in Tokens : Reporting(k) = {} /\ ~Open(k)
    BY DEF Init, Reporting, Open, Active, Idle, NoSignIn
  <2>3. IsFiniteSet({}) /\ Cardinality({}) = 0
    BY FS_EmptySet
  <2>4. LapsesCounted
    BY SMTT(60), <2>2, <2>3 DEF LapsesCounted, Init
  <2> QED BY <2>1, <2>4 DEF LapseInv
<1>2. Inv /\ LapseInv => LapseOnce
  <2> SUFFICES ASSUME Inv, LapseInv, NEW k \in Tokens PROVE lapses[k] <= saves[k] + faults
    BY DEF LapseOnce
  <2>1. lapses[k] \in Nat /\ saves[k] \in Nat /\ faults \in Nat
    BY DEF Inv, TypeOK
  <2>2. Cardinality(Reporting(k)) \in Nat
    BY FS_CardinalityType DEF LapseInv, LapsesCounted
  <2> QED BY <2>1, <2>2 DEF LapseInv, LapsesCounted
<1> QED BY <1>1, <1>2, LapseNext, InvHolds, PTL DEF Spec
=============================================================================
