------------------------------ MODULE Connection ------------------------------
(***************************************************************************)
(* The plugin's sign-in to RomM: connection.go, the sign-in part of        *)
(* server.go's Edit URL and Forget server, and the sign-in settings.json   *)
(* and the token file keep.                                                *)
(*                                                                         *)
(* Calls, device pairings and requests to RomM run concurrently, each a    *)
(* goroutine of Threads.  One action is one critical section of            *)
(* Connection.mu, one locked operation of the settings store, or one answer*)
(* of RomM.  The store's lock doesn't cover a read and the write that      *)
(* depends on it, and the answers of RomM take their time: both are where  *)
(* calls overtake each other.                                              *)
(***************************************************************************)
EXTENDS Integers, FiniteSets

CONSTANTS
  Threads,      \* goroutines
  Waiters,      \* work paused by WaitSignedIn
  Servers,      \* addresses of RomM
  NoServer,     \* no server is saved
  MaxTokens,    \* bound: tokens RomM issues
  MaxPairings,  \* bound: device pairings
  MaxFaults,    \* bound: settings writes and reads that fail
  MaxSaves,     \* bound: sign-ins saved before Edit URL is no longer called
  Calls         \* bound: the operations of Op that happen

ASSUME ServersAssumption == Servers # {} /\ NoServer \notin Servers
ASSUME BoundsAssumption == MaxTokens \in Nat /\ MaxPairings \in Nat
                           /\ MaxFaults \in Nat /\ MaxSaves \in Nat

VARIABLES
  saved,      \* what settings.json and the token file keep: domain.SignIn
  gen,        \* c.resume: the channels closed so far
  pending,    \* c.pairingCode while c.cancelPairing is set, 0 while it's nil
  ctx,        \* the context of each pairing
  told,       \* the Events.Pairing each pairing sent
  thr,        \* what each goroutine has left to do
  waiter,     \* where each WaitSignedIn stands, and the channel it took
  issued,     \* RomM: tokens issued so far
  revoked,    \* RomM: tokens it no longer accepts
  faults,     \* settings operations that failed so far
  saves,      \* auxiliary: times each token was saved as signed in
  lapses,     \* auxiliary: times each token's lapse was reported
  over        \* auxiliary: what the user ended last: "no", "signedOut" or "forgotten"

local == <<saved, gen, pending, ctx, told>>
romm  == <<issued, revoked>>
aux   == <<saves, lapses, over>>
vars  == <<local, thr, waiter, romm, faults, aux>>

-----------------------------------------------------------------------------
(* Data. *)

Tokens == 1 .. MaxTokens
Pairings == 1 .. MaxPairings

\* domain.SignIn; token 0 is no token.
SignIn == [server : Servers \cup {NoServer}, token : 0 .. MaxTokens, out : BOOLEAN]
NoSignIn == [server |-> NoServer, token |-> 0, out |-> FALSE]

\* What activeSignIn and WaitSignedIn take for signed in.
Active(in) == in.server # NoServer /\ ~in.out

Op == {"none", "signIn", "start", "poll", "cancel", "signOut", "forget", "move", "request"}
\* What a goroutine does next.  It holds c.mu in the states of Holding.
ThreadPC == {"idle", "exchange", "save", "close", "clear", "read", "ask", "lapse", "lapseWrite",
             "lapseTell", "tell", "register", "wait", "pairTell", "name", "cancelPairing",
             "out", "outWrite", "forgetRecords", "forgetIn", "moveCheck"}
Holding == {"close", "lapseWrite", "outWrite"}
Status == {"none", "notSetUp", "signedOut", "connected", "offline"}
Thread == [pc : ThreadPC, op : Op, in : SignIn, code : 0 .. MaxPairings, st : Status]
Idle == [pc |-> "idle", op |-> "none", in |-> NoSignIn, code |-> 0, st |-> "none"]
Begin(op, pc) == [Idle EXCEPT !.op = op, !.pc = pc]

Waiter == [pc : {"idle", "take", "read", "park", "asleep"}, gen : Nat]

Goto(t, pc) == thr' = [thr EXCEPT ![t].pc = pc]
End(t) == thr' = [thr EXCEPT ![t] = Idle]

\* Nobody holds c.mu.
Free == \A t \in Threads : thr[t].pc \notin Holding

\* The calls that end with Status, and Events.Changed with what it found.
Reports == {"signIn", "poll", "move"}

-----------------------------------------------------------------------------
(* saveSignIn and signedIn. *)

\* RomM redeems a pair code, or accepts the password and the pairing the plugin approves itself;
\* or it refuses.
Exchange(t) ==
  /\ thr[t].pc = "exchange"
  /\ \/ /\ issued < MaxTokens
        /\ issued' = issued + 1
        /\ thr' = [thr EXCEPT ![t] = [@ EXCEPT !.pc = "save", !.in.token = issued + 1]]
     \/ End(t) /\ UNCHANGED issued
  /\ UNCHANGED <<local, waiter, revoked, faults, aux>>

\* saveSignIn, under c.mu: the sign-in is saved.
Save(t) ==
  /\ thr[t].pc = "save" /\ Free
  /\ saved' = thr[t].in
  /\ saves' = [saves EXCEPT ![thr[t].in.token] = @ + 1]
  /\ over' = IF thr[t].op = "signIn" THEN "no" ELSE over
  /\ Goto(t, "close")
  /\ UNCHANGED <<gen, pending, ctx, told, waiter, romm, faults, lapses>>

\* Variant: the channel stays open.
CloseNothing(t) ==
  /\ thr[t].pc = "close"
  /\ Goto(t, IF thr[t].op = "move" THEN "clear" ELSE "read")
  /\ UNCHANGED <<local, waiter, romm, faults, aux>>

\* Still under c.mu: the channel closes, a new one takes its place.  Move then empties the Catalog.
Close(t) ==
  /\ thr[t].pc = "close"
  /\ gen' = gen + 1
  /\ Goto(t, IF thr[t].op = "move" THEN "clear" ELSE "read")
  /\ UNCHANGED <<saved, pending, ctx, told, waiter, romm, faults, aux>>

\* catalog.Clear, which may fail.
Clear(t) ==
  /\ thr[t].pc = "clear"
  /\ Goto(t, "read") \/ End(t)
  /\ UNCHANGED <<local, waiter, romm, faults, aux>>

\* The disk fails a read or a write of the sign-in: a pairing reports it, a call returns it.  A save
\* that fails in signOut is only logged.
SettingsFail(t) ==
  /\ thr[t].pc \in {"save", "read", "lapseWrite", "out", "outWrite", "forgetIn"} /\ faults < MaxFaults
  /\ thr[t].pc \in {"save", "out"} => Free
  /\ faults' = faults + 1
  /\ IF thr[t].pc = "lapseWrite" THEN Goto(t, "lapseTell")
     ELSE IF thr[t].op = "poll" THEN thr' = [thr EXCEPT ![t] = [@ EXCEPT !.pc = "pairTell", !.st = "none"]]
     ELSE End(t)
  /\ UNCHANGED <<local, waiter, romm, aux>>

-----------------------------------------------------------------------------
(* Status, and observe on any request. *)

\* Status, of the calls that end with it, of Watch and of the QAM, and activeSignIn before any other
\* request (op "request" is all but the first): both read the sign-in they will use.
Read(t) ==
  LET st == IF saved.server = NoServer THEN "notSetUp" ELSE "signedOut" IN
  /\ thr[t].pc = "read"
  /\ IF Active(saved) THEN thr' = [thr EXCEPT ![t] = [@ EXCEPT !.pc = "ask", !.in = saved]]
     ELSE IF thr[t].op \in Reports THEN thr' = [thr EXCEPT ![t] = [@ EXCEPT !.pc = "tell", !.st = st]]
     ELSE End(t)
  /\ UNCHANGED <<local, waiter, romm, faults, aux>>

\* What a call does once it knows its status.
Know(t, st) == IF thr[t].op \in Reports
               THEN thr' = [thr EXCEPT ![t] = [@ EXCEPT !.pc = "tell", !.st = st]]
               ELSE End(t)

\* RomM answers, or doesn't: under an ended context it never does.
Ask(t) ==
  /\ thr[t].pc = "ask"
  /\ \/ Know(t, "offline")
     \/ /\ thr[t].op = "poll" => ctx[thr[t].code] = "live"
        /\ IF thr[t].in.token \in revoked THEN Goto(t, "lapse") ELSE Know(t, "connected")
  /\ UNCHANGED <<local, waiter, romm, faults, aux>>

\* Variant: a late rejection ends whatever sign-in there is.
LapseAny(t) ==
  /\ thr[t].pc = "lapse" /\ Free
  /\ IF Active(saved)
     THEN thr' = [thr EXCEPT ![t] = [@ EXCEPT !.pc = "lapseWrite", !.in = saved]]
     ELSE Know(t, "signedOut")
  /\ UNCHANGED <<local, waiter, romm, faults, aux>>

\* signOut, under c.mu: nothing changes unless the rejected token is still the one signed in.
Lapse(t) ==
  /\ thr[t].pc = "lapse" /\ Free
  /\ IF Active(saved) /\ saved.token = thr[t].in.token
     THEN thr' = [thr EXCEPT ![t] = [@ EXCEPT !.pc = "lapseWrite", !.in = saved]]
     ELSE Know(t, "signedOut")
  /\ UNCHANGED <<local, waiter, romm, faults, aux>>

LapseWrite(t) ==
  /\ thr[t].pc = "lapseWrite"
  /\ saved' = [thr[t].in EXCEPT !.out = TRUE]
  /\ Goto(t, "lapseTell")
  /\ UNCHANGED <<gen, pending, ctx, told, waiter, romm, faults, aux>>

\* Events.Changed, after c.mu.
LapseTell(t) ==
  /\ thr[t].pc = "lapseTell"
  /\ lapses' = [lapses EXCEPT ![thr[t].in.token] = @ + 1]
  /\ Know(t, "signedOut")
  /\ UNCHANGED <<local, waiter, romm, faults, saves, over>>

\* Events.Changed with the status; a pairing has its own event to send after.
Tell(t) ==
  /\ thr[t].pc = "tell"
  /\ IF thr[t].op = "poll" THEN Goto(t, "pairTell") ELSE End(t)
  /\ UNCHANGED <<local, waiter, romm, faults, aux>>

-----------------------------------------------------------------------------
(* Device pairings. *)

\* RomM made a pairing; under c.mu it replaces the pending one, and its poll begins.
Register(t, p) ==
  /\ thr[t].pc = "register" /\ Free
  /\ pending' = p
  /\ ctx' = [q \in Pairings |-> IF q = p THEN "live"
                                ELSE IF q = pending /\ ctx[q] = "live" THEN "cancelled" ELSE ctx[q]]
  /\ thr' = [thr EXCEPT ![t] = [@ EXCEPT !.pc = "wait", !.op = "poll", !.code = p]]
  /\ UNCHANGED <<saved, gen, told, waiter, romm, faults, aux>>

\* RomM names the pairing, or refuses.
Start(t) ==
  \/ \E p \in Pairings : ctx[p] = "unused" /\ Register(t, p)
  \/ /\ thr[t].pc = "register"
     /\ End(t)
     /\ UNCHANGED <<local, waiter, romm, faults, aux>>

\* Variant: a pairing's context has no deadline.
ExpireNever(p) == FALSE

\* The pairing's time is up.
Expire(p) ==
  /\ ctx[p] = "live"
  /\ ctx' = [ctx EXCEPT ![p] = "expired"]
  /\ UNCHANGED <<saved, gen, pending, told, thr, waiter, romm, faults, aux>>

\* The answer to a poll.  Pending, slow_down and lost answers only poll again.
Poll(t) ==
  LET p == thr[t].code IN
  /\ thr[t].pc = "wait" /\ ctx[p] = "live"
  /\ \/ /\ issued < MaxTokens
        /\ issued' = issued + 1
        /\ thr' = [thr EXCEPT ![t] = [@ EXCEPT !.pc = "save", !.in.token = issued + 1]]
        /\ UNCHANGED told
     \/ \E how \in {"denied", "expired"} :
          told' = [told EXCEPT ![p] = how] /\ End(t) /\ UNCHANGED issued
  /\ UNCHANGED <<saved, gen, pending, ctx, waiter, revoked, faults, aux>>

\* Its context ended: by the deadline, which it reports, or cancelled.
PollEnds(t) ==
  LET p == thr[t].code IN
  /\ thr[t].pc = "wait" /\ ctx[p] # "live"
  /\ told' = IF ctx[p] = "expired" THEN [told EXCEPT ![p] = "expired"] ELSE told
  /\ End(t)
  /\ UNCHANGED <<saved, gen, pending, ctx, waiter, romm, faults, aux>>

\* Events.Pairing: approved, or failed when the sign-in couldn't be kept.
PairTell(t) ==
  /\ thr[t].pc = "pairTell"
  /\ told' = [told EXCEPT ![thr[t].code] = IF thr[t].st = "none" THEN "failed" ELSE "approved"]
  /\ End(t)
  /\ UNCHANGED <<saved, gen, pending, ctx, waiter, romm, faults, aux>>

\* pairing(), of SignOut and Forget: the code of the pending pairing.
Name(t) ==
  /\ thr[t].pc = "name" /\ Free
  /\ thr' = [thr EXCEPT ![t] = [@ EXCEPT !.pc = "cancelPairing", !.code = pending]]
  /\ UNCHANGED <<local, waiter, romm, faults, aux>>

AfterCancel(op) == IF op = "signOut" THEN "out" ELSE IF op = "forget" THEN "forgetIn" ELSE "idle"

\* CancelDevicePairing, under c.mu.
CancelPairing(t) ==
  LET p == thr[t].code IN
  /\ thr[t].pc = "cancelPairing" /\ Free
  /\ IF p # 0 /\ pending = p
     THEN /\ pending' = 0
          /\ ctx' = [ctx EXCEPT ![p] = IF @ = "live" THEN "cancelled" ELSE @]
     ELSE UNCHANGED <<pending, ctx>>
  /\ thr' = [thr EXCEPT ![t] = IF thr[t].op = "cancel" THEN Idle
                               ELSE [Idle EXCEPT !.pc = AfterCancel(thr[t].op), !.op = thr[t].op]]
  /\ UNCHANGED <<saved, gen, told, waiter, romm, faults, aux>>

-----------------------------------------------------------------------------
(* SignOut, Forget server and Edit URL. *)

\* SignOut reads the sign-in under c.mu: without one it ends.
Out(t) ==
  /\ thr[t].pc = "out" /\ Free
  /\ IF saved.server = NoServer THEN End(t) ELSE Goto(t, "outWrite")
  /\ UNCHANGED <<local, waiter, romm, faults, aux>>

\* Still under c.mu: settings.SignOut drops the token and keeps the server.  Events.Changed hears
\* of it.
OutWrite(t) ==
  /\ thr[t].pc = "outWrite"
  /\ saved' = IF saved.server = NoServer THEN saved ELSE [saved EXCEPT !.token = 0, !.out = TRUE]
  /\ over' = IF over = "forgotten" THEN over ELSE "signedOut"
  /\ End(t)
  /\ UNCHANGED <<gen, pending, ctx, told, waiter, romm, faults, saves, lapses>>

\* Forget first drops the downloads, the records and the Catalog, which may fail.
ForgetRecords(t) ==
  /\ thr[t].pc = "forgetRecords"
  /\ Goto(t, "name") \/ End(t)
  /\ UNCHANGED <<local, waiter, romm, faults, aux>>

\* settings.ForgetSignIn, not under c.mu.  Events.Changed hears of it.
ForgetIn(t) ==
  /\ thr[t].pc = "forgetIn"
  /\ saved' = NoSignIn
  /\ over' = "forgotten"
  /\ End(t)
  /\ UNCHANGED <<gen, pending, ctx, told, waiter, romm, faults, saves, lapses>>

\* Move looks at the new address with the sign-in it read: RomM there rejects it, doesn't answer,
\* or knows it and this Deck's games.
MoveCheck(t) ==
  /\ thr[t].pc = "moveCheck"
  /\ \/ End(t)
     \/ /\ thr[t].in.token \notin revoked
        /\ \E s \in Servers : thr' = [thr EXCEPT ![t] = [@ EXCEPT !.pc = "save", !.in.server = s]]
  /\ UNCHANGED <<local, waiter, romm, faults, aux>>

-----------------------------------------------------------------------------
(* WaitSignedIn. *)

Take(w) ==
  /\ waiter[w].pc \in {"idle", "take"} /\ Free
  /\ waiter' = [waiter EXCEPT ![w] = [pc |-> "read", gen |-> gen]]
  /\ UNCHANGED <<local, thr, romm, faults, aux>>

\* It reads the sign-in, and returns if there is one.
Look(w) ==
  /\ waiter[w].pc = "read"
  /\ waiter' = [waiter EXCEPT ![w].pc = IF Active(saved) THEN "idle" ELSE "park"]
  /\ UNCHANGED <<local, thr, romm, faults, aux>>

\* Else it waits for the channel it took.
Park(w) ==
  /\ waiter[w].pc = "park"
  /\ waiter' = [waiter EXCEPT ![w].pc = "asleep"]
  /\ UNCHANGED <<local, thr, romm, faults, aux>>

\* Its channel is closed, or its context ended.
Wake(w) ==
  /\ waiter[w].pc = "asleep" /\ gen > waiter[w].gen
  /\ waiter' = [waiter EXCEPT ![w].pc = "take"]
  /\ UNCHANGED <<local, thr, romm, faults, aux>>

GiveUp(w) ==
  /\ waiter[w].pc = "asleep"
  /\ waiter' = [waiter EXCEPT ![w].pc = "idle"]
  /\ UNCHANGED <<local, thr, romm, faults, aux>>

-----------------------------------------------------------------------------
(* Calls. *)

\* A call that lets the user in again.
ByUser(op) == op \in {"signIn", "start"}

Call(t, op) ==
  /\ thr[t] = Idle /\ op \in Calls
  /\ \/ /\ op = "signIn"
        /\ \E s \in Servers : thr' = [thr EXCEPT ![t] = [Begin(op, "exchange") EXCEPT !.in.server = s]]
     \/ /\ op = "start"
        /\ \E s \in Servers : thr' = [thr EXCEPT ![t] = [Begin(op, "register") EXCEPT !.in.server = s]]
     \/ /\ op = "cancel"
        /\ \E p \in Pairings : /\ ctx[p] # "unused"
                               /\ thr' = [thr EXCEPT ![t] = [Begin(op, "cancelPairing") EXCEPT !.code = p]]
     \/ op = "signOut" /\ thr' = [thr EXCEPT ![t] = Begin(op, "name")]
     \/ op = "forget" /\ thr' = [thr EXCEPT ![t] = Begin(op, "forgetRecords")]
     \/ op = "request" /\ thr' = [thr EXCEPT ![t] = Begin(op, "read")]
     \/ /\ op = "move" /\ Active(saved) /\ gen < MaxSaves
        /\ thr' = [thr EXCEPT ![t] = [Begin(op, "moveCheck") EXCEPT !.in = saved]]
  /\ over' = IF ByUser(op) THEN "no" ELSE over
  /\ UNCHANGED <<local, waiter, romm, faults, saves, lapses>>

\* RomM stops accepting a token: it expired, or someone revoked it.
Revoke(k) ==
  /\ "revoke" \in Calls /\ k \in (1 .. issued) \ revoked
  /\ revoked' = revoked \cup {k}
  /\ UNCHANGED <<local, thr, waiter, issued, faults, aux>>

-----------------------------------------------------------------------------
Init ==
  /\ saved = NoSignIn /\ gen = 0 /\ pending = 0
  /\ ctx = [p \in Pairings |-> "unused"]
  /\ told = [p \in Pairings |-> "none"]
  /\ thr = [t \in Threads |-> Idle]
  /\ waiter = [w \in Waiters |-> [pc |-> "idle", gen |-> 0]]
  /\ issued = 0 /\ revoked = {} /\ faults = 0
  /\ saves = [k \in Tokens |-> 0] /\ lapses = [k \in Tokens |-> 0]
  /\ over = "no"

ThreadStep(t) ==
  \/ Exchange(t) \/ Save(t) \/ Close(t) \/ Clear(t) \/ SettingsFail(t)
  \/ Read(t) \/ Ask(t) \/ Lapse(t) \/ LapseWrite(t) \/ LapseTell(t) \/ Tell(t)
  \/ Start(t) \/ PollEnds(t) \/ PairTell(t)
  \/ Name(t) \/ CancelPairing(t) \/ Out(t) \/ OutWrite(t)
  \/ ForgetRecords(t) \/ ForgetIn(t) \/ MoveCheck(t)

WaiterStep(w) == Take(w) \/ Look(w) \/ Park(w) \/ Wake(w)

Next ==
  \/ \E t \in Threads : ThreadStep(t) \/ Poll(t) \/ \E op \in Op : Call(t, op)
  \/ \E w \in Waiters : WaiterStep(w) \/ GiveUp(w)
  \/ \E p \in Pairings : Expire(p)
  \/ \E k \in Tokens : Revoke(k)

Spec == Init /\ [][Next]_vars

\* Every goroutine runs on once it can, c.mu is handed to whoever waits for it, and a pairing's
\* time runs out.  Calls, RomM's approval and its revocations need not happen.
Fairness ==
  /\ \A t \in Threads : SF_vars(ThreadStep(t))
  /\ \A w \in Waiters : /\ SF_vars(waiter[w].pc = "take" /\ Take(w))
                        /\ WF_vars(Look(w) \/ Park(w) \/ Wake(w))
  /\ \A p \in Pairings : WF_vars(Expire(p))

FairSpec == Spec /\ Fairness

-----------------------------------------------------------------------------
(* Properties. *)

TypeOK ==
  /\ saved \in SignIn /\ (Active(saved) => saved.token # 0)
  /\ gen \in Nat
  /\ pending \in 0 .. MaxPairings
  /\ ctx \in [Pairings -> {"unused", "live", "cancelled", "expired"}]
  /\ told \in [Pairings -> {"none", "approved", "failed", "denied", "expired"}]
  /\ thr \in [Threads -> Thread]
  /\ waiter \in [Waiters -> Waiter]
  /\ issued \in 0 .. MaxTokens /\ revoked \subseteq Tokens
  /\ faults \in Nat
  /\ saves \in [Tokens -> Nat] /\ lapses \in [Tokens -> Nat]
  /\ over \in {"no", "signedOut", "forgotten"}

\* WaitSignedIn's comment: the channel is "taken before reading the sign-in, so a sign-in saved in
\* between still wakes this wait".  Work asleep while a sign-in is saved is about to be woken.
WakeNotLost ==
  \A w \in Waiters : waiter[w].pc = "asleep" /\ waiter[w].gen = gen /\ Active(saved) =>
                      \E t \in Threads : thr[t].pc = "close"

\* signOut's comment: "a late one for a token that a newer sign-in replaced changes nothing".  A
\* sign-in ends when RomM rejects it, when another one replaces it, or when the user ends it.
EndsForReason ==
  [][\A k \in Tokens : Active(saved) /\ saved.token = k /\ ~(Active(saved') /\ saved'.token = k) =>
       \/ k \in revoked
       \/ Active(saved')
       \/ \E t \in Threads : thr[t].pc \in {"outWrite", "forgetIn"}]_vars

\* "Only the first rejection of a token reports the lapse": once for each time it was saved, and
\* for each time the disk failed to keep that.
LapseOnce == \A k \in Tokens : lapses[k] <= saves[k] + faults

\* The pairings whose goroutine still polls RomM for a sign-in.
Polling == {p \in Pairings : ctx[p] = "live" /\ \E t \in Threads : thr[t].pc = "wait" /\ thr[t].code = p}

\* "Starting another pairing cancels this one": two pairings never both wait for a sign-in.
OnePairing == \A p, q \in Polling : p = q

\* "A late cancel can't stop a newer one that replaced it": a pairing is cancelled only by a newer
\* one, or by a call that read or was given its own code.
NewerPairingKept ==
  [][\A p \in Pairings : ctx[p] = "live" /\ ctx'[p] = "cancelled" =>
       \/ pending' \notin {0, p}
       \/ \E t \in Threads : thr[t].pc = "cancelPairing" /\ thr[t].code = p]_vars

\* Events.Pairing: "A cancelled pairing ends silently."
CancelledSilent == [][\A p \in Pairings : ctx[p] = "cancelled" => told'[p] = told[p]]_vars

\* docs/settings.md: "Downloads, save sync and library refreshes pause until you sign in again."
\* After SignOut only a sign-in the user makes signs the plugin in.
SignOutSticks == over = "signedOut" => ~Active(saved)

\* Forget's comment: it "drops the sign-in", and no server is left.
ForgetSticks == over = "forgotten" => saved.server = NoServer

\* Work paused while signed out goes on once a sign-in stays.
WaitersWake == <>[]Active(saved) =>
                 \A w \in Waiters : (waiter[w].pc = "asleep") ~> (waiter[w].pc # "asleep")

\* Every pairing ends: approved, refused, cancelled or out of time, its goroutine is gone.
PairingEnds ==
  \A p \in Pairings :
    (ctx[p] = "live") ~> ~(\E t \in Threads : thr[t].op = "poll" /\ thr[t].code = p)
=============================================================================
