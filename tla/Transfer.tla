-------------------------------- MODULE Transfer --------------------------------
(***************************************************************************)
(* One game's download: the attempts of downloads.go at listing its files  *)
(* and fetching each into staging, resuming from what is there, over the   *)
(* HTTP client of romm/download.go, while RomM's files change, answers go  *)
(* wrong, the network stalls and the backend stops.                        *)
(*                                                                         *)
(* A file is a sequence of blocks, each known by the version of RomM's     *)
(* files it is of.  A later version has a later modification time.  Where  *)
(* the files go once they are fetched is GameFiles, the queue around it    *)
(* DownloadQueue.  A game RomM converts is fetched the same way.           *)
(***************************************************************************)
EXTENDS Integers, Sequences, FiniteSets, Functions

CONSTANTS
  Size,         \* Size[v][f]: the blocks file f of version v has
  Retries,      \* len(Downloads.retries)
  MaxLapses,    \* bound: requests RomM rejects the token of
  MaxStops      \* bound: stops of the backend

Versions == 1 .. Len(Size)
Assumptions ==
  /\ Size \in Seq(Seq(Nat \ {0})) /\ Size # <<>> /\ Size[1] # <<>>
  /\ \A v \in Versions : Len(Size[v]) = Len(Size[1])
  /\ {Retries, MaxLapses, MaxStops} \subseteq Nat

Files == 1 .. Len(Size[1])
Last == Len(Size[1])

VARIABLES
  romm,       \* the version RomM has
  signedIn,   \* the Connection has a token RomM accepts
  pc,         \* where the attempt is
  listed,     \* the version ROMFiles gave, as PlanLayout planned it
  partial,    \* job.partial, 0 for none
  saved,      \* download_queue: partial as it was last saved
  part,       \* the staging folder
  at,         \* the file the attempt is at
  body,       \* the answer being read: its version and the blocks read
  dogs,       \* the watchdogs: whether the interval passed since data came, and whether an outer
              \* fetchContent's, which no data resets, is running or due
  received,   \* job.Received
  furthest, tries,
  rec,        \* the record of what was placed: its snapshot and its files
  lapses, stops,
  leftover    \* auxiliary: staging could not be emptied

attempt == <<listed, at, body, dogs>>
job == <<partial, received>>
effort == <<furthest, tries>>
bounds == <<lapses, stops>>
vars == <<romm, signedIn, pc, attempt, job, saved, part, effort, rec, bounds, leftover>>

-----------------------------------------------------------------------------
(* Data. *)

NoBody == [of |-> 0, read |-> 0]
Quiet == [inner |-> FALSE, outer |-> "none"]
NoRecord == [of |-> 0, files |-> [f \in Files |-> <<>>]]
Empty == [f \in Files |-> <<>>]

\* The blocks of the files before the one the attempt is at, as the listing has them.
Base == LET s[f \in 0 .. Last] == IF f = 0 THEN 0 ELSE s[f - 1] + Size[listed][f] IN s[at - 1]
\* fetch: what is kept of the file, none when it is longer than the file is now.
From == IF Len(part[at]) > Size[listed][at] THEN 0 ELSE Len(part[at])

Init ==
  /\ romm = 1 /\ signedIn = TRUE
  /\ pc = "wait" /\ listed = 1 /\ at = 1 /\ body = NoBody /\ dogs = Quiet
  /\ partial = 0 /\ saved = 0 /\ received = 0 /\ part = Empty
  /\ furthest = 0 /\ tries = 0
  /\ rec = NoRecord /\ lapses = 0 /\ stops = 0 /\ leftover = FALSE

-----------------------------------------------------------------------------
(* How an attempt ends (Downloads.attempts). *)

\* Variant: any progress in the attempt, and not just progress past the furthest, starts the retries over.
TriedAnew == IF received > 0 THEN 0 ELSE tries
\* The retries used up since an attempt last got further than any before.
Tried == IF received > furthest THEN 0 ELSE tries
\* Downloads.save only logs a write that fails.
SaveJob == saved' \in {saved, partial}
\* An error of the network's: another attempt later, unless every retry is used up.
Interrupted ==
  /\ furthest' = IF received > furthest THEN received ELSE furthest
  /\ IF Tried = Retries
     THEN pc' = "failed" /\ tries' = Tried /\ SaveJob
     ELSE pc' = "pause" /\ tries' = Tried + 1 /\ UNCHANGED saved
  /\ body' = NoBody /\ dogs' = Quiet
\* Any other fails the download, which the queue keeps.
Fails ==
  /\ pc' = "failed" /\ SaveJob
  /\ body' = NoBody /\ dogs' = Quiet /\ UNCHANGED effort
\* A rejected token: the Connection is signed out, and the next attempt waits.
Rejected ==
  /\ lapses < MaxLapses /\ lapses' = lapses + 1
  /\ signedIn' = FALSE /\ pc' = "wait"
  /\ body' = NoBody /\ dogs' = Quiet /\ UNCHANGED <<saved, effort>>

Starts ==
  /\ pc = "wait" /\ signedIn
  /\ pc' = "list" /\ at' = 1
  /\ UNCHANGED <<romm, signedIn, listed, body, dogs, job, saved, part, effort, rec, bounds, leftover>>
Waits ==
  /\ pc = "pause" /\ pc' = "wait"
  /\ UNCHANGED <<romm, signedIn, attempt, job, saved, part, effort, rec, bounds, leftover>>

\* A request that gets no answer, one RomM rejects, or one it refuses.
AskFails(step) ==
  /\ pc = step
  /\ \/ Interrupted /\ UNCHANGED <<signedIn, lapses>>
     \/ Rejected
     \/ Fails /\ UNCHANGED <<signedIn, lapses>>
  /\ UNCHANGED <<romm, listed, at, job, part, rec, stops, leftover>>

-----------------------------------------------------------------------------
(* The listing (Downloads.download). *)

\* samePartial.  Variant: whatever is staged is of the files listed.
AnyPartial(v) == partial # 0
SamePartial(v) == partial = v

Lists ==
  /\ pc = "list"
  /\ listed' = romm /\ partial' = romm
  /\ pc' = IF SamePartial(romm) THEN "file" ELSE "clear"
  /\ UNCHANGED <<romm, signedIn, at, body, dogs, received, saved, part, effort, rec, bounds, leftover>>
\* What staging holds is of files RomM no longer has.
Clears ==
  /\ pc = "clear" /\ pc' = "save"
  /\ part' = Empty
  /\ UNCHANGED <<romm, signedIn, attempt, job, saved, effort, rec, bounds, leftover>>
\* os.RemoveAll fails, having removed some.
ClearFails ==
  /\ pc = "clear" /\ Fails
  /\ \E gone \in SUBSET Files : part' = [f \in Files |-> IF f \in gone THEN <<>> ELSE part[f]]
  /\ leftover' = TRUE
  /\ UNCHANGED <<romm, signedIn, listed, at, job, rec, bounds>>
Saves ==
  /\ pc = "save" /\ pc' = "file" /\ SaveJob
  /\ UNCHANGED <<romm, signedIn, attempt, job, part, effort, rec, bounds, leftover>>

-----------------------------------------------------------------------------
(* Each file (Downloads.fetch, Client.fetchContent). *)

\* open truncates what is kept to where the answer starts.
Opens(start) ==
  part' = [part EXCEPT ![at] = SubSeq(@, 1, start)] /\ received' = Base + start
\* On to the next file, or to placing them.
NextFile == IF at = Last THEN pc' = "place" /\ UNCHANGED at ELSE pc' = "file" /\ at' = at + 1

\* An earlier attempt received every block.
HasFile ==
  /\ pc = "file" /\ From = Size[listed][at]
  /\ Opens(From) /\ NextFile
  /\ UNCHANGED <<romm, signedIn, listed, body, dogs, partial, saved, effort, rec, bounds, leftover>>
Fetches ==
  /\ pc = "file" /\ From # Size[listed][at]
  /\ pc' = "ask"
  /\ UNCHANGED <<romm, signedIn, attempt, job, saved, part, effort, rec, bounds, leftover>>

\* 206, from where what is kept ends; a range that starts elsewhere counts as an interruption.
Resumes ==
  /\ pc = "ask" /\ From > 0 /\ From < Size[romm][at]
  /\ Opens(From) /\ body' = [of |-> romm, read |-> From] /\ pc' = "read"
  /\ UNCHANGED <<romm, signedIn, listed, at, dogs, partial, saved, effort, rec, bounds, leftover>>
\* 200, the whole file, whatever was asked for.
Restarts ==
  /\ pc \in {"ask", "askwhole"}
  /\ Opens(0) /\ body' = [of |-> romm, read |-> 0] /\ pc' = "read"
  /\ UNCHANGED <<romm, signedIn, listed, at, dogs, partial, saved, effort, rec, bounds, leftover>>
\* 416: what is kept is not of the file RomM has, which is asked for whole under the same watchdog.
Refused ==
  /\ pc = "ask" /\ From > 0 /\ From >= Size[romm][at]
  /\ pc' = "askwhole" /\ dogs' = [dogs EXCEPT !.outer = "running"]
  /\ UNCHANGED <<romm, signedIn, listed, at, body, job, saved, part, effort, rec, bounds, leftover>>

\* resetReader: data pushes the watchdog of the answer it is of back.
Reads ==
  /\ pc = "read" /\ body.read < Size[body.of][at]
  /\ part' = [part EXCEPT ![at] = Append(@, body.of)]
  /\ body' = [body EXCEPT !.read = @ + 1]
  /\ received' = received + 1
  /\ dogs' = [dogs EXCEPT !.inner = FALSE]
  /\ UNCHANGED <<romm, signedIn, pc, listed, at, partial, saved, effort, rec, bounds, leftover>>
\* The file ends: of the wrong size when it is not the one listed.
ReadsAll ==
  /\ pc = "read" /\ body.read = Size[body.of][at]
  /\ IF Len(part[at]) = Size[listed][at]
     THEN /\ NextFile /\ body' = NoBody /\ dogs' = Quiet
          /\ UNCHANGED <<saved, effort>>
     ELSE Interrupted /\ UNCHANGED at
  /\ UNCHANGED <<romm, signedIn, listed, job, part, rec, bounds, leftover>>
\* The network drops the answer.
Drops ==
  /\ pc = "read" /\ Interrupted
  /\ UNCHANGED <<romm, signedIn, listed, at, job, part, rec, bounds, leftover>>
\* stallTimeout passes, for each watchdog once before it is due.
Tick ==
  /\ pc \in {"read", "askwhole"} /\ ~dogs.inner
  /\ dogs' = [inner |-> TRUE, outer |-> IF dogs.outer = "running" THEN "due" ELSE dogs.outer]
  /\ UNCHANGED <<romm, signedIn, pc, listed, at, body, job, saved, part, effort, rec, bounds, leftover>>
Stalls ==
  /\ pc \in {"read", "askwhole"} /\ (dogs.inner \/ dogs.outer = "due")
  /\ Interrupted
  /\ UNCHANGED <<romm, signedIn, listed, at, job, part, rec, bounds, leftover>>

\* Every file is there: place or swap, and SaveOwned.
Places ==
  /\ pc = "place" /\ pc' = "done"
  /\ rec' = [of |-> listed, files |-> part]
  /\ part' = Empty /\ partial' = 0 /\ saved' = 0
  /\ UNCHANGED <<romm, signedIn, attempt, received, effort, bounds, leftover>>

-----------------------------------------------------------------------------
(* RomM, the user, and stops. *)

RommChanges ==
  /\ romm < Len(Size) /\ romm' = romm + 1
  /\ UNCHANGED <<signedIn, pc, attempt, job, saved, part, effort, rec, bounds, leftover>>
SignIn ==
  /\ ~signedIn /\ signedIn' = TRUE
  /\ UNCHANGED <<romm, pc, attempt, job, saved, part, effort, rec, bounds, leftover>>
\* The user retries a download that failed.
UserRetries ==
  /\ pc = "failed" /\ stops < MaxStops /\ stops' = stops + 1
  /\ pc' = "wait" /\ furthest' = 0 /\ tries' = 0
  /\ UNCHANGED <<romm, signedIn, attempt, job, saved, part, rec, lapses, leftover>>
\* The backend stops, and starts again with the queue as it was saved.
Stop ==
  /\ stops < MaxStops /\ stops' = stops + 1 /\ pc \notin {"done", "failed"}
  /\ pc' = "wait" /\ partial' = saved /\ received' = 0
  /\ listed' = 1 /\ at' = 1 /\ body' = NoBody /\ dogs' = Quiet /\ furthest' = 0 /\ tries' = 0
  /\ UNCHANGED <<romm, signedIn, saved, part, rec, lapses, leftover>>

Work ==
  \/ Starts \/ Waits \/ Lists \/ AskFails("list") \/ Clears \/ ClearFails \/ Saves
  \/ HasFile \/ Fetches \/ Resumes \/ Restarts \/ Refused \/ AskFails("ask") \/ AskFails("askwhole")
  \/ Reads \/ ReadsAll \/ Drops \/ Stalls \/ Places
Next == Work \/ Tick \/ RommChanges \/ SignIn \/ UserRetries \/ Stop
Spec == Init /\ [][Next]_vars

\* The attempt runs on; a read that gets nothing is ended by the watchdog.  The user signs in again.
FairSpec == Spec /\ WF_vars(Work) /\ WF_vars(SignIn)

-----------------------------------------------------------------------------
(* Properties. *)

\* The variables hold values of their types.
TypeOK ==
  /\ romm \in Versions /\ {signedIn, leftover} \subseteq BOOLEAN
  /\ pc \in {"wait", "list", "clear", "save", "file", "ask", "askwhole", "read", "place", "pause", "done", "failed"}
  /\ listed \in Versions /\ {partial, saved} \subseteq Versions \cup {0} /\ at \in Files
  /\ part \in [Files -> Seq(Versions)]
  /\ body \in [of : Versions \cup {0}, read : Nat]
  /\ dogs \in [inner : BOOLEAN, outer : {"none", "running", "due"}]
  /\ {received, furthest, lapses, stops} \subseteq Nat /\ tries \in 0 .. Retries
  /\ rec \in [of : Versions \cup {0}, files : [Files -> Seq(Versions)]]

\* Blocks of two versions are never taken for the game RomM has: what is placed is whole and of the
\* version its snapshot names, or RomM has another by then, which CheckUpdates offers as an update.
\* It rests on samePartial over every attempt, retry and restart (downloads.go download, fetch).
WholeOrOffered ==
  leftover \/ rec = NoRecord \/ romm # rec.of
    \/ \A f \in Files : rec.files[f] = [i \in 1 .. Size[rec.of][f] |-> rec.of]

\* A download ends, placed or failed, whatever RomM and the network answer: each retry is paid for by
\* progress further than any before (downloads.go attempts).
Over == pc \in {"done", "failed"}
Ends == ~Over ~> Over

\* "What staging holds, if anything, is of files the Server no longer has" (downloads.go:695), and is
\* dropped before the game downloads.
WholeAlways ==
  rec # NoRecord /\ romm = rec.of => \A f \in Files : Range(rec.files[f]) = {rec.of}

\* "stallTimeout is how long a download may go without receiving a byte before it counts as dropped"
\* (romm/download.go:19): the client ends a download only when none came for that long.
NoByteCame == dogs.inner = TRUE
NotShortened == Stalls => NoByteCame
StalledWhenQuiet == [][NotShortened]_vars
=============================================================================
