---------------------------------- MODULE Bios ----------------------------------
(***************************************************************************)
(* BIOS files (bios.go): a platform's missing firmware, looked for and     *)
(* downloaded by the user's call or by the first game of it queued, and    *)
(* the records of what was placed, next to the user's own files of the     *)
(* same names and to other platforms', which share one folder.             *)
(*                                                                         *)
(* A record fits when the file under its path is still the one it was made *)
(* of: in the code, has its size and modification time.                    *)
(***************************************************************************)
EXTENDS Naturals, FiniteSets

CONSTANTS
  Firmware,     \* the firmware files RomM has
  Platform,     \* Platform[f]: whose it is
  Name,         \* Name[f]: where it goes in the BIOS folder
  Calls,        \* Download calls and queued games' lookups
  MaxMoves      \* bound: calls, the user's doings and restarts, together

Platforms == {Platform[f] : f \in Firmware}
Names == {Name[f] : f \in Firmware}
Of(p) == {f \in Firmware : Platform[f] = p}
None == "none"
Assumptions == Firmware \cap {None, "user"} = {} /\ None \notin Platforms /\ MaxMoves \in Nat

VARIABLES
  disk,       \* the BIOS folder: under each name the firmware placed, the user's file, or None
  rec,        \* owned_bios: of each firmware, None, or whether its record "fits" or is of a file "gone"
  busy,       \* the platforms whose BIOS files are downloading
  checked,    \* the platforms a queued game has looked for
  call,       \* each call: what it is at, for which platform, the records it read and those of them
              \* that fit, the files it still has to fetch, the one it is at, and whether the file it
              \* looked at after placing it is still there
  moves

vars == <<disk, rec, busy, checked, call, moves>>

Idle == [at |-> "idle", platform |-> None, auto |-> FALSE, read |-> {}, fit |-> {},
         missing |-> {}, file |-> None, there |-> FALSE]

Init ==
  /\ disk \in [Names -> {None, "user"}] /\ rec = [f \in Firmware |-> None]
  /\ busy = {} /\ checked = {}
  /\ call = [c \in Calls |-> Idle] /\ moves = 0

Move == moves < MaxMoves /\ moves' = moves + 1
At(c, at) == call[c].at = at
Goes(c, state) == call' = [call EXCEPT ![c] = state]

\* Another file under name n, or none: what was recorded, read or seen of the one before is no longer so.
Gone(n) == [f \in Firmware |-> IF Name[f] = n /\ rec[f] # None THEN "gone" ELSE rec[f]]
Unseen(n) ==
  [c \in Calls |-> [call[c] EXCEPT !.fit = {f \in @ : Name[f] # n},
                                   !.there = IF @ THEN Name[call[c].file] # n ELSE FALSE]]

-----------------------------------------------------------------------------
(* What is missing (Download, GameQueued, Status). *)

Download(c, p) ==
  /\ At(c, "idle") /\ Move
  /\ Goes(c, [Idle EXCEPT !.at = "status", !.platform = p])
  /\ UNCHANGED <<disk, rec, busy, checked>>
\* Only the first game of a platform looks.
GameQueued(c, p) ==
  /\ At(c, "idle") /\ p \notin checked /\ Move
  /\ checked' = checked \cup {p}
  /\ Goes(c, [Idle EXCEPT !.at = "status", !.platform = p, !.auto = TRUE])
  /\ UNCHANGED <<disk, rec, busy>>
\* RomM doesn't answer: the next game queued looks again.
StatusFails(c) ==
  /\ At(c, "status") /\ Goes(c, Idle)
  /\ checked' = IF call[c].auto THEN checked \ {call[c].platform} ELSE checked
  /\ UNCHANGED <<disk, rec, busy, moves>>
\* The sign-in may not read firmware: no other game of the platform looks.
NotAllowed(c) ==
  /\ At(c, "status") /\ call[c].auto /\ Goes(c, Idle)
  /\ UNCHANGED <<disk, rec, busy, checked, moves>>
\* RomM's list, and the platform's records.
ReadsRecords(c) ==
  /\ At(c, "status")
  /\ LET read == {f \in Of(call[c].platform) : rec[f] # None}
     IN Goes(c, [call[c] EXCEPT !.at = "look", !.read = read, !.fit = {f \in read : rec[f] = "fits"}])
  /\ UNCHANGED <<disk, rec, busy, checked, moves>>
\* The records read that don't fit: each is dropped, by the firmware's id.
Misfits(c) == call[c].read \ call[c].fit
\* Nothing is where it goes: what is there is RomM's file or differs from it, and stays either way.
Missing(p) == {f \in Of(p) : disk[Name[f]] = None}
Looks(c) ==
  /\ At(c, "look")
  /\ rec' = [f \in Firmware |-> IF f \in Misfits(c) THEN None ELSE rec[f]]
  /\ LET missing == Missing(call[c].platform)
     IN Goes(c, IF missing = {} THEN Idle
                ELSE [call[c] EXCEPT !.at = "start", !.missing = missing, !.read = {}, !.fit = {}])
  /\ UNCHANGED <<disk, busy, checked, moves>>

-----------------------------------------------------------------------------
(* The download (start, fetchAll, fetch). *)

\* Whether a platform's files are downloading already.  Variant: start doesn't look.
NeverBusy(p) == FALSE
Busy(p) == p \in busy
Starts(c) ==
  /\ At(c, "start")
  /\ IF Busy(call[c].platform) THEN Goes(c, Idle) ELSE Goes(c, [call[c] EXCEPT !.at = "begin"])
  /\ busy' = busy \cup {call[c].platform}
  /\ UNCHANGED <<disk, rec, checked, moves>>
\* fetchAll reads the sign-in; Signed out, it ends.
Begins(c) ==
  /\ At(c, "begin")
  /\ \/ Goes(c, [call[c] EXCEPT !.at = "next"]) /\ UNCHANGED busy
     \/ Goes(c, Idle) /\ busy' = busy \ {call[c].platform}
  /\ UNCHANGED <<disk, rec, checked, moves>>
NextFile(c) ==
  /\ At(c, "next")
  /\ \/ \E f \in call[c].missing :
          /\ Goes(c, [call[c] EXCEPT !.at = "get", !.file = f, !.missing = @ \ {f}])
          /\ UNCHANGED busy
     \/ /\ call[c].missing = {}
        /\ Goes(c, Idle) /\ busy' = busy \ {call[c].platform}
  /\ UNCHANGED <<disk, rec, checked, moves>>
\* RomM's answer in staging is the firmware listed; otherwise it, or a folder in its way, fails the file.
Gets(c) ==
  /\ At(c, "get") /\ Goes(c, [call[c] EXCEPT !.at = "check"])
  /\ UNCHANGED <<disk, rec, busy, checked, moves>>
FileFails(c) ==
  /\ call[c].at \in {"get", "move"} /\ Goes(c, [call[c] EXCEPT !.at = "next", !.file = None])
  /\ UNCHANGED <<disk, rec, busy, checked, moves>>
\* checkFree.
Checks(c) ==
  /\ At(c, "check")
  /\ Goes(c, IF disk[Name[call[c].file]] = None THEN [call[c] EXCEPT !.at = "move"]
             ELSE [call[c] EXCEPT !.at = "next", !.file = None])
  /\ UNCHANGED <<disk, rec, busy, checked, moves>>
\* moveFile, over whatever is there by now.
MovesFile(c) ==
  /\ At(c, "move")
  /\ LET f == call[c].file IN
       /\ disk' = [disk EXCEPT ![Name[f]] = f] /\ rec' = Gone(Name[f])
       /\ call' = [Unseen(Name[f]) EXCEPT ![c].at = "stat"]
  /\ UNCHANGED <<busy, checked, moves>>
\* os.Stat, of whatever is there by now.
Stats(c) ==
  /\ At(c, "stat")
  /\ Goes(c, IF disk[Name[call[c].file]] = None THEN [call[c] EXCEPT !.at = "next", !.file = None]
             ELSE [call[c] EXCEPT !.at = "record", !.there = TRUE])
  /\ UNCHANGED <<disk, rec, busy, checked, moves>>
\* SaveOwnedBIOS replaces any record of the same firmware or path.
Records(c) ==
  /\ At(c, "record")
  /\ LET f == call[c].file IN
       rec' = [g \in Firmware |-> CASE g = f -> IF call[c].there THEN "fits" ELSE "gone"
                                    [] g # f /\ Name[g] = Name[f] -> None
                                    [] OTHER -> rec[g]]
  /\ Goes(c, [call[c] EXCEPT !.at = "next", !.file = None, !.there = FALSE])
  /\ UNCHANGED <<disk, busy, checked, moves>>
\* It fails: what is there by now is removed.
RecordFails(c) ==
  /\ At(c, "record") /\ Move
  /\ LET n == Name[call[c].file] IN
       /\ disk' = [disk EXCEPT ![n] = None] /\ rec' = Gone(n)
       /\ call' = [Unseen(n) EXCEPT ![c].at = "next", ![c].file = None]
  /\ UNCHANGED <<busy, checked>>

-----------------------------------------------------------------------------
(* The user, and restarts. *)

UserPuts(n, to) ==
  /\ Move /\ disk[n] # to
  /\ disk' = [disk EXCEPT ![n] = to] /\ rec' = Gone(n) /\ call' = Unseen(n)
  /\ UNCHANGED <<busy, checked>>
Restart ==
  /\ Move /\ busy' = {} /\ checked' = {} /\ call' = [c \in Calls |-> Idle]
  /\ UNCHANGED <<disk, rec>>

Working(c) ==
  \/ StatusFails(c) \/ NotAllowed(c) \/ ReadsRecords(c) \/ Looks(c)
  \/ Starts(c) \/ Begins(c) \/ NextFile(c) \/ Gets(c) \/ FileFails(c) \/ Checks(c) \/ MovesFile(c)
  \/ Stats(c) \/ Records(c) \/ RecordFails(c)
Next ==
  \/ \E c \in Calls : Working(c)
  \/ \E c \in Calls, p \in Platforms : Download(c, p) \/ GameQueued(c, p)
  \/ \E n \in Names, to \in {None, "user"} : UserPuts(n, to)
  \/ Restart
Spec == Init /\ [][Next]_vars

-----------------------------------------------------------------------------
(* Properties. *)

\* Each name holds RomM's file of that name or the user's, and each call is at one step of one platform.
TypeOK ==
  /\ disk \in [Names -> Firmware \cup {None, "user"}]
  /\ \A n \in Names : disk[n] \in Firmware => Name[disk[n]] = n
  /\ rec \in [Firmware -> {None, "fits", "gone"}]
  /\ busy \subseteq Platforms /\ checked \subseteq Platforms
  /\ call \in [Calls -> [at : {"idle", "status", "look", "start", "begin", "next", "get", "check", "move",
                               "stat", "record"},
                         platform : Platforms \cup {None}, auto : BOOLEAN,
                         read : SUBSET Firmware, fit : SUBSET Firmware, missing : SUBSET Firmware,
                         file : Firmware \cup {None}, there : BOOLEAN]]
  /\ moves \in 0..MaxMoves

\* What a call's move lands on.
Under(c) == disk[Name[call[c].file]]

\* The downloads of a platform's files never replace one another's: between a download's look at where a
\* file goes and its move there, no other of that platform's places one (bios.go start, checkFree).
PlacesApart ==
  \A c \in Calls : MovesFile(c) /\ Under(c) \in Firmware => Platform[Under(c)] # call[c].platform
PlacedOnce == [][PlacesApart]_vars

\* "Files already in the BIOS folder stay as they are, whatever they hold" (bios.go:214): nor is another
\* platform's replaced, whose folder it is too.
LeavesAlone == \A c \in Calls : MovesFile(c) => Under(c) \notin Firmware
StayAsTheyAre == [][LeavesAlone]_vars

\* "A record of a file the plugin placed that has since gone or changed is dropped" (bios.go:148), and no
\* other.
KeepsFitting == \A c \in Calls : Looks(c) => \A f \in Firmware : rec[f] = "fits" => rec'[f] = "fits"
OnlyGoneDropped == [][KeepsFitting]_vars
=============================================================================
