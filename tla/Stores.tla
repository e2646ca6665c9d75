--------------------------------- MODULE Stores ---------------------------------
(***************************************************************************)
(* The plugin's own files: state.db, its backups and what a restore sets   *)
(* aside (state/store.go), through plugin upgrades and downgrades; and     *)
(* settings.json beside the token file (settings/store.go), whose sign-in  *)
(* takes two writes.  The backend may be killed before each step, and a    *)
(* write may fail.                                                         *)
(*                                                                         *)
(* A database is its schema and a stamp of what was last written to it.    *)
(***************************************************************************)
EXTENDS Naturals, FiniteSets

CONSTANTS
  Schemas,      \* the schemas plugin versions know, numbers from 1
  keepBackups,  \* how many backups are kept
  Servers, Tokens,
  MaxMoves      \* bound: writes, installs, stops, failures and commands, together

None == "none"
Assumptions ==
  /\ IsFiniteSet(Schemas) /\ Schemas = 1 .. Cardinality(Schemas)
  /\ keepBackups \in Nat \ {0} /\ None \notin Servers \cup Tokens /\ "out" \notin Tokens
  /\ MaxMoves \in Nat

VARIABLES
  knows,     \* the schema the installed binary writes
  pc,        \* the backend: "off"; opening state.db: "open", "remove", "copy", "prune", "migrate";
             \* running: "on", "refused" (newer data), "broken"; restoring: "read", "write"
  from,      \* the schema a start migrates from; the one a restore copies
  db, bak, aside, \* state.db, its backups and the files set aside, by schema: Absent, or
             \* [at, schema, data], at being "whole", "partial" or "empty"
  last,      \* what the plugin last wrote in state.db
  settings,  \* settings.json's [server, out]
  token,     \* the token file, or None
  op,        \* the change of the sign-in under way: Still, or its next step, the sign-in it
             \* writes, and what SignIn gave before it and gives after it
  cut,       \* auxiliary: a start was ended in its backup, a restore half-way, or
             \* a reset left backups of the state.db it removed
  moves

vars == <<knows, pc, from, db, bak, aside, last, settings, token, op, cut, moves>>
files == <<db, bak, aside>>
signIn == <<settings, token, op>>

Absent == [at |-> "absent", schema |-> 0, data |-> 0]
Whole(f) == f.at = "whole"
NoServer == [server |-> None, out |-> FALSE]
NoSignIn == [server |-> None, token |-> None]
Nothing == [server |-> None, token |-> None, out |-> FALSE]
Still == [next |-> None, writes |-> Nothing, was |-> NoSignIn, will |-> NoSignIn]

Init ==
  /\ knows \in Schemas /\ pc = "off" /\ from = 0
  /\ db = Absent /\ bak = [s \in Schemas |-> Absent] /\ aside = [s \in Schemas |-> Absent]
  /\ last = 0
  /\ settings = NoServer /\ token = None /\ op = Still
  /\ cut = FALSE /\ moves = 0

Move == moves < MaxMoves /\ moves' = moves + 1

-----------------------------------------------------------------------------
(* Opening state.db (Open, migrate, backup). *)

Start ==
  /\ pc = "off" /\ op = Still /\ pc' = "open"
  /\ UNCHANGED <<knows, from, files, last, signIn, cut, moves>>
\* A new file, or one RestoreBackup left empty, has schema 0 and nothing to back up.
Opens ==
  /\ pc = "open"
  /\ LET version == IF Whole(db) THEN db.schema ELSE 0
     IN /\ pc' = IF db.at = "partial" THEN "broken"
                 ELSE CASE version > knows -> "refused"
                        [] version = knows -> "on"
                        [] version = 0 -> "migrate"
                        [] OTHER -> "remove"
        /\ from' = IF version < knows THEN version ELSE 0
        /\ db' = IF db.at \in {"absent", "empty"} THEN [at |-> "whole", schema |-> 0, data |-> 0] ELSE db
  /\ UNCHANGED <<knows, bak, aside, last, signIn, cut, moves>>
\* backup removes an earlier copy of the same schema first.  Variant: it keeps it.
KeepsBackup ==
  /\ pc = "remove" /\ pc' = IF bak[from] = Absent THEN "copy" ELSE "prune"
  /\ UNCHANGED <<knows, from, files, last, signIn, cut, moves>>
RemovesBackup ==
  /\ pc = "remove" /\ pc' = "copy" /\ bak' = [bak EXCEPT ![from] = Absent]
  /\ UNCHANGED <<knows, from, db, aside, last, signIn, cut, moves>>
\* VACUUM INTO writes the file from its start.
Copies ==
  /\ pc = "copy"
  /\ bak' = [bak EXCEPT ![from] = IF @ = Absent THEN [db EXCEPT !.at = "partial"] ELSE db]
  /\ pc' = IF bak[from] = Absent THEN "copy" ELSE "prune"
  /\ UNCHANGED <<knows, from, db, aside, last, signIn, cut, moves>>
Backups == {s \in Schemas : bak[s] # Absent}
\* All but the newest keepBackups, by schema.
Out(s) == s \in Backups /\ Cardinality({t \in Backups : t > s}) >= keepBackups
Prunes ==
  /\ pc = "prune" /\ pc' = "migrate"
  /\ bak' = [s \in Schemas |-> IF Out(s) THEN Absent ELSE bak[s]]
  /\ UNCHANGED <<knows, from, db, aside, last, signIn, cut, moves>>
\* migrations[i] takes the schema from i to i + 1, and keeps what the records hold.
Migrated(f) == [f EXCEPT !.schema = @ + 1]
\* One of them: its statements and user_version in one transaction.
Migrates ==
  /\ pc = "migrate" /\ db' = Migrated(db)
  /\ pc' = IF db.schema + 1 = knows THEN "on" ELSE "migrate"
  /\ from' = IF db.schema + 1 = knows THEN 0 ELSE from
  /\ UNCHANGED <<knows, bak, aside, last, signIn, cut, moves>>
\* Any of it may fail; the backend runs on without its records.
OpenFails ==
  /\ pc \in {"remove", "copy", "prune", "migrate"} /\ Move /\ pc' = "broken" /\ from' = 0
  /\ cut' = (cut \/ pc \in {"copy", "prune"})
  /\ UNCHANGED <<knows, files, last, signIn>>

Writes ==
  /\ pc = "on" /\ Move /\ last' = last + 1 /\ db' = [db EXCEPT !.data = last + 1]
  /\ UNCHANGED <<knows, pc, from, bak, aside, signIn, cut>>

-----------------------------------------------------------------------------
(* Going back to a backup (RestoreBackup), which only a refused file offers. *)

\* The backups this binary reads: the newest schema of them is restored.
Readable == {s \in Backups : s <= knows}
SetsAside ==
  /\ pc = "refused" /\ Readable # {} /\ Move
  /\ from' = CHOOSE s \in Readable : \A t \in Readable : t <= s
  /\ pc' = "read"
  /\ db' = Absent /\ aside' = IF Whole(db) THEN [aside EXCEPT ![db.schema] = db] ELSE aside
  /\ UNCHANGED <<knows, bak, last, signIn, cut>>
\* os.WriteFile creates the file and writes it; then the frontend restarts the backend.
ReadsBackup ==
  /\ pc = "read" /\ pc' = "write" /\ db' = [at |-> "empty", schema |-> 0, data |-> 0]
  /\ UNCHANGED <<knows, from, bak, aside, last, signIn, cut, moves>>
WritesPart ==
  /\ pc = "write" /\ db.at = "empty" /\ db' = [bak[from] EXCEPT !.at = "partial"]
  /\ UNCHANGED <<knows, pc, from, bak, aside, last, signIn, cut, moves>>
WritesRest ==
  /\ pc = "write" /\ db.at = "partial" /\ db' = bak[from]
  /\ pc' = "off" /\ from' = 0
  /\ UNCHANGED <<knows, bak, aside, last, signIn, cut, moves>>
\* It fails; the user may ask again.
RestoreFails ==
  /\ pc \in {"read", "write"} /\ Move /\ pc' = "refused" /\ from' = 0 /\ cut' = TRUE
  /\ UNCHANGED <<knows, files, last, signIn>>

-----------------------------------------------------------------------------
(* The sign-in: what SignIn reads, and the changes of it, one file at a time. *)

\* Signed out, the token is of no matter: no work uses it.
SignIn(s, t) ==
  IF s.server = None \/ (t = None /\ ~s.out) THEN NoSignIn
  ELSE [server |-> s.server, token |-> IF s.out THEN "out" ELSE t]
Saved == SignIn(settings, token)

Runs == pc \in {"on", "refused", "broken"}
Begins(next, writes, will) ==
  /\ Runs /\ op = Still /\ Move
  /\ op' = [next |-> next, writes |-> writes, was |-> Saved, will |-> will]
  /\ UNCHANGED <<knows, pc, from, files, last, settings, token, cut>>

\* A sign-in, or the same one at a server's new address.
\* Which file SaveSignIn writes first.  Variant: settings.json.
SettingsFirst == "settings"
First == "token"
SaveSignIn(server, t) ==
  Begins(First, [server |-> server, token |-> t, out |-> FALSE], [server |-> server, token |-> t])
\* signOut, on a rejected token, saves it back.
Lapse ==
  /\ Saved # NoSignIn /\ Saved.token # "out"
  /\ Begins(First, [server |-> settings.server, token |-> token, out |-> TRUE],
            [server |-> settings.server, token |-> "out"])
SignOut ==
  /\ settings.server # None
  /\ Begins("mark", Nothing, [server |-> settings.server, token |-> "out"])
ForgetSignIn == Begins("drop", Nothing, NoSignIn)

Ends == op' = Still
WritesToken ==
  /\ op.next = "token" /\ token' = op.writes.token
  /\ IF First = "token" THEN op' = [op EXCEPT !.next = "settings"] ELSE Ends
  /\ UNCHANGED <<knows, pc, from, files, last, settings, cut, moves>>
WritesSettings ==
  /\ op.next = "settings" /\ settings' = [server |-> op.writes.server, out |-> op.writes.out]
  /\ IF First = "settings" THEN op' = [op EXCEPT !.next = "token"] ELSE Ends
  /\ UNCHANGED <<knows, pc, from, files, last, token, cut, moves>>
Marks ==
  /\ op.next = "mark" /\ settings' = [settings EXCEPT !.out = TRUE] /\ op' = [op EXCEPT !.next = "remove"]
  /\ UNCHANGED <<knows, pc, from, files, last, token, cut, moves>>
Drops ==
  /\ op.next = "drop" /\ settings' = NoServer /\ op' = [op EXCEPT !.next = "remove"]
  /\ UNCHANGED <<knows, pc, from, files, last, token, cut, moves>>
RemovesToken ==
  /\ op.next = "remove" /\ token' = None /\ Ends
  /\ UNCHANGED <<knows, pc, from, files, last, settings, cut, moves>>
WriteFails ==
  /\ op # Still /\ Move /\ Ends
  /\ UNCHANGED <<knows, pc, from, files, last, settings, token, cut>>

-----------------------------------------------------------------------------
(* Stops, other versions of the plugin, and the binary's commands. *)

\* The backend ends, asked to or not.
Stops ==
  /\ pc # "off" /\ Move /\ pc' = "off" /\ from' = 0 /\ op' = Still
  /\ cut' = (cut \/ pc \in {"copy", "prune", "read", "write"})
  /\ UNCHANGED <<knows, files, last, settings, token>>
Installs(k) ==
  /\ pc = "off" /\ op = Still /\ k # knows /\ Move /\ knows' = k
  /\ UNCHANGED <<pc, from, files, last, signIn, cut>>
\* uninstall, which the backend is stopped for.
Uninstall ==
  /\ pc = "off" /\ settings.server # None /\ op = Still /\ Move
  /\ op' = [next |-> "mark", writes |-> Nothing, was |-> Saved,
            will |-> [server |-> settings.server, token |-> "out"]]
  /\ UNCHANGED <<knows, pc, from, files, last, settings, token, cut>>
\* reset deletes every state.db*, as far as it can, and then both settings files.
Reset ==
  /\ pc = "off" /\ op = Still /\ Move
  /\ \E kept \in SUBSET {"db", "bak", "aside"} :
       /\ db' = IF "db" \in kept THEN db ELSE Absent
       /\ bak' = IF "bak" \in kept THEN bak ELSE [s \in Schemas |-> Absent]
       /\ aside' = IF "aside" \in kept THEN aside ELSE [s \in Schemas |-> Absent]
       /\ last' = IF "db" \in kept /\ Whole(db) /\ db.data = last THEN last ELSE 0
       /\ cut' = (cut \/ kept \cap {"db", "bak"} = {"bak"})
  /\ op' = [next |-> "drop", writes |-> Nothing, was |-> Saved, will |-> NoSignIn]
  /\ UNCHANGED <<knows, pc, from, settings, token>>

Database ==
  \/ Start \/ Opens \/ RemovesBackup \/ Copies \/ Prunes \/ Migrates \/ OpenFails \/ Writes
  \/ SetsAside \/ ReadsBackup \/ WritesPart \/ WritesRest \/ RestoreFails
Settings ==
  \/ \E server \in Servers, t \in Tokens : SaveSignIn(server, t)
  \/ Lapse \/ SignOut \/ ForgetSignIn
  \/ WritesToken \/ WritesSettings \/ Marks \/ Drops \/ RemovesToken \/ WriteFails
Next == Database \/ Settings \/ Stops \/ Uninstall \/ Reset \/ \E k \in Schemas : Installs(k)
Spec == Init /\ [][Next]_vars

-----------------------------------------------------------------------------
(* Properties. *)

\* A backup is of the schema it is named after, as is what a restore sets aside.
TypeOK ==
  /\ knows \in Schemas /\ from \in {0} \cup Schemas /\ last \in 0..MaxMoves /\ cut \in BOOLEAN
  /\ pc \in {"off", "open", "remove", "copy", "prune", "migrate", "on", "refused", "broken", "read", "write"}
  /\ db \in [at : {"absent", "whole", "partial", "empty"}, schema : {0} \cup Schemas, data : 0..MaxMoves]
  /\ \A s \in Schemas :
       /\ bak[s] \in {Absent} \cup [at : {"whole", "partial"}, schema : {s}, data : 0..MaxMoves]
       /\ aside[s] \in {Absent} \cup [at : {"whole"}, schema : {s}, data : 0..MaxMoves]
  /\ settings \in [server : Servers \cup {None}, out : BOOLEAN] /\ token \in Tokens \cup {None}
  /\ op.next \in {None, "token", "settings", "mark", "drop", "remove"}
  /\ moves \in 0..MaxMoves

\* A migration begins with a whole copy of what it changes among the backups kept, whatever starts,
\* and restores went before it, unless a start was ended in its backup, or a restore
\* or a reset half-way (state/store.go backup; what is pruned is chosen by schema, not by age).
BackedUp ==
  pc = "migrate" /\ db.schema = from /\ from > 0 /\ ~cut =>
    Whole(bak[from]) /\ bak[from].data = db.data
\* "backing itself up as state.db.bak-<version> first" (DEVELOPMENT.md:74).
BackedUpAlways ==
  pc = "migrate" /\ db.schema = from /\ from > 0 => Whole(bak[from]) /\ bak[from].data = db.data

\* A sign-in, lapse, Sign out, Forget, uninstall or reset that ends between its two files leaves the
\* sign-in from before it or the one after it, unless it replaces the sign-in of another server
\* (settings/store.go SaveSignIn, SignOut, ForgetSignIn, Reset).
BeforeOrAfter ==
  op # Still /\ Saved \notin {op.was, op.will} =>
    op.writes # Nothing /\ op.was # NoSignIn /\ op.was.server # op.writes.server
\* "SaveSignIn replaces the saved sign-in" (settings/store.go:299).
SignInWhole == op # Still => Saved \in {op.was, op.will}

\* "The file it replaces ... is kept beside it ... for a later update to pick up by hand"
\* (state/store.go:305): what was written last is in state.db or beside it, even where nothing was cut short.
LastKept ==
  ~cut => \/ last = 0 \/ (Whole(db) /\ db.data = last)
          \/ \E s \in Schemas : Whole(aside[s]) /\ aside[s].data = last
\* A restore puts back a whole database ("VACUUM INTO makes a consistent copy", state/store.go:259).
RestoredWhole == pc = "write" => Whole(bak[from])
\* A start finds the records there are to find: not an empty file beside the backup of a restore that
\* was cut short.
NotEmptied == pc = "on" /\ db.data = 0 => \A s \in Schemas : ~(Whole(aside[s]) /\ aside[s].data # 0)
=============================================================================
