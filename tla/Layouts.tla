-------------------------------- MODULE Layouts --------------------------------
(***************************************************************************)
(* What a game's files become in its ROM folder (domain/layout.go,         *)
(* archive.go, downloads.go), what the record keeps of the Server's files  *)
(* (domain/download.go), and the update a later look at the Server's files *)
(* finds against it, for a game whose files the Server changes.            *)
(*                                                                         *)
(* A file's hash of a kind is what its bytes say.  Its size changes with   *)
(* its time.  No path leaves the ROM folder: PlanLayout refuses one.       *)
(***************************************************************************)
EXTENDS Naturals, FiniteSets, Sequences

CONSTANTS
  Shapes,       \* the files a game may have: [id, path, name, class, disc, game, members], a name
                \* being a number, in the order of names, and the class what its path's extension is of
  game,         \* the game's own name, which its playlist and folder are named after
  Systems,      \* the systems it may go in: their layout of several files, archive policy, and
                \* whether archives are kept: [multi, archives, keep]
  MaxFiles, MaxMoves \* bounds: files a game has; changes of the Server

Assumptions ==
  /\ IsFiniteSet(Shapes) /\ \A s, t \in Shapes : s.id = t.id => s = t
  /\ \A s \in Shapes : s.id \in Nat /\ s.disc \in Nat /\ s.name \in Nat
  /\ \A s \in Shapes : s.path = game => s.class = "m3u"

VARIABLES
  files,     \* the Server's files of the game, which it lists by id: a shape, with at, bytes and hashes
  system,    \* the system the game goes in
  rec,       \* the record: Unowned, or its snapshots, placed paths and playlist lines
  ignored,   \* the snapshots of the update the user ignored, or NoneIgnored
  had,       \* auxiliary: the game files the Server had when the record was made, and ignored
  moves

vars == <<files, system, rec, ignored, had, moves>>

Unowned == [of |-> FALSE, snapshot |-> {}, placed |-> {}, lines |-> <<>>]
NoneIgnored == [chosen |-> FALSE, snapshot |-> {}]
File(s, at, bytes, hashes) ==
  [id |-> s.id, path |-> s.path, name |-> s.name, class |-> s.class, disc |-> s.disc,
   game |-> s.game, members |-> s.members, at |-> at, bytes |-> bytes, hashes |-> hashes]
Hashings == {{}, {"crc"}, {"sha1", "crc"}}

Init ==
  /\ \E chosen \in SUBSET Shapes, hashes \in Hashings :
       /\ Cardinality(chosen) \in 1..MaxFiles /\ \A s, t \in chosen : s.path = t.path => s = t
       /\ files = {File(s, 0, 0, hashes) : s \in chosen}
  /\ system \in Systems
  /\ rec = Unowned /\ ignored = NoneIgnored /\ had = [owned |-> {}, ignored |-> {}] /\ moves = 0

Move == moves < MaxMoves /\ moves' = moves + 1

-----------------------------------------------------------------------------
(* The layout. *)

GameFiles == {f \in files : f.game}
\* The files of a playlist's folder: the Server's own playlist isn't downloaded.  Variant: it is.
AllFiles(fs) == fs
PlaylistFiles(fs) == {f \in fs : f.class # "m3u"}

\* Where a sheet is present its raw tracks aren't discs.
DiscFiles(fs) ==
  {f \in fs : f.class # "m3u" /\ ~(f.class = "track" /\ \E s \in fs : s.class = "sheet")}
\* Numbered discs first, by number; then by name; a tie stays in the Server's order.
DiscBefore(d, e) ==
  \/ d.disc > 0 /\ e.disc = 0
  \/ d.disc > 0 /\ e.disc > 0 /\ d.disc < e.disc
  \/ d.disc = e.disc /\ (d.name < e.name \/ (d.name = e.name /\ d.id < e.id))
Place(d, ds) == Cardinality({e \in ds : DiscBefore(e, d)}) + 1
Discs(fs) ==
  LET ds == DiscFiles(fs)
  IN [k \in 1..Cardinality(ds) |-> CHOOSE d \in ds : Place(d, ds) = k]

NoLayout == [kind |-> "none", files |-> {}, lines |-> <<>>]
PlaylistLayout(fs) ==
  LET in == PlaylistFiles(fs)
      discs == Discs(in)
  IN IF discs = <<>> THEN NoLayout
     ELSE [kind |-> "set", files |-> in, lines |-> [i \in DOMAIN discs |-> discs[i].path]]
PlanLayout(fs) ==
  IF fs = {} THEN NoLayout
  ELSE IF Cardinality(fs) = 1 THEN [kind |-> "set", files |-> fs, lines |-> <<>>]
  ELSE CASE system.multi = "playlist" -> PlaylistLayout(fs)
         [] system.multi \in {"ps3", "folder"} -> [kind |-> "set", files |-> fs, lines |-> <<>>]
         [] system.multi = "zip" -> [kind |-> "zip", files |-> fs, lines |-> <<>>]
         [] OTHER -> NoLayout

-----------------------------------------------------------------------------
(* What is placed of it, as paths under the ROM folder. *)

\* Whether an archive of so many members is extracted.
Extracts(members) ==
  CASE system.archives = "keep" -> FALSE
    [] system.archives = "extract" -> TRUE
    [] OTHER -> ~system.keep \/ members # 1
Members(f) == 1..f.members
Extracted(f) == {<<f.name, m>> : m \in Members(f)}
\* unpack: a single archive's contents, and nothing of an empty one; any other file as it is.
Unpacked(f) ==
  IF f.class = "archive" /\ system.archives # "keep" /\ Extracts(f.members) THEN Extracted(f) ELSE {<<f.name>>}
\* stageSet, with the playlist it writes.
StagedSet(layout) ==
  {<<game, f.path>> : f \in layout.files} \cup (IF layout.lines = <<>> THEN {} ELSE {<<game, game>>})
ZipGame == {<<game>>}
\* One file is placed without a folder, the one left beside the Server's playlist too.
Staged(layout) ==
  CASE layout.kind = "none" -> {}
    [] layout.kind = "zip" -> ZipGame
    [] layout.kind = "set" -> IF Cardinality(layout.files) = 1 THEN UNION {Unpacked(f) : f \in layout.files}
                               ELSE StagedSet(layout)

-----------------------------------------------------------------------------
(* The record and the update. *)

\* The Server hashes a file strongest first: sha1, or crc alone.
Strongest(f) == IF f.hashes = {} THEN "none" ELSE IF "sha1" \in f.hashes THEN "sha1" ELSE "crc"
SnapshotOf(f) ==
  [id |-> f.id, at |-> f.at, kind |-> Strongest(f), hash |-> IF f.hashes = {} THEN 0 ELSE f.bytes]
SnapshotsOf(fs) == {SnapshotOf(f) : f \in fs}
Rehashed(s, f) ==
  IF s.kind \in f.hashes THEN f.bytes # s.hash ELSE f.at # s.at
\* Whether a game file was added, removed or changed.  Variant: it doesn't count them.
NoneCounted(snapshot, fs) ==
  \E f \in fs : ~\E s \in snapshot : s.id = f.id /\ ~Rehashed(s, f)
UpdateAvailable(snapshot, fs) ==
  \/ Cardinality(fs) # Cardinality(snapshot)
  \/ \E f \in fs : ~\E s \in snapshot : s.id = f.id /\ ~Rehashed(s, f)
HasUpdate ==
  /\ rec.of /\ UpdateAvailable(rec.snapshot, GameFiles)
  /\ ignored.chosen => UpdateAvailable(ignored.snapshot, GameFiles)

ContentsOf(fs) == {[id |-> f.id, bytes |-> f.bytes, class |-> f.class] : f \in fs}
\* The snapshots are of the layout's files.
Recorded(layout) ==
  [of |-> TRUE, snapshot |-> SnapshotsOf(layout.files), placed |-> Staged(layout), lines |-> layout.lines]
\* download, from its plan to SaveOwned.
Download ==
  /\ Staged(PlanLayout(GameFiles)) # {}
  /\ rec' = Recorded(PlanLayout(GameFiles)) /\ ignored' = NoneIgnored
  /\ had' = [owned |-> ContentsOf(GameFiles), ignored |-> {}]
  /\ UNCHANGED <<files, system, moves>>
IgnoreUpdate ==
  /\ HasUpdate
  /\ ignored' = [chosen |-> TRUE, snapshot |-> SnapshotsOf(GameFiles)]
  /\ had' = [had EXCEPT !.ignored = ContentsOf(GameFiles)]
  /\ UNCHANGED <<files, system, rec, moves>>

-----------------------------------------------------------------------------
(* The Server: a rescan after its files changed. *)

Has(f, g) == files' = (files \ {f}) \cup {g} /\ UNCHANGED <<system, rec, ignored, had>>
ServerRewrites(f) == Move /\ Has(f, File(f, moves + 1, moves + 1, f.hashes))
ServerHashes(f, hashes) == Move /\ Has(f, File(f, f.at, f.bytes, hashes))
ServerAdds(s, hashes) ==
  /\ Cardinality(files) < MaxFiles /\ \A f \in files : f.id # s.id /\ f.path # s.path
  /\ Move /\ files' = files \cup {File(s, moves + 1, moves + 1, hashes)}
  /\ UNCHANGED <<system, rec, ignored, had>>
ServerRemoves(f) ==
  /\ Move /\ files' = files \ {f}
  /\ UNCHANGED <<system, rec, ignored, had>>

Server ==
  \/ \E f \in files :
       ServerRewrites(f) \/ ServerRemoves(f) \/ \E hashes \in Hashings : ServerHashes(f, hashes)
  \/ \E s \in Shapes, hashes \in Hashings : ServerAdds(s, hashes)
Next == Download \/ IgnoreUpdate \/ Server
Spec == Init /\ [][Next]_vars

-----------------------------------------------------------------------------
(* Properties. *)

\* The record and the ignored update are of files the Server had, by no more than one snapshot each.
TypeOK ==
  /\ Cardinality(files) <= MaxFiles /\ system \in Systems /\ moves \in 0..MaxMoves
  /\ \A f \in files :
       /\ \E s \in Shapes : f = File(s, f.at, f.bytes, f.hashes)
       /\ f.at \in 0..MaxMoves /\ f.bytes \in 0..MaxMoves /\ f.hashes \in Hashings
  /\ \A s \in rec.snapshot \cup ignored.snapshot :
       s \in [id : {shape.id : shape \in Shapes}, at : 0..MaxMoves, kind : {"sha1", "crc", "none"},
              hash : 0..MaxMoves]
  /\ \A s, t \in rec.snapshot : s.id = t.id => s = t
  /\ \A s, t \in ignored.snapshot : s.id = t.id => s = t
  /\ ~rec.of => rec = Unowned
  /\ ~ignored.chosen => ignored = NoneIgnored

\* What a system's game is of: all of its files, but for the Server's playlist where the plugin writes one.
Played(contents) ==
  IF system.multi = "playlist" THEN {c \in contents : c.class # "m3u"} ELSE contents
Changed(contents) == Played(ContentsOf(GameFiles)) # Played(contents)
\* A change of the game's files on the Server since the download, and since the update the user ignored,
\* is always offered, whatever hashes the Server had and has (UpdateAvailable, HasUpdate).
ChangeOffered ==
  rec.of /\ Changed(had.owned) /\ (ignored.chosen => Changed(had.ignored)) => HasUpdate

\* No two files of a game, its playlist among them, have one place, so that none replaces another
\* (PlanLayout, playlistLayout).
PlacedApart ==
  LET layout == PlanLayout(GameFiles) IN
  layout.kind = "set" /\ Cardinality(layout.files) > 1 =>
    Cardinality(StagedSet(layout)) = Cardinality(layout.files) + (IF layout.lines = <<>> THEN 0 ELSE 1)

\* A playlist lists every file of its folder once, but for the tracks a sheet points at (Discs).
DiscsListed ==
  \A f \in GameFiles :
    LET layout == PlanLayout(GameFiles)
        pointed == f.class = "track" /\ \E s \in GameFiles : s.class = "sheet"
    IN layout.lines # <<>> =>
         Cardinality({i \in 1..Len(layout.lines) : layout.lines[i] = f.path})
           = IF f.class = "m3u" \/ pointed THEN 0 ELSE 1

\* "whose files on the Server changed since the plugin downloaded it" (domain/download.go:31): a game
\* whose files are as they were has no update.
OfferedIfChanged == HasUpdate => ContentsOf(GameFiles) # had.owned
=============================================================================
