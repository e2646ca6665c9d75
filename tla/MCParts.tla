-------------------------------- MODULE MCParts --------------------------------
(***************************************************************************)
(* The values TLC gives the constants of Parts.                            *)
(***************************************************************************)
EXTENDS Parts

CONSTANTS
  p, q,  \* entries of the ROM folder
  x, y   \* what a file of it holds

\* What comes to an end is checked with fewer moves than what is kept.
Settling == [finding |-> 3, updates |-> 3, bios |-> 0, stores |-> 0, layouts |-> 0, room |-> 0]
Keeping == [finding |-> 4, updates |-> 0, bios |-> 4, stores |-> 8, layouts |-> 2, room |-> 4]
Restoring == [Keeping EXCEPT !.stores = 10]

\* Finding: RomM keeps one game twice, and the next server keeps another under its id.
FoundHome == <<p, q>>
FoundHolds == <<<<x, x>>, <<x, y>>>>

\* Transfer: two files: the second version keeps the size of the first's and is shorter in the second's,
\* the third is longer again.
FileSize == <<<<2, 2>>, <<2, 1>>, <<2, 2>>>>

\* Bios: two platforms, one of two files; the two may share a name.
FilePlatform == [boot |-> "psx", font |-> "psx", card |-> "ps2"]
Apart == [boot |-> "boot.bin", font |-> "font.bin", card |-> "card.bin"]
Shared == [boot |-> "bios.bin", font |-> "font.bin", card |-> "bios.bin"]

\* Layouts: a playlist of the Server's, a sheet and its track, another disc, archives of one and of two
\* members, and a manual; a system of each way to place them.
Shape(id, path, name, class, disc, members) ==
  [id |-> id, path |-> path, name |-> name, class |-> class, disc |-> disc, game |-> class # "manual",
   members |-> members]
GameShapes ==
  { Shape(1, "game.m3u", 5, "m3u", 0, 0),
    Shape(2, "game (Disc 1).cue", 1, "sheet", 1, 0),
    Shape(3, "game (Disc 1).bin", 2, "track", 1, 0),
    Shape(4, "game (Disc 2).chd", 3, "image", 2, 0),
    Shape(5, "bonus/game.zip", 4, "archive", 0, 1),
    Shape(6, "pack.7z", 6, "archive", 0, 2),
    Shape(7, "manual.pdf", 7, "manual", 0, 0) }
GameSystems ==
  { [multi |-> "playlist", archives |-> "extract", keep |-> TRUE],
    [multi |-> "none", archives |-> "optional", keep |-> TRUE],
    [multi |-> "folder", archives |-> "optional", keep |-> FALSE],
    [multi |-> "zip", archives |-> "keep", keep |-> TRUE] }

\* Room: three games, of which two fit; one is extracted, one goes to the card.
BatchOrder == <<"a", "b", "c">>
BatchSizes == [a |-> 2, b |-> 1, c |-> 2]
DriveCapacity == [main |-> 5, card |-> 4]
=============================================================================
