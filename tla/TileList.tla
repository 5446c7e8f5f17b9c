------------------------------ MODULE TileList ------------------------------
(***************************************************************************)
(* The list of expired tiles (expire/tilelist.go): it grows in memory, and *)
(* Flush writes it to a new file and empties it.  untold holds the tiles   *)
(* of committed changes that are in no file yet; reasons records why some  *)
(* of them never will be.                                                  *)
(***************************************************************************)
VARIABLES
  tiles,    \* TileList.tiles
  untold,   \* tiles of committed changes that were not written yet
  reasons   \* how tiles of committed changes were lost

tileVars == <<tiles, untold, reasons>>

TileInit == tiles = {} /\ untold = {} /\ reasons = {}

Expire(S) == tiles' = tiles \cup S

(* The tiles are gone; for those that were needed this is a loss.  half    *)
(* says that an update is half done: the tiles of its old geometries are   *)
(* needed as well, but they will not be found again.                       *)
Forget(why, half) ==
  /\ tiles' = {} /\ untold' = {}
  /\ reasons' = reasons \cup (IF untold = {} THEN {} ELSE {why})
                        \cup (IF half THEN {"halfway"} ELSE {})

(* Flush has written and renamed the file, or there was nothing to write.  *)
Flushed(half) ==
  /\ tiles' = {} /\ untold' = untold \ tiles
  /\ reasons' = reasons \cup (IF half THEN {"halfway"} ELSE {})

(* Mutant: the list is emptied before it is written.                       *)
MutFlushFailed ==
  /\ tiles' = {}
  /\ UNCHANGED <<untold, reasons>>

(* Flush could not make the directory, create the file or write it.        *)
FlushFailed == tiles # {} /\ UNCHANGED tileVars

(* The list is already empty when the file is renamed.                     *)
RenameFailed == tiles # {} /\ Forget("rename", FALSE)
=============================================================================
