---------------------------- MODULE ConfigWatch -----------------------------
(***************************************************************************)
(* The hot reload of the configuration: main loads the file, Watch takes   *)
(* its hash and starts a goroutine that polls it.  A poll that finds       *)
(* another hash remembers it and then reads the file again to load it:     *)
(* between the two reads, as between Load and Watch, the file may change.  *)
(***************************************************************************)
EXTENDS Integers

CONSTANTS
    Content,       \* what the file may hold
    Valid,         \* the contents Parse accepts
    Absent,        \* no file, or not readable
    WritesAtStart  \* may the file change before Watch has returned?

ASSUME ContentAssumption == Valid \subseteq Content /\ Absent \notin Content
ASSUME WriterAssumption  == WritesAtStart \in BOOLEAN

VARIABLES
    file,       \* what is on disk
    cur,        \* Manager.cur
    lastHash,   \* Watch's lastHash; the hash of a content is the content itself
    lastExists, \* Watch's lastExists
    wpc,        \* main and then the polling goroutine
    torn        \* history: the last content read to be loaded is not the one hashed with it

watchVars == <<file, cur, lastHash, lastExists, wpc, torn>>

\* The process starts on a valid file; with any other it exits
WatchInit == /\ file \in Valid
             /\ cur = Absent /\ lastHash = Absent /\ lastExists = FALSE
             /\ wpc = "load" /\ torn = FALSE

-----------------------------------------------------------------------------
(* Whoever edits the file *)

MayWrite == wpc \in {"idle", "reload"} \/ WritesAtStart

WriteFile == /\ MayWrite
             /\ \E c \in Content : c # file /\ file' = c
             /\ UNCHANGED <<cur, lastHash, lastExists, wpc, torn>>

RemoveFile == /\ MayWrite /\ file # Absent
              /\ file' = Absent
              /\ UNCHANGED <<cur, lastHash, lastExists, wpc, torn>>

-----------------------------------------------------------------------------
(* main and Manager *)

\* config.Load and NewManager
Load == /\ wpc = "load" /\ file \in Valid
        /\ cur' = file /\ wpc' = "hash"
        /\ UNCHANGED <<file, lastHash, lastExists, torn>>

\* Watch itself: the first hash, taken before the goroutine starts
Watch == /\ wpc = "hash"
         /\ lastHash' = file /\ lastExists' = (file # Absent)
         /\ wpc' = "idle" /\ torn' = (cur # file)
         /\ UNCHANGED <<file, cur>>

\* A poll finds no file: the configuration in memory is kept
PollGone == /\ wpc = "idle" /\ file = Absent
            /\ lastExists' = FALSE
            /\ UNCHANGED <<file, cur, lastHash, wpc, torn>>

\* Mutant: a file that came back is noted, but not reloaded
PollReappeared == /\ wpc = "idle" /\ file # Absent
                  /\ ~lastExists \/ file # lastHash
                  /\ lastExists' = TRUE /\ lastHash' = file
                  /\ wpc' = IF lastExists THEN "reload" ELSE "idle"
                  /\ UNCHANGED <<file, cur, torn>>

\* A poll finds a file after none, or another hash
PollChanged == /\ wpc = "idle" /\ file # Absent
               /\ ~lastExists \/ file # lastHash
               /\ lastExists' = TRUE /\ lastHash' = file /\ wpc' = "reload"
               /\ UNCHANGED <<file, cur, torn>>

\* Manager.Reload: reads the file again; an error is logged and the poll's hash stays
ReloadFile == /\ wpc = "reload" /\ wpc' = "idle"
              /\ cur' = IF file \in Valid THEN file ELSE cur
              /\ torn' = (file # lastHash)
              /\ UNCHANGED <<file, lastHash, lastExists>>

Watcher   == Load \/ Watch \/ PollGone \/ PollChanged \/ ReloadFile
WatchNext == WriteFile \/ RemoveFile \/ Watcher
WatchSpec == WatchInit /\ [][WatchNext]_watchVars

-----------------------------------------------------------------------------
(* Properties *)

\* What the goroutine will not look at again, because its hash is the last one seen, is
\* what is loaded, whatever was written, removed, broken and brought back before; but not
\* if the file changed between the hash and the second read that was to load it
SeenIsLoaded ==
    /\ wpc = "idle" /\ lastExists /\ ~torn
    /\ file = lastHash /\ file \in Valid
    => cur = file

\* A valid file that stays on disk is in force in the end, unless the last poll to load
\* one (or main) hashed another content than it loaded and no poll corrects that any more
SettledIsLoaded == \A v \in Valid : <>[](file = v) => <>[](cur = v) \/ <>[]torn
=============================================================================
