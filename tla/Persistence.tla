---------------------------- MODULE Persistence ----------------------------
(***************************************************************************)
(* What of the world survives: autosave, the save at a player's leave, the *)
(* two ways the tick loop ends, and a process that dies at any moment.     *)
(*                                                                         *)
(* The tick thread alone writes the files: one of block overrides for each *)
(* dimension, one for the chests, one for the players, one after the       *)
(* other.  A file is written under a temporary name, synced and renamed;   *)
(* each of these steps may fail, and between any two the process may die.  *)
(* What is under the temporary name is never read.  After a crash the      *)
(* files may be of different moments.                                      *)
(*                                                                         *)
(* The content of a file is a version number for each unit in it, raised   *)
(* by every change: a block file and the chest file are one unit, the      *)
(* players' file has a unit for each user.  Every start is an Init state   *)
(* or a Restart; sessions do not outlive the process.                      *)
(***************************************************************************)
EXTENDS Naturals, Sequences, FiniteSets

CONSTANTS
    BlockFiles,        \* the block files in the order of DimensionId::all()
    User,              \* offline-mode UUIDs
    AutosaveInterval,  \* autosave_interval_ticks; 0 disables autosave
    MaxVersion,        \* bound: changes of one unit
    MaxTick,           \* bound: ticks of one process
    MaxUnreadable      \* bound: files that cannot be loaded at one start

Chests == "chests"
Players == "players"
Dimensions == {BlockFiles[i] : i \in 1..Len(BlockFiles)}
WorldUnit == Dimensions \cup {Chests}
Unit == WorldUnit \cup User
File == WorldUnit \cup {Players}

ASSUME ConstantsAssumption ==
    /\ BlockFiles \in Seq(STRING)
    /\ Dimensions \cap {Chests, Players} = {}
    /\ User \cap File = {}
    /\ AutosaveInterval \in Nat
    /\ MaxVersion \in Nat
    /\ MaxTick \in Nat
    /\ MaxUnreadable \in Nat

VARIABLES
    phase,               \* of the tick thread
    stopper,             \* the thread inside TickHandle::shutdown
    tick_count,
    last_autosave_tick,
    online,              \* users in World::players
    live,                \* Unit -> version in memory; of a user offline, the cached one
    saved_players,       \* User -> version: the cache the players' file is written from
    disk,                \* Unit -> version in the file that holds the unit
    pending,             \* the files the save in progress has still to write
    cause,               \* what the last save was for
    temporary,           \* how far the file in turn has been written under its other name
    failed,              \* units behind on disk because a write failed
    unreadable,          \* files that could not be loaded at this start and are still there
    since,               \* Unit -> the tick of the first change not on disk, 0 without one
    mods_notified        \* mod_host.shutdown_all has run

memory == <<online, live, saved_players>>
clock == <<tick_count, last_autosave_tick>>
saving == <<pending, cause, temporary>>
faults == <<failed, unreadable>>
vars == <<phase, stopper, clock, memory, disk, saving, faults, since, mods_notified>>

FileOf(u) == IF u \in User THEN Players ELSE u

Init ==
    /\ phase = "check"
    /\ stopper = "idle"
    /\ tick_count = 0
    /\ last_autosave_tick = 0
    /\ online = {}
    /\ live = [u \in Unit |-> 0]
    /\ saved_players = [u \in User |-> 0]
    /\ disk = [u \in Unit |-> 0]
    /\ pending = <<>>
    /\ cause = "none"
    /\ temporary = "none"
    /\ failed = {}
    /\ unreadable = {}
    /\ since = [u \in Unit |-> 0]
    /\ mods_notified = FALSE

-----------------------------------------------------------------------------
(* Stopping: TickHandle::shutdown sets the flag, then sends the message *)

RaiseFlag ==
    /\ phase # "stopped"
    /\ stopper = "idle"
    /\ stopper' = "flagged"
    /\ UNCHANGED <<phase, clock, memory, disk, saving, faults, since, mods_notified>>

SendShutdown ==
    /\ phase # "stopped"
    /\ stopper = "flagged"
    /\ stopper' = "sent"
    /\ UNCHANGED <<phase, clock, memory, disk, saving, faults, since, mods_notified>>

-----------------------------------------------------------------------------
(* The messages of a tick *)

EnterTick ==
    /\ phase = "check"
    /\ stopper = "idle"
    /\ tick_count < MaxTick
    /\ phase' = "drain"
    /\ UNCHANGED <<stopper, clock, memory, disk, saving, faults, since, mods_notified>>

\* A handler, or a dig that completes, changes what is in memory of a unit.
Change(u) ==
    /\ phase = "drain"
    /\ u \in User => u \in online
    /\ live[u] < MaxVersion
    /\ live' = [live EXCEPT ![u] = @ + 1]
    /\ since' = [since EXCEPT ![u] = IF live[u] = disk[u] THEN tick_count ELSE @]
    /\ UNCHANGED <<phase, stopper, clock, online, saved_players, disk, saving,
                   faults, mods_notified>>

\* PlayerJoined: the inventory starts from the cache.
Join(u) ==
    /\ phase = "drain"
    /\ u \notin online
    /\ online' = online \cup {u}
    /\ live' = [live EXCEPT ![u] = saved_players[u]]
    /\ UNCHANGED <<phase, stopper, clock, saved_players, disk, saving, faults,
                   since, mods_notified>>

BeginSave(why, files) ==
    /\ phase' = "saving"
    /\ cause' = why
    /\ pending' = files
    /\ UNCHANGED temporary

\* Mutant: the player is dropped before the data is collected.
LeaveUnsaved(u) ==
    /\ phase = "drain"
    /\ u \in online
    /\ online' = online \ {u}
    /\ BeginSave("leave", <<Players>>)
    /\ UNCHANGED <<stopper, clock, live, saved_players, disk, faults, since,
                   mods_notified>>

\* PlayerLeft: this player's data goes to the cache, the cache to the file.
Leave(u) ==
    /\ phase = "drain"
    /\ u \in online
    /\ saved_players' = [saved_players EXCEPT ![u] = live[u]]
    /\ online' = online \ {u}
    /\ BeginSave("leave", <<Players>>)
    /\ UNCHANGED <<stopper, clock, live, disk, faults, since, mods_notified>>

\* The Shutdown message saves everything and leaves the loop.
HandleShutdown ==
    /\ phase = "drain"
    /\ stopper = "sent"
    /\ BeginSave("message", BlockFiles \o <<Chests, Players>>)
    /\ UNCHANGED <<stopper, clock, memory, disk, faults, since, mods_notified>>

-----------------------------------------------------------------------------
(* The rest of a tick, and the end of the loop *)

AutosaveDue ==
    /\ AutosaveInterval > 0
    /\ tick_count - last_autosave_tick >= AutosaveInterval

\* Mutant: the chests are not part of the autosave.
AutosaveNoChests ==
    /\ phase = "drain"
    /\ AutosaveDue
    /\ BeginSave("autosave", BlockFiles \o <<Players>>)
    /\ UNCHANGED <<stopper, clock, memory, disk, faults, since, mods_notified>>

Autosave ==
    /\ phase = "drain"
    /\ AutosaveDue
    /\ BeginSave("autosave", BlockFiles \o <<Chests, Players>>)
    /\ UNCHANGED <<stopper, clock, memory, disk, faults, since, mods_notified>>

NoAutosave ==
    /\ phase = "drain"
    /\ ~AutosaveDue
    /\ phase' = "mods"
    /\ UNCHANGED <<stopper, clock, memory, disk, saving, faults, since, mods_notified>>

\* tick_all of the mods, and the next tick.
TickMods ==
    /\ phase = "mods"
    /\ tick_count' = tick_count + 1
    /\ phase' = "check"
    /\ UNCHANGED <<stopper, last_autosave_tick, memory, disk, saving, faults,
                   since, mods_notified>>

\* Mutant: the safety net forgets the players.
FlushNoPlayers ==
    /\ phase = "check"
    /\ stopper # "idle"
    /\ BeginSave("flag", BlockFiles)
    /\ UNCHANGED <<stopper, clock, memory, disk, faults, since, mods_notified>>

\* The loop condition sees the flag: the flush after the loop.
Flush ==
    /\ phase = "check"
    /\ stopper # "idle"
    /\ BeginSave("flag", BlockFiles \o <<Players>>)
    /\ UNCHANGED <<stopper, clock, memory, disk, faults, since, mods_notified>>

-----------------------------------------------------------------------------
(* Writing the files *)

\* merge_online_into_saved, which every save but the one at a leave does.
Merged == [u \in User |-> IF u \in online THEN live[u] ELSE saved_players[u]]

Cache == IF cause = "leave" THEN saved_players ELSE Merged

\* What the files hold after f is written.
Written(f) == [u \in Unit |-> IF FileOf(u) # f THEN disk[u]
                              ELSE IF u \in User THEN Cache[u]
                              ELSE live[u]]

Writes(f, stage) ==
    /\ phase = "saving"
    /\ pending # <<>>
    /\ f = Head(pending)
    /\ temporary = stage

\* Mutant: File::create of the file itself, which empties it.
CreateInPlace(f) ==
    /\ Writes(f, "none")
    /\ temporary' = "created"
    /\ disk' = [u \in Unit |-> IF FileOf(u) = f THEN 0 ELSE disk[u]]
    /\ saved_players' = IF f = Players THEN Cache ELSE saved_players
    /\ UNCHANGED <<phase, stopper, clock, online, live, pending, cause, faults, since,
                   mods_notified>>

\* Mutant: the players online are merged into the file, not into the cache.
CreateUnmerged(f) ==
    /\ Writes(f, "none")
    /\ temporary' = "created"
    /\ UNCHANGED <<phase, stopper, clock, memory, disk, pending, cause, faults, since,
                   mods_notified>>

\* save_overrides_for, save_chests or save_players, up to File::create.
Create(f) ==
    /\ Writes(f, "none")
    /\ temporary' = "created"
    /\ saved_players' = IF f = Players THEN Cache ELSE saved_players
    /\ UNCHANGED <<phase, stopper, clock, online, live, disk, pending, cause, faults, since,
                   mods_notified>>

\* write_all and sync_all
Fill(f) ==
    /\ Writes(f, "created")
    /\ temporary' = "synced"
    /\ UNCHANGED <<phase, stopper, clock, memory, disk, pending, cause, faults, since,
                   mods_notified>>

Rename(f) ==
    /\ Writes(f, "synced")
    /\ temporary' = "none"
    /\ pending' = Tail(pending)
    /\ disk' = Written(f)
    /\ failed' = {u \in failed : FileOf(u) = f => Written(f)[u] # live[u]}
    /\ unreadable' = unreadable \ {f}
    /\ since' = [u \in Unit |-> IF Written(f)[u] = live[u] THEN 0 ELSE since[u]]
    /\ UNCHANGED <<phase, stopper, clock, memory, cause, mods_notified>>

\* An error of any of these is only logged; the next file is written all the same.
Refused(f) ==
    /\ Writes(f, temporary)
    /\ temporary' = "none"
    /\ pending' = Tail(pending)
    /\ saved_players' = IF f = Players THEN Cache ELSE saved_players
    /\ failed' = failed \cup {u \in Unit : FileOf(u) = f}
    /\ UNCHANGED <<phase, stopper, clock, online, live, disk, cause, unreadable, since,
                   mods_notified>>

\* Mutant: the next tick is noted as the time of the autosave.
SaveDoneLate ==
    /\ phase = "saving"
    /\ pending = <<>>
    /\ phase' = CASE cause = "leave" -> "drain"
                  [] cause = "autosave" -> "mods"
                  [] OTHER -> "stopped"
    /\ last_autosave_tick' = IF cause = "autosave" THEN tick_count + 1
                                                   ELSE last_autosave_tick
    /\ mods_notified' = (cause = "flag")
    /\ UNCHANGED <<stopper, tick_count, memory, disk, saving, faults, since>>

\* Only the flush after the loop tells the mods.
SaveDone ==
    /\ phase = "saving"
    /\ pending = <<>>
    /\ phase' = CASE cause = "leave" -> "drain"
                  [] cause = "autosave" -> "mods"
                  [] OTHER -> "stopped"
    /\ last_autosave_tick' = IF cause = "autosave" THEN tick_count ELSE last_autosave_tick
    /\ mods_notified' = (cause = "flag")
    /\ UNCHANGED <<stopper, tick_count, memory, disk, saving, faults, since>>

-----------------------------------------------------------------------------
(* The process *)

\* A file that is not well formed to its end counts as empty; of the chests, those
\* before the fault are kept.
Salvaged(lost) == IF Chests \in lost THEN 0..disk[Chests] ELSE {0}

Loaded(lost, chests) ==
    [u \in Unit |-> IF FileOf(u) \notin lost THEN disk[u]
                    ELSE IF u = Chests THEN chests ELSE 0]

\* The process has stopped or is killed, wherever it is, and a new one loads the
\* files.
Restart(lost) ==
    /\ Cardinality(lost) <= MaxUnreadable
    /\ phase' = "check"
    /\ stopper' = "idle"
    /\ tick_count' = 0
    /\ last_autosave_tick' = 0
    /\ online' = {}
    /\ \E chests \in Salvaged(lost) : live' = Loaded(lost, chests)
    /\ saved_players' = [u \in User |-> live'[u]]
    /\ pending' = <<>>
    /\ cause' = "none"
    /\ temporary' = "none"
    /\ failed' = {}
    /\ unreadable' = lost
    /\ since' = [u \in Unit |-> 0]
    /\ mods_notified' = FALSE
    /\ UNCHANGED disk

Next ==
    \/ RaiseFlag
    \/ SendShutdown
    \/ EnterTick
    \/ \E u \in Unit : Change(u)
    \/ \E u \in User : Join(u) \/ Leave(u)
    \/ HandleShutdown
    \/ Autosave
    \/ NoAutosave
    \/ TickMods
    \/ Flush
    \/ \E f \in File : Create(f) \/ Fill(f) \/ Rename(f) \/ Refused(f)
    \/ SaveDone
    \/ \E lost \in SUBSET File : Restart(lost)

Spec == Init /\ [][Next]_vars

-----------------------------------------------------------------------------
(* Properties *)

\* Every variable has its type; the unsigned subtraction of AutosaveDue never
\* underflows.
TypeOK ==
    /\ phase \in {"check", "drain", "saving", "mods", "stopped"}
    /\ stopper \in {"idle", "flagged", "sent"}
    /\ tick_count \in 0..MaxTick
    /\ last_autosave_tick \in 0..tick_count
    /\ online \subseteq User
    /\ live \in [Unit -> 0..MaxVersion]
    /\ saved_players \in [User -> 0..MaxVersion]
    /\ disk \in [Unit -> 0..MaxVersion]
    /\ pending \in Seq(File)
    /\ cause \in {"none", "leave", "autosave", "message", "flag"}
    /\ temporary \in {"none", "created", "synced"}
    /\ failed \subseteq Unit
    /\ unreadable \subseteq File
    /\ since \in [Unit -> 0..tick_count]
    /\ mods_notified \in BOOLEAN

\* Whenever the process dies, what is lost is younger than the autosave
\* interval, unless the disk refused a write: autosave leaves nothing out, and
\* a save at a leave neither delays it nor passes for it.
AutosaveBoundsLoss ==
    AutosaveInterval > 0 =>
        \A u \in Unit \ failed :
            live[u] # disk[u] => tick_count - since[u] <= AutosaveInterval

\* Once a player's leave has been handled, their data is in the file, whatever
\* happens to the process then, and stays there although every later save
\* writes the whole file again.
LeaverOnDisk ==
    \A u \in User \ failed :
        \/ disk[u] = live[u]
        \/ u \in online
        \/ cause = "leave" /\ pending # <<>>
        \/ Players \in unreadable

\* No save takes back what an earlier one had put on disk, in this process or
\* the one before a crash: the cache the players' file is written from is never
\* behind the file.  (A file that was unreadable at the start is overwritten.)
DiskNeverRegresses ==
    [][\A u \in Unit : FileOf(u) \notin unreadable => disk'[u] >= disk[u]]_vars

\* Whatever is saved when and wherever the process dies, the files are replaced
\* as a whole and only by newer data, and a new process takes up exactly what
\* they hold.  (persist.rs:163-183 "Writes to a temp file then renames
\* atomically")
Store == INSTANCE DurableStore WITH current <- live, durable <- disk, damaged <- unreadable
StoreIsDurable == Store!Spec

\* After a graceful stop, on either path, the files hold the last state of
\* blocks and players.  Each path leaves one thing out: the flush after the
\* loop the chests, the handler of the message the mods.
StopSaves ==
    phase = "stopped" =>
        /\ \A u \in Unit \ failed : u # Chests \/ cause = "message" => disk[u] = live[u]
        /\ mods_notified = (cause = "flag")

\* "Flush remaining data to disk on shutdown (covers the case where the
\* shutdown flag was set before the Shutdown message was processed)", "a safety
\* net" for the handler of the message, and Mod::shutdown is "Called on graceful
\* shutdown": whichever of the two ends the loop, everything is on disk and the
\* mods have been told.
StopIsComplete ==
    phase = "stopped" => mods_notified /\ \A u \in Unit \ failed : disk[u] = live[u]

=============================================================================
