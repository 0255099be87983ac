------------------------- MODULE PersistenceProofs -------------------------
(***************************************************************************)
(* Proofs about Persistence, for every number of dimensions, every set of  *)
(* users, every autosave interval and every bound.                         *)
(*                                                                         *)
(* The argument has three threads.  The cache the players' file is written *)
(* from lies between the file and the memory (CacheBetween), so that no    *)
(* save takes back what another wrote, and the files are a DurableStore.   *)
(* Each save that is meant to be complete has, of the units that are       *)
(* behind, the files still to write (SaveCovers), so that at its end       *)
(* nothing is behind but what the disk refused.  And whatever has been     *)
(* behind for longer was behind at the last autosave (BehindSince).        *)
(***************************************************************************)
EXTENDS Persistence, TLAPS, SequenceTheorems

-----------------------------------------------------------------------------
(* The inductive invariant *)

Pends(f) == \E i \in 1..Len(pending) : pending[i] = f

\* Which phases a save may be in, and what it has still to write.
SavesInPhase ==
    /\ phase # "saving" => pending = <<>>
    /\ pending = <<>> => temporary = "none"
    /\ phase = "saving" => cause # "none"
    /\ phase = "saving" /\ cause = "leave" => pending \in {<<>>, <<Players>>}
    /\ phase = "saving" /\ cause = "autosave" => AutosaveInterval > 0
    /\ phase = "stopped" => cause \in {"message", "flag"} /\ mods_notified = (cause = "flag")

\* The clock stays within its bound, and an autosave is never overdue.
ClockInPhase ==
    /\ phase \in {"drain", "mods"} => tick_count < MaxTick
    /\ phase = "saving" /\ cause \in {"leave", "autosave"} => tick_count < MaxTick
    /\ AutosaveInterval > 0 => tick_count - last_autosave_tick <= AutosaveInterval
    /\ AutosaveInterval > 0 /\ phase = "mods" => tick_count - last_autosave_tick < AutosaveInterval

\* The cache is as new as the file and never newer than the memory; of those
\* offline it is the memory.
CacheBetween ==
    /\ \A u \in User : saved_players[u] <= live[u]
    /\ \A u \in User \ online : saved_players[u] = live[u]
    /\ \A u \in User : Players \notin unreadable => disk[u] <= saved_players[u]
    /\ \A u \in WorldUnit : u \notin unreadable => disk[u] <= live[u]

\* Once the players' file is begun the cache is what will be written.
CacheBegun ==
    pending # <<>> /\ Head(pending) = Players /\ temporary # "none" => saved_players = Cache

\* The file does not have the unit as it is, or is the one of before the start.
Behind(u) == disk[u] # live[u] \/ FileOf(u) \in unreadable

\* What a complete save has not yet brought up to date is still to be written.
SaveCovers ==
    phase = "saving" /\ cause # "leave" =>
        \A u \in Unit \ failed :
            \/ ~Behind(u)
            \/ Pends(FileOf(u))
            \/ (u = Chests /\ cause = "flag")

\* An autosave replaces what could not be loaded, unless it fails.
UnreadableYoung ==
    \A u \in Unit \ failed : FileOf(u) \in unreadable => last_autosave_tick = 0

\* What is behind has been so only since the last autosave.
BehindSince ==
    \A u \in Unit \ failed : live[u] # disk[u] => since[u] >= last_autosave_tick

IInv == TypeOK /\ SavesInPhase /\ ClockInPhase /\ CacheBetween /\ CacheBegun /\ SaveCovers
          /\ UnreadableYoung /\ BehindSince /\ LeaverOnDisk /\ StopSaves

-----------------------------------------------------------------------------
(* Units, files and the lists of files to write *)

\* Every unit is in a file; only the users' are in that of the players.
LEMMA UnitFiles ==
    /\ \A u \in Unit : FileOf(u) \in File
    /\ \A u \in User : u \in Unit /\ FileOf(u) = Players
    /\ \A u \in WorldUnit : u \in Unit /\ u \notin User /\ FileOf(u) = u /\ u # Players
    /\ Chests \in WorldUnit
    /\ \A u \in Unit : u \in User \/ u \in WorldUnit
BY ConstantsAssumption DEF Unit, File, FileOf, WorldUnit, Players, Chests

\* The lists a save starts from hold every file they should.
LEMMA FileLists ==
    /\ <<Players>> \in Seq(File)
    /\ BlockFiles \o <<Chests, Players>> \in Seq(File)
    /\ BlockFiles \o <<Players>> \in Seq(File)
    /\ \A f \in File : \E i \in 1..Len(BlockFiles \o <<Chests, Players>>) :
           (BlockFiles \o <<Chests, Players>>)[i] = f
    /\ \A f \in File \ {Chests} : \E i \in 1..Len(BlockFiles \o <<Players>>) :
           (BlockFiles \o <<Players>>)[i] = f
<1>1. Chests \in File /\ Players \in File /\ Dimensions \subseteq File
    BY DEF File, WorldUnit
<1>2. BlockFiles \in Seq(Dimensions)
  <2>1. BlockFiles \in Seq(STRING)
    BY ConstantsAssumption
  <2>2. Len(BlockFiles) \in Nat /\ BlockFiles \in [1..Len(BlockFiles) -> STRING]
    BY <2>1, LenProperties
  <2>3. BlockFiles \in [1..Len(BlockFiles) -> Dimensions]
    BY <2>2 DEF Dimensions
  <2>4. QED
    BY <2>2, <2>3, IsASeq
<1>3. BlockFiles \in Seq(File)
    BY <1>1, <1>2
<1>4. /\ <<Players>> \in Seq(File) /\ <<Chests, Players>> \in Seq(File)
      /\ Len(<<Players>>) = 1 /\ Len(<<Chests, Players>>) = 2
    BY <1>1
<1>5. \A f \in Dimensions : \E i \in 1..Len(BlockFiles) : BlockFiles[i] = f
    BY DEF Dimensions
<1>6. Len(BlockFiles) \in Nat
    BY <1>3, LenProperties
<1>7. ASSUME NEW f \in File
      PROVE  \E i \in 1..Len(BlockFiles \o <<Chests, Players>>) :
                 (BlockFiles \o <<Chests, Players>>)[i] = f
  <2> DEFINE s == BlockFiles \o <<Chests, Players>>
  <2>1. /\ Len(s) = Len(BlockFiles) + 2
        /\ \A i \in 1..Len(s) : s[i] = IF i <= Len(BlockFiles) THEN BlockFiles[i]
                                       ELSE <<Chests, Players>>[i - Len(BlockFiles)]
    BY <1>3, <1>4, ConcatProperties
  <2>2. s[Len(BlockFiles) + 1] = Chests /\ s[Len(BlockFiles) + 2] = Players
    BY <2>1, <1>6
  <2>3. CASE f \in Dimensions
    BY <2>1, <2>3, <1>5, <1>6
  <2>4. CASE f = Chests
    BY <2>1, <2>2, <2>4, <1>6
  <2>5. CASE f = Players
    BY <2>1, <2>2, <2>5, <1>6
  <2>6. QED
    BY <2>3, <2>4, <2>5 DEF File, WorldUnit
<1>8. ASSUME NEW f \in File \ {Chests}
      PROVE  \E i \in 1..Len(BlockFiles \o <<Players>>) : (BlockFiles \o <<Players>>)[i] = f
  <2> DEFINE s == BlockFiles \o <<Players>>
  <2>1. /\ Len(s) = Len(BlockFiles) + 1
        /\ \A i \in 1..Len(s) : s[i] = IF i <= Len(BlockFiles) THEN BlockFiles[i]
                                       ELSE <<Players>>[i - Len(BlockFiles)]
    BY <1>3, <1>4, ConcatProperties
  <2>2. s[Len(BlockFiles) + 1] = Players
    BY <2>1, <1>6
  <2>3. CASE f \in Dimensions
    BY <2>1, <2>3, <1>5, <1>6
  <2>4. CASE f = Players
    BY <2>1, <2>2, <2>4, <1>6
  <2>5. QED
    BY <2>3, <2>4 DEF File, WorldUnit
<1>9. QED
    BY <1>3, <1>4, <1>7, <1>8, ConcatProperties

\* What is still to be written when the first file is done.
LEMMA NextFile ==
    ASSUME NEW q \in Seq(File), q # <<>>
    PROVE  /\ Head(q) \in File /\ Tail(q) \in Seq(File)
           /\ \A f : (\E i \in 1..Len(q) : q[i] = f)
                     => f = Head(q) \/ \E i \in 1..Len(Tail(q)) : Tail(q)[i] = f
<1>1. /\ Head(q) = q[1] /\ Head(q) \in File /\ Tail(q) \in Seq(File)
      /\ Len(q) \in Nat /\ Len(Tail(q)) = Len(q) - 1
      /\ \A i \in 1..Len(Tail(q)) : Tail(q)[i] = q[i + 1]
    BY HeadTailProperties, LenProperties, EmptySeq
<1>2. ASSUME NEW f, NEW i \in 1..Len(q), q[i] = f, i # 1
      PROVE  \E j \in 1..Len(Tail(q)) : Tail(q)[j] = f
    BY <1>1, <1>2, i - 1 \in 1..Len(Tail(q))
<1>3. QED
    BY <1>1, <1>2

-----------------------------------------------------------------------------
(* Types, phases and the clock *)

\* What is written is well typed.
LEMMA WrittenTypes ==
    ASSUME TypeOK
    PROVE  /\ Merged \in [User -> 0..MaxVersion]
           /\ Cache \in [User -> 0..MaxVersion]
           /\ \A f : Written(f) \in [Unit -> 0..MaxVersion]
<1>1. Merged \in [User -> 0..MaxVersion] /\ Cache \in [User -> 0..MaxVersion]
    BY UnitFiles DEF TypeOK, Merged, Cache
<1>2. QED
    BY <1>1, UnitFiles DEF TypeOK, Written

\* The first file of a save.
LEMMA WritesTypes ==
    ASSUME TypeOK, NEW f, NEW stage, Writes(f, stage)
    PROVE  /\ phase = "saving" /\ pending # <<>> /\ temporary = stage
           /\ f = Head(pending) /\ f \in File
           /\ Tail(pending) \in Seq(File)
BY NextFile DEF Writes, TypeOK

\* A new process takes up no more than the files hold.
LEMMA LoadedTypes ==
    ASSUME TypeOK, NEW lost \in SUBSET File, NEW chests \in Salvaged(lost)
    PROVE  /\ Loaded(lost, chests) \in [Unit -> 0..MaxVersion]
           /\ \A u \in Unit : /\ Loaded(lost, chests)[u] <= disk[u]
                              /\ FileOf(u) \notin lost => Loaded(lost, chests)[u] = disk[u]
           /\ \A u \in User : Loaded(lost, chests)[u] = IF Players \in lost THEN 0 ELSE disk[u]
<1>1. Chests \in Unit /\ Chests \notin User
    BY UnitFiles
<1>2. disk \in [Unit -> 0..MaxVersion] /\ MaxVersion \in Nat
    BY ConstantsAssumption DEF TypeOK
<1>3. chests \in 0..MaxVersion /\ chests <= disk[Chests]
    BY <1>1, <1>2 DEF Salvaged
<1>4. QED
    BY <1>1, <1>2, <1>3, UnitFiles DEF Loaded

Basics == TypeOK /\ SavesInPhase /\ ClockInPhase

\* The initial state is well typed.
LEMMA InitBasics == Init => Basics
<1> SUFFICES ASSUME Init PROVE Basics
    OBVIOUS
<1>1. /\ 0 \in 0..MaxTick /\ 0 \in 0..MaxVersion /\ 0 \in 0..0
      /\ <<>> \in Seq(File)
    BY ConstantsAssumption
<1>2. TypeOK
    BY <1>1 DEF Init, TypeOK
<1>3. SavesInPhase /\ ClockInPhase
    BY ConstantsAssumption DEF Init, SavesInPhase, ClockInPhase
<1>4. QED
    BY <1>2, <1>3 DEF Basics

\* Every step keeps types, phases and clock.
LEMMA NextBasics == Basics /\ [Next]_vars => Basics'
<1> SUFFICES ASSUME Basics, [Next]_vars PROVE Basics'
    OBVIOUS
<1> USE ConstantsAssumption
<1>0. TypeOK /\ SavesInPhase /\ ClockInPhase
    BY DEF Basics
<1>a. tick_count \in Nat /\ last_autosave_tick \in Nat /\ last_autosave_tick <= tick_count
    BY <1>0 DEF TypeOK
<1> USE DEF clock, memory, saving, faults, Basics
<1>1. CASE RaiseFlag
    BY <1>0, <1>1 DEF RaiseFlag, TypeOK, SavesInPhase, ClockInPhase
<1>2. CASE SendShutdown
    BY <1>0, <1>2 DEF SendShutdown, TypeOK, SavesInPhase, ClockInPhase
<1>3. CASE EnterTick
    BY <1>0, <1>3, <1>a DEF EnterTick, TypeOK, SavesInPhase, ClockInPhase
<1>4. ASSUME NEW u \in Unit, Change(u) PROVE Basics'
  <2>1. live' \in [Unit -> 0..MaxVersion] /\ since' \in [Unit -> 0..tick_count]
    BY <1>0, <1>4, <1>a DEF Change, TypeOK
  <2>2. QED
    BY <1>0, <1>4, <2>1 DEF Change, TypeOK, SavesInPhase, ClockInPhase
<1>5. ASSUME NEW u \in User, Join(u) PROVE Basics'
  <2>1. live' \in [Unit -> 0..MaxVersion]
    BY <1>0, <1>5 DEF Join, TypeOK
  <2>2. QED
    BY <1>0, <1>5, <2>1 DEF Join, TypeOK, SavesInPhase, ClockInPhase
<1>6. ASSUME NEW u \in User, Leave(u) PROVE Basics'
  <2>1. saved_players' \in [User -> 0..MaxVersion]
    BY <1>0, <1>6, UnitFiles DEF Leave, TypeOK
  <2>2. QED
    BY <1>0, <1>6, <2>1, FileLists DEF Leave, BeginSave, TypeOK, SavesInPhase, ClockInPhase
<1>7. CASE HandleShutdown
    BY <1>0, <1>7, FileLists DEF HandleShutdown, BeginSave, TypeOK, SavesInPhase, ClockInPhase
<1>8. CASE Autosave
    BY <1>0, <1>8, FileLists DEF Autosave, AutosaveDue, BeginSave, TypeOK, SavesInPhase, ClockInPhase
<1>9. CASE NoAutosave
    BY <1>0, <1>9, <1>a DEF NoAutosave, AutosaveDue, TypeOK, SavesInPhase, ClockInPhase
<1>10. CASE TickMods
  <2>1. /\ tick_count' = tick_count + 1 /\ tick_count' \in 0..MaxTick
        /\ UNCHANGED last_autosave_tick /\ last_autosave_tick \in 0..tick_count'
    BY <1>0, <1>10, <1>a DEF TickMods, TypeOK, ClockInPhase
  <2>2. since' \in [Unit -> 0..tick_count']
    BY <1>0, <1>10, <1>a, <2>1 DEF TickMods, TypeOK
  <2>3. TypeOK'
    BY <1>0, <1>10, <2>1, <2>2 DEF TickMods, TypeOK
  <2>4. SavesInPhase' /\ ClockInPhase'
    BY <1>0, <1>10, <1>a, <2>1 DEF TickMods, SavesInPhase, ClockInPhase
  <2>5. QED
    BY <2>3, <2>4
<1>11. CASE Flush
    BY <1>0, <1>11, FileLists DEF Flush, BeginSave, TypeOK, SavesInPhase, ClockInPhase
<1>12. ASSUME NEW f \in File, Create(f) PROVE Basics'
  <2>1. Writes(f, "none") /\ saved_players' \in [User -> 0..MaxVersion]
    BY <1>0, <1>12, WrittenTypes DEF Create, TypeOK
  <2>2. QED
    BY <1>0, <1>12, <2>1, WritesTypes DEF Create, TypeOK, SavesInPhase, ClockInPhase
<1>13. ASSUME NEW f \in File, Fill(f) PROVE Basics'
    BY <1>0, <1>13 DEF Fill, Writes, TypeOK, SavesInPhase, ClockInPhase
<1>14. ASSUME NEW f \in File, Rename(f) PROVE Basics'
  <2>1. Writes(f, "synced") /\ disk' \in [Unit -> 0..MaxVersion]
    BY <1>0, <1>14, WrittenTypes DEF Rename
  <2>2. pending' = Tail(pending) /\ pending' \in Seq(File) /\ phase = "saving" /\ pending # <<>>
    BY <1>0, <1>14, <2>1, WritesTypes DEF Rename
  <2>3. since' \in [Unit -> 0..tick_count] /\ failed' \subseteq Unit /\ unreadable' \subseteq File
    BY <1>0, <1>14, <1>a DEF Rename, TypeOK
  <2>4. TypeOK'
    BY <1>0, <1>14, <2>1, <2>2, <2>3 DEF Rename, TypeOK
  <2>5. cause = "leave" => pending' = <<>>
    BY <1>0, <2>2 DEF SavesInPhase
  <2>6. SavesInPhase' /\ ClockInPhase'
    BY <1>0, <1>14, <2>2, <2>5 DEF Rename, SavesInPhase, ClockInPhase
  <2>7. QED
    BY <2>4, <2>6
<1>15. ASSUME NEW f \in File, Refused(f) PROVE Basics'
  <2>1. Writes(f, temporary) /\ saved_players' \in [User -> 0..MaxVersion]
    BY <1>0, <1>15, WrittenTypes DEF Refused, TypeOK
  <2>2. pending' = Tail(pending) /\ pending' \in Seq(File) /\ phase = "saving" /\ pending # <<>>
    BY <1>0, <1>15, <2>1, WritesTypes DEF Refused
  <2>3. TypeOK'
    BY <1>0, <1>15, <2>1, <2>2 DEF Refused, TypeOK
  <2>4. cause = "leave" => pending' = <<>>
    BY <1>0, <2>2 DEF SavesInPhase
  <2>5. SavesInPhase' /\ ClockInPhase'
    BY <1>0, <1>15, <2>2, <2>4 DEF Refused, SavesInPhase, ClockInPhase
  <2>6. QED
    BY <2>3, <2>5
<1>16. CASE SaveDone
  <2>1. TypeOK'
    BY <1>0, <1>16, <1>a DEF SaveDone, TypeOK
  <2>2. SavesInPhase'
    BY <1>0, <1>16 DEF SaveDone, SavesInPhase, TypeOK
  <2>3. ClockInPhase'
    BY <1>0, <1>16, <1>a DEF SaveDone, SavesInPhase, ClockInPhase, TypeOK
  <2>4. QED
    BY <2>1, <2>2, <2>3
<1>17. ASSUME NEW lost \in SUBSET File, Restart(lost) PROVE Basics'
  <2>1. PICK chests \in Salvaged(lost) : live' = Loaded(lost, chests)
    BY <1>17 DEF Restart
  <2>2. live' \in [Unit -> 0..MaxVersion] /\ saved_players' \in [User -> 0..MaxVersion]
    BY <1>0, <1>17, <2>1, LoadedTypes, UnitFiles DEF Restart
  <2>3. /\ 0 \in 0..MaxTick /\ 0 \in 0..0 /\ <<>> \in Seq(File)
    OBVIOUS
  <2>4. TypeOK'
    BY <1>0, <1>17, <2>2, <2>3 DEF Restart, TypeOK
  <2>5. SavesInPhase' /\ ClockInPhase'
    BY <1>17 DEF Restart, SavesInPhase, ClockInPhase
  <2>6. QED
    BY <2>4, <2>5
<1>18. CASE UNCHANGED vars
    BY <1>0, <1>18 DEF vars, TypeOK, SavesInPhase, ClockInPhase
<1>19. QED
    BY <1>1, <1>2, <1>3, <1>4, <1>5, <1>6, <1>7, <1>8, <1>9, <1>10, <1>11, <1>12, <1>13,
       <1>14, <1>15, <1>16, <1>17, <1>18 DEF Next

\* Every variable has its type in every reachable state: above all the unsigned
\* subtraction of the autosave timer never underflows.  (tick.rs:1993-1995)
THEOREM TypeCorrect == Spec => []TypeOK
<1>1. Basics => TypeOK
    BY DEF Basics
<1>2. QED
    BY <1>1, InitBasics, NextBasics, PTL DEF Spec

-----------------------------------------------------------------------------
(* The cache *)

\* Merging moves the cache forward, for those online to the memory.
LEMMA CacheForward ==
    ASSUME TypeOK, CacheBetween
    PROVE  /\ \A u \in User : saved_players[u] <= Cache[u] /\ Cache[u] <= live[u]
           /\ \A u \in User \ online : Cache[u] = live[u]
           /\ cause # "leave" => \A u \in User : Cache[u] = live[u]
<1>1. ASSUME NEW u \in User
      PROVE  /\ saved_players[u] <= Cache[u] /\ Cache[u] <= live[u]
             /\ u \notin online => Cache[u] = live[u]
             /\ cause # "leave" => Cache[u] = live[u]
  <2>1. /\ saved_players[u] \in Nat /\ live[u] \in Nat /\ saved_players[u] <= live[u]
        /\ u \notin online => saved_players[u] = live[u]
    BY UnitFiles, ConstantsAssumption DEF TypeOK, CacheBetween
  <2>2. CASE cause = "leave"
    BY <2>1, <2>2 DEF Cache
  <2>3. CASE cause # "leave"
    <3>1. Cache[u] = IF u \in online THEN live[u] ELSE saved_players[u]
      BY <2>3 DEF Cache, Merged
    <3>2. Cache[u] = live[u]
      BY <3>1, <2>1
    <3>3. QED
      BY <3>2, <2>1
  <2>4. QED
    BY <2>2, <2>3
<1>2. QED
    BY <1>1

\* Saving a player's file again writes the same.
LEMMA CacheStable ==
    ASSUME TypeOK, CacheBetween,
           UNCHANGED <<online, live, cause>>, saved_players' = Cache
    PROVE  Cache' = Cache
<1>1. CASE cause = "leave"
    BY <1>1 DEF Cache
<1>2. CASE cause # "leave"
  <2>1. \A u \in User : Merged[u] = IF u \in online THEN live[u] ELSE saved_players[u]
    BY DEF Merged
  <2>2. Merged' = [u \in User |-> IF u \in online THEN live[u] ELSE saved_players'[u]]
    BY DEF Merged
  <2>3. saved_players' = Merged
    BY <1>2 DEF Cache
  <2>4. Merged' = Merged
    BY <2>1, <2>2, <2>3 DEF Merged
  <2>5. QED
    BY <1>2, <2>4 DEF Cache
<1>3. QED
    BY <1>1, <1>2

\* The cache is between file and memory after every step.
LEMMA NextCacheBetween == Basics /\ CacheBetween /\ CacheBegun /\ [Next]_vars => CacheBetween'
<1> SUFFICES ASSUME Basics, CacheBetween, CacheBegun, [Next]_vars PROVE CacheBetween'
    OBVIOUS
<1> USE DEF memory, saving, faults
<1>0. TypeOK /\ SavesInPhase
    BY DEF Basics
<1>a. \A u \in Unit : live[u] \in Nat /\ disk[u] \in Nat
    BY <1>0 DEF TypeOK
<1>b. \A u \in User : saved_players[u] \in Nat
    BY <1>0 DEF TypeOK
<1>c. \* What is left to show of a step that changes no data.
      ASSUME UNCHANGED <<memory, disk, unreadable>>
      PROVE  CacheBetween'
    BY <1>c DEF CacheBetween
<1>1. CASE RaiseFlag
    BY <1>1, <1>c DEF RaiseFlag
<1>2. CASE SendShutdown
    BY <1>2, <1>c DEF SendShutdown
<1>3. CASE EnterTick
    BY <1>3, <1>c DEF EnterTick
<1>4. ASSUME NEW u \in Unit, Change(u) PROVE CacheBetween'
  <2>1. /\ live' = [live EXCEPT ![u] = @ + 1]
        /\ u \in User => u \in online
        /\ UNCHANGED <<online, saved_players, disk, unreadable>>
    BY <1>4 DEF Change
  <2>2. \A v \in Unit : /\ v # u => live'[v] = live[v]
                        /\ live[v] <= live'[v] /\ live'[v] \in Nat
    BY <1>0, <1>a, <2>1 DEF TypeOK
  <2>3. QED
    BY <1>a, <1>b, <2>1, <2>2, UnitFiles DEF CacheBetween
<1>5. ASSUME NEW u \in User, Join(u) PROVE CacheBetween'
  <2>1. live' = live
    BY <1>0, <1>5, UnitFiles DEF Join, TypeOK, CacheBetween
  <2>2. QED
    BY <1>5, <2>1 DEF Join, CacheBetween
<1>6. ASSUME NEW u \in User, Leave(u) PROVE CacheBetween'
  <2>1. /\ UNCHANGED <<live, disk, unreadable>>
        /\ saved_players' = [saved_players EXCEPT ![u] = live[u]]
        /\ online' = online \ {u}
    BY <1>6 DEF Leave
  <2>2. \A v \in User : saved_players'[v] = IF v = u THEN live[u] ELSE saved_players[v]
    BY <1>0, <2>1 DEF TypeOK
  <2>3. QED
    BY <1>a, <1>b, <2>1, <2>2, UnitFiles DEF CacheBetween
<1>7. CASE HandleShutdown
    BY <1>7, <1>c DEF HandleShutdown
<1>8. CASE Autosave
    BY <1>8, <1>c DEF Autosave
<1>9. CASE NoAutosave
    BY <1>9, <1>c DEF NoAutosave
<1>10. CASE TickMods
    BY <1>10, <1>c DEF TickMods
<1>11. CASE Flush
    BY <1>11, <1>c DEF Flush
<1>12. \* The cache is merged, and nothing written yet.
      ASSUME NEW f, UNCHANGED <<online, live, disk, unreadable>>,
             saved_players' = IF f = Players THEN Cache ELSE saved_players
      PROVE  CacheBetween'
  <2>1. ASSUME NEW u \in User
        PROVE  /\ saved_players'[u] <= live'[u]
               /\ u \notin online' => saved_players'[u] = live'[u]
               /\ Players \notin unreadable' => disk'[u] <= saved_players'[u]
    <3>1. /\ saved_players[u] <= Cache[u] /\ Cache[u] <= live[u]
          /\ u \notin online => Cache[u] = live[u]
      BY <1>0, CacheForward
    <3>2. /\ saved_players[u] <= live[u]
          /\ u \notin online => saved_players[u] = live[u]
          /\ Players \notin unreadable => disk[u] <= saved_players[u]
      BY DEF CacheBetween
    <3>3. disk[u] \in Nat /\ saved_players[u] \in Nat /\ Cache[u] \in 0..MaxVersion
      BY <1>0, <1>a, <1>b, WrittenTypes, UnitFiles
    <3>4. saved_players'[u] = saved_players[u] \/ saved_players'[u] = Cache[u]
      BY <1>12
    <3>5. CASE saved_players'[u] = saved_players[u]
      BY <1>12, <3>2, <3>5
    <3>6. CASE saved_players'[u] = Cache[u]
      BY <1>12, <3>1, <3>2, <3>3, <3>6
    <3>7. QED
      BY <3>4, <3>5, <3>6
  <2>2. \A u \in WorldUnit : u \notin unreadable' => disk'[u] <= live'[u]
    BY <1>12 DEF CacheBetween
  <2>3. QED
    BY <2>1, <2>2 DEF CacheBetween
<1>13. ASSUME NEW f \in File, Create(f) PROVE CacheBetween'
    BY <1>12, <1>13 DEF Create
<1>14. ASSUME NEW f \in File, Fill(f) PROVE CacheBetween'
    BY <1>14, <1>c DEF Fill
<1>15. ASSUME NEW f \in File, Rename(f) PROVE CacheBetween'
  <2>1. /\ UNCHANGED <<online, live, saved_players>>
        /\ disk' = Written(f) /\ unreadable' = unreadable \ {f}
        /\ pending # <<>> /\ f = Head(pending) /\ temporary # "none"
    BY <1>15 DEF Rename, Writes
  <2>2. f = Players => saved_players = Cache
    BY <2>1 DEF CacheBegun
  <2>3. \A u \in User : disk'[u] = IF f = Players THEN saved_players[u] ELSE disk[u]
    BY <2>1, <2>2, UnitFiles DEF Written
  <2>4. \A u \in WorldUnit : disk'[u] = IF f = u THEN live[u] ELSE disk[u]
    BY <2>1, UnitFiles DEF Written
  <2>5. QED
    BY <1>a, <1>b, <2>1, <2>3, <2>4, UnitFiles DEF CacheBetween
<1>16. ASSUME NEW f \in File, Refused(f) PROVE CacheBetween'
    BY <1>12, <1>16 DEF Refused
<1>17. CASE SaveDone
    BY <1>17, <1>c DEF SaveDone
<1>18. ASSUME NEW lost \in SUBSET File, Restart(lost) PROVE CacheBetween'
  <2>1. PICK chests \in Salvaged(lost) : live' = Loaded(lost, chests)
    BY <1>18 DEF Restart
  <2>2. saved_players' = [u \in User |-> live'[u]] /\ unreadable' = lost /\ disk' = disk
    BY <1>18 DEF Restart
  <2>3. \A u \in Unit : live'[u] \in Nat /\ (FileOf(u) \notin lost => live'[u] = disk[u])
    BY <1>0, <2>1, LoadedTypes
  <2>4. QED
    BY <1>a, <2>2, <2>3, UnitFiles DEF CacheBetween
<1>19. CASE UNCHANGED vars
    BY <1>19, <1>c DEF vars
<1>20. QED
    BY <1>1, <1>2, <1>3, <1>4, <1>5, <1>6, <1>7, <1>8, <1>9, <1>10, <1>11, <1>13,
       <1>14, <1>15, <1>16, <1>17, <1>18, <1>19 DEF Next

\* What has been merged stays what will be written until the file is done.
LEMMA NextCacheBegun == Basics /\ CacheBetween /\ CacheBegun /\ [Next]_vars => CacheBegun'
<1> SUFFICES ASSUME Basics, CacheBetween, CacheBegun, [Next]_vars PROVE CacheBegun'
    OBVIOUS
<1> USE DEF memory, saving, faults
<1>0. TypeOK /\ SavesInPhase
    BY DEF Basics
<1>a. pending = <<>> => temporary = "none"
    BY <1>0 DEF SavesInPhase
<1>b. \* Outside of a save no file is begun.
      phase # "saving" => temporary = "none"
    BY <1>0, <1>a DEF SavesInPhase
<1>c. ASSUME temporary' = "none" PROVE CacheBegun'
    BY <1>c DEF CacheBegun
<1>d. ASSUME UNCHANGED <<memory, pending, cause, temporary>> PROVE CacheBegun'
    BY <1>d DEF CacheBegun, Cache, Merged
<1>1. CASE RaiseFlag
    BY <1>1, <1>d DEF RaiseFlag
<1>2. CASE SendShutdown
    BY <1>2, <1>d DEF SendShutdown
<1>3. CASE EnterTick
    BY <1>3, <1>d DEF EnterTick
<1>4. ASSUME NEW u \in Unit, Change(u) PROVE CacheBegun'
    BY <1>4, <1>b, <1>c DEF Change
<1>5. ASSUME NEW u \in User, Join(u) PROVE CacheBegun'
    BY <1>5, <1>b, <1>c DEF Join
<1>6. ASSUME NEW u \in User, Leave(u) PROVE CacheBegun'
    BY <1>6, <1>b, <1>c DEF Leave, BeginSave
<1>7. CASE HandleShutdown
    BY <1>7, <1>b, <1>c DEF HandleShutdown, BeginSave
<1>8. CASE Autosave
    BY <1>8, <1>b, <1>c DEF Autosave, BeginSave
<1>9. CASE NoAutosave
    BY <1>9, <1>d DEF NoAutosave
<1>10. CASE TickMods
    BY <1>10, <1>d DEF TickMods
<1>11. CASE Flush
    BY <1>11, <1>b, <1>c DEF Flush, BeginSave
<1>12. ASSUME NEW f \in File, Create(f) PROVE CacheBegun'
  <2>1. /\ UNCHANGED <<online, live, pending, cause>>
        /\ f = Head(pending) /\ saved_players' = IF f = Players THEN Cache ELSE saved_players
    BY <1>12 DEF Create, Writes
  <2>2. f = Players => saved_players' = Cache /\ Cache' = Cache
    BY <1>0, <2>1, CacheStable
  <2>3. QED
    BY <2>1, <2>2 DEF CacheBegun
<1>13. ASSUME NEW f \in File, Fill(f) PROVE CacheBegun'
  <2>1. /\ UNCHANGED <<online, live, saved_players, pending, cause>>
        /\ temporary = "created"
    BY <1>13 DEF Fill, Writes
  <2>2. Cache' = Cache
    BY <2>1 DEF Cache, Merged
  <2>3. QED
    BY <2>1, <2>2 DEF CacheBegun
<1>14. ASSUME NEW f \in File, Rename(f) PROVE CacheBegun'
    BY <1>14, <1>c DEF Rename
<1>15. ASSUME NEW f \in File, Refused(f) PROVE CacheBegun'
    BY <1>15, <1>c DEF Refused
<1>16. CASE SaveDone
    BY <1>16, <1>d DEF SaveDone
<1>17. ASSUME NEW lost \in SUBSET File, Restart(lost) PROVE CacheBegun'
    BY <1>17, <1>c DEF Restart
<1>18. CASE UNCHANGED vars
    BY <1>18, <1>d DEF vars
<1>19. QED
    BY <1>1, <1>2, <1>3, <1>4, <1>5, <1>6, <1>7, <1>8, <1>9, <1>10, <1>11, <1>12, <1>13,
       <1>14, <1>15, <1>16, <1>17, <1>18 DEF Next

-----------------------------------------------------------------------------
(* What is behind on disk *)

\* Of the list a complete save starts from, every unit is covered.
LEMMA SaveBegins ==
    ASSUME Basics,
           \/ UNCHANGED <<disk, live, failed, unreadable>> /\ phase' = "saving"
              /\ cause' \in {"message", "autosave"} /\ pending' = BlockFiles \o <<Chests, Players>>
           \/ UNCHANGED <<disk, live, failed, unreadable>> /\ phase' = "saving"
              /\ cause' = "flag" /\ pending' = BlockFiles \o <<Players>>
    PROVE  SaveCovers'
<1>1. ASSUME NEW u \in Unit
      PROVE  Pends(FileOf(u))' \/ (u = Chests /\ cause' = "flag")
  <2>1. FileOf(u) \in File /\ (FileOf(u) = Chests => u = Chests)
    BY UnitFiles DEF FileOf, Players, Chests
  <2>2. (\E i \in 1..Len(pending') : pending'[i] = FileOf(u)) \/ (u = Chests /\ cause' = "flag")
    BY <2>1, FileLists
  <2>3. QED
    BY <2>2 DEF Pends, FileOf
<1>2. QED
    BY <1>1 DEF SaveCovers

\* A complete save leaves no unit out.
LEMMA NextSaveCovers == Basics /\ CacheBetween /\ SaveCovers /\ [Next]_vars => SaveCovers'
<1> SUFFICES ASSUME Basics, CacheBetween, SaveCovers, [Next]_vars PROVE SaveCovers'
    OBVIOUS
<1> USE DEF memory, saving, faults
<1>0. TypeOK /\ SavesInPhase
    BY DEF Basics
<1>a. ASSUME phase' # "saving" PROVE SaveCovers'
    BY <1>a DEF SaveCovers
<1>b. ASSUME UNCHANGED <<phase, live, disk, pending, cause, failed, unreadable>>
      PROVE  SaveCovers'
    BY <1>b DEF SaveCovers, Behind, Pends
<1>1. CASE RaiseFlag
    BY <1>1, <1>b DEF RaiseFlag
<1>2. CASE SendShutdown
    BY <1>2, <1>b DEF SendShutdown
<1>3. CASE EnterTick
    BY <1>3, <1>a DEF EnterTick
<1>4. ASSUME NEW u \in Unit, Change(u) PROVE SaveCovers'
    BY <1>4, <1>a DEF Change
<1>5. ASSUME NEW u \in User, Join(u) PROVE SaveCovers'
    BY <1>5, <1>a DEF Join
<1>6. ASSUME NEW u \in User, Leave(u) PROVE SaveCovers'
    BY <1>6 DEF Leave, BeginSave, SaveCovers
<1>7. CASE HandleShutdown
    BY <1>7, SaveBegins DEF HandleShutdown, BeginSave
<1>8. CASE Autosave
    BY <1>8, SaveBegins DEF Autosave, BeginSave
<1>9. CASE NoAutosave
    BY <1>9, <1>a DEF NoAutosave
<1>10. CASE TickMods
    BY <1>10, <1>a DEF TickMods
<1>11. CASE Flush
    BY <1>11, SaveBegins DEF Flush, BeginSave
<1>12. ASSUME NEW f \in File, Create(f) PROVE SaveCovers'
    BY <1>12, <1>b DEF Create
<1>13. ASSUME NEW f \in File, Fill(f) PROVE SaveCovers'
    BY <1>13, <1>b DEF Fill
<1>14. \* A unit whose file is not the first is still to be written.
       ASSUME NEW u \in Unit, Pends(FileOf(u)), FileOf(u) # Head(pending),
              pending # <<>>, pending' = Tail(pending)
       PROVE  Pends(FileOf(u))'
  <2>1. pending \in Seq(File)
    BY <1>0 DEF TypeOK
  <2>2. \E i \in 1..Len(Tail(pending)) : Tail(pending)[i] = FileOf(u)
    BY <1>14, <2>1, NextFile DEF Pends
  <2>3. QED
    BY <1>14, <2>2 DEF Pends, FileOf
<1>15. ASSUME NEW f \in File, Rename(f) PROVE SaveCovers'
  <2>1. /\ phase = "saving" /\ f = Head(pending) /\ pending # <<>> /\ pending' = Tail(pending)
        /\ disk' = Written(f) /\ unreadable' = unreadable \ {f}
        /\ UNCHANGED <<phase, live, cause>>
    BY <1>15 DEF Rename, Writes
  <2>2. SUFFICES ASSUME NEW u \in Unit, u \notin failed', cause # "leave"
                 PROVE  \/ ~Behind(u)' \/ Pends(FileOf(u))'
                        \/ u = Chests /\ cause' = "flag"
    BY <2>1 DEF SaveCovers
  <2>3. CASE FileOf(u) = f
    <3>1. disk'[u] = IF u \in User THEN Cache[u] ELSE live[u]
      BY <2>1, <2>3 DEF Written
    <3>2. disk'[u] = live[u]
      BY <1>0, <2>2, <3>1, CacheForward
    <3>3. FileOf(u)' = f /\ FileOf(u)' \notin unreadable'
      BY <2>1, <2>3 DEF FileOf
    <3>4. QED
      BY <2>1, <3>2, <3>3 DEF Behind
  <2>4. CASE FileOf(u) # f
    <3>1. disk'[u] = disk[u] /\ (FileOf(u) \in unreadable' <=> FileOf(u) \in unreadable)
      BY <2>1, <2>4 DEF Written
    <3>2. u \notin failed
      BY <1>15, <2>2, <2>4 DEF Rename
    <3>3. ~Behind(u) \/ Pends(FileOf(u)) \/ (u = Chests /\ cause = "flag")
      BY <2>1, <2>2, <3>2 DEF SaveCovers
    <3>4. CASE ~Behind(u)
      BY <2>1, <3>1, <3>4 DEF Behind, FileOf
    <3>5. CASE Pends(FileOf(u))
      BY <1>14, <2>1, <2>4, <3>5
    <3>6. QED
      BY <2>1, <3>3, <3>4, <3>5
  <2>5. QED
    BY <2>3, <2>4
<1>16. ASSUME NEW f \in File, Refused(f) PROVE SaveCovers'
  <2>1. /\ phase = "saving" /\ f = Head(pending) /\ pending # <<>> /\ pending' = Tail(pending)
        /\ UNCHANGED <<phase, live, disk, unreadable, cause>>
        /\ failed' = failed \cup {u \in Unit : FileOf(u) = f}
    BY <1>16 DEF Refused, Writes
  <2>2. SUFFICES ASSUME NEW u \in Unit, u \notin failed', cause # "leave"
                 PROVE  \/ ~Behind(u)' \/ Pends(FileOf(u))'
                        \/ u = Chests /\ cause' = "flag"
    BY <2>1 DEF SaveCovers
  <2>3. FileOf(u) # f /\ u \notin failed
    BY <2>1, <2>2
  <2>4. ~Behind(u) \/ Pends(FileOf(u)) \/ (u = Chests /\ cause = "flag")
    BY <2>1, <2>2, <2>3 DEF SaveCovers
  <2>5. CASE ~Behind(u)
    BY <2>1, <2>5 DEF Behind, FileOf
  <2>6. CASE Pends(FileOf(u))
    <3>1. FileOf(u) # Head(pending)
      BY <2>1, <2>3
    <3>2. QED
      BY <1>14, <2>1, <2>6, <3>1
  <2>7. QED
    BY <2>1, <2>4, <2>5, <2>6
<1>17. CASE SaveDone
    BY <1>17, <1>a DEF SaveDone
<1>18. ASSUME NEW lost \in SUBSET File, Restart(lost) PROVE SaveCovers'
    BY <1>18, <1>a DEF Restart
<1>19. CASE UNCHANGED vars
    BY <1>19, <1>b DEF vars
<1>20. QED
    BY <1>1, <1>2, <1>3, <1>4, <1>5, <1>6, <1>7, <1>8, <1>9, <1>10, <1>11, <1>12, <1>13,
       <1>15, <1>16, <1>17, <1>18, <1>19 DEF Next

\* At the end of a complete save nothing is behind but what the disk refused.
LEMMA NothingLeft ==
    ASSUME SaveCovers, phase = "saving", pending = <<>>, cause # "leave",
           NEW u \in Unit \ failed, u # Chests \/ cause # "flag"
    PROVE  disk[u] = live[u] /\ FileOf(u) \notin unreadable
<1>1. ~Pends(FileOf(u))
    BY DEF Pends
<1>2. QED
    BY <1>1 DEF SaveCovers, Behind

\* What could not be loaded is replaced at the first autosave.
LEMMA NextUnreadableYoung ==
    Basics /\ SaveCovers /\ UnreadableYoung /\ [Next]_vars => UnreadableYoung'
<1> SUFFICES ASSUME Basics, SaveCovers, UnreadableYoung, [Next]_vars PROVE UnreadableYoung'
    OBVIOUS
<1> USE DEF clock, faults
<1>a. ASSUME UNCHANGED <<last_autosave_tick, failed, unreadable>> PROVE UnreadableYoung'
    BY <1>a DEF UnreadableYoung, FileOf
<1>1. ASSUME RaiseFlag \/ SendShutdown \/ EnterTick \/ HandleShutdown \/ Autosave \/ NoAutosave
             \/ TickMods \/ Flush \/ UNCHANGED vars
      PROVE  UnreadableYoung'
    BY <1>1, <1>a DEF RaiseFlag, SendShutdown, EnterTick, HandleShutdown, Autosave, NoAutosave,
                      TickMods, Flush, vars
<1>2. ASSUME NEW u \in Unit, Change(u) PROVE UnreadableYoung'
    BY <1>2, <1>a DEF Change
<1>3. ASSUME NEW u \in User, Join(u) \/ Leave(u) PROVE UnreadableYoung'
    BY <1>3, <1>a DEF Join, Leave
<1>4. ASSUME NEW f \in File, Create(f) \/ Fill(f) PROVE UnreadableYoung'
    BY <1>4, <1>a DEF Create, Fill
<1>5. ASSUME NEW f \in File, Rename(f) PROVE UnreadableYoung'
  <2>1. /\ failed' = {u \in failed : FileOf(u) = f => Written(f)[u] # live[u]}
        /\ unreadable' = unreadable \ {f} /\ UNCHANGED last_autosave_tick
    BY <1>5 DEF Rename
  <2>2. QED
    BY <2>1 DEF UnreadableYoung, FileOf
<1>6. ASSUME NEW f \in File, Refused(f) PROVE UnreadableYoung'
    BY <1>6 DEF Refused, UnreadableYoung, FileOf
<1>7. CASE SaveDone
  <2>1. UNCHANGED <<failed, unreadable>> /\ phase = "saving" /\ pending = <<>>
    BY <1>7 DEF SaveDone
  <2>2. CASE cause = "autosave"
    <3>1. \A u \in Unit \ failed : FileOf(u) \notin unreadable
      BY <2>1, <2>2, NothingLeft
    <3>2. QED
      BY <2>1, <3>1 DEF UnreadableYoung, FileOf
  <2>3. CASE cause # "autosave"
    BY <1>7, <1>a, <2>1, <2>3 DEF SaveDone
  <2>4. QED
    BY <2>2, <2>3
<1>8. ASSUME NEW lost \in SUBSET File, Restart(lost) PROVE UnreadableYoung'
    BY <1>8 DEF Restart, UnreadableYoung
<1>9. QED
    BY <1>1, <1>2, <1>3, <1>4, <1>5, <1>6, <1>7, <1>8 DEF Next

\* What is behind has become so after the last autosave.
LEMMA NextBehindSince ==
    Basics /\ CacheBetween /\ CacheBegun /\ SaveCovers /\ UnreadableYoung /\ BehindSince
    /\ [Next]_vars => BehindSince'
<1> SUFFICES ASSUME Basics, CacheBetween, CacheBegun, SaveCovers, UnreadableYoung, BehindSince,
                    [Next]_vars
             PROVE  BehindSince'
    OBVIOUS
<1> USE DEF clock, memory, faults
<1>0. TypeOK /\ SavesInPhase
    BY DEF Basics
<1>a. ASSUME UNCHANGED <<last_autosave_tick, live, disk, since>>, failed \subseteq failed'
      PROVE  BehindSince'
    BY <1>a DEF BehindSince
<1>b. /\ last_autosave_tick \in Nat /\ tick_count \in Nat /\ last_autosave_tick <= tick_count
      /\ \A u \in Unit : since[u] \in Nat /\ live[u] \in Nat /\ disk[u] \in Nat
      /\ \A u \in User : saved_players[u] \in Nat
    BY <1>0, ConstantsAssumption DEF TypeOK
<1>1. ASSUME RaiseFlag \/ SendShutdown \/ EnterTick \/ HandleShutdown \/ Autosave \/ NoAutosave
             \/ TickMods \/ Flush \/ UNCHANGED vars
      PROVE  BehindSince'
    BY <1>1, <1>a DEF RaiseFlag, SendShutdown, EnterTick, HandleShutdown, Autosave, NoAutosave,
                      TickMods, Flush, vars
<1>2. ASSUME NEW u \in Unit, Change(u) PROVE BehindSince'
  <2>1. /\ UNCHANGED <<last_autosave_tick, disk, failed>>
        /\ live' = [live EXCEPT ![u] = @ + 1]
        /\ since' = [since EXCEPT ![u] = IF live[u] = disk[u] THEN tick_count ELSE @]
    BY <1>2 DEF Change
  <2>2. ASSUME NEW v \in Unit \ failed', live'[v] # disk'[v]
        PROVE  since'[v] >= last_autosave_tick'
    <3>1. CASE v # u
      <4>1. live'[v] = live[v] /\ since'[v] = since[v]
        BY <1>0, <2>1, <3>1 DEF TypeOK
      <4>2. QED
        BY <2>1, <2>2, <4>1 DEF BehindSince
    <3>2. CASE v = u
      <4>1. since'[u] = IF live[u] = disk[u] THEN tick_count ELSE since[u]
        BY <1>0, <2>1 DEF TypeOK
      <4>2. QED
        BY <1>b, <2>1, <2>2, <3>2, <4>1 DEF BehindSince
    <3>3. QED
      BY <3>1, <3>2
  <2>3. QED
    BY <2>2 DEF BehindSince
<1>3. ASSUME NEW u \in User, Join(u) PROVE BehindSince'
  <2>1. live' = live
    BY <1>0, <1>3, UnitFiles DEF Join, TypeOK, CacheBetween
  <2>2. QED
    BY <1>3, <1>a, <2>1 DEF Join
<1>4. ASSUME NEW u \in User, Leave(u) PROVE BehindSince'
    BY <1>4, <1>a DEF Leave
<1>5. ASSUME NEW f \in File, Create(f) \/ Fill(f) PROVE BehindSince'
    BY <1>5, <1>a DEF Create, Fill
<1>6. ASSUME NEW f \in File, Rename(f) PROVE BehindSince'
  <2>1. /\ f = Head(pending) /\ pending # <<>> /\ temporary # "none" /\ disk' = Written(f)
        /\ failed' = {u \in failed : FileOf(u) = f => Written(f)[u] # live[u]}
        /\ since' = [u \in Unit |-> IF Written(f)[u] = live[u] THEN 0 ELSE since[u]]
        /\ UNCHANGED <<live, last_autosave_tick>>
    BY <1>6 DEF Rename, Writes
  <2>2. SUFFICES ASSUME NEW u \in Unit \ failed', Written(f)[u] # live[u]
                 PROVE  since[u] >= last_autosave_tick
    BY <2>1 DEF BehindSince
  <2>3. u \notin failed
    BY <2>1, <2>2
  <2>4. CASE live[u] # disk[u]
    BY <2>3, <2>4 DEF BehindSince
  <2>5. CASE live[u] = disk[u]
    <3>1. FileOf(u) = f /\ u \in User /\ Cache[u] # live[u]
      BY <2>2, <2>5 DEF Written
    <3>2. f = Players /\ saved_players = Cache
      BY <2>1, <3>1, UnitFiles DEF CacheBegun
    <3>3. saved_players[u] <= live[u] /\ saved_players[u] # live[u]
      BY <3>1, <3>2 DEF CacheBetween
    <3>4. ~(disk[u] <= saved_players[u])
      BY <1>b, <2>5, <3>1, <3>3
    <3>5. Players \in unreadable
      BY <3>1, <3>4 DEF CacheBetween
    <3>6. last_autosave_tick = 0
      BY <2>2, <2>3, <3>1, <3>2, <3>5 DEF UnreadableYoung
    <3>7. QED
      BY <1>b, <3>6
  <2>6. QED
    BY <2>4, <2>5
<1>7. ASSUME NEW f \in File, Refused(f) PROVE BehindSince'
    BY <1>7, <1>a DEF Refused
<1>8. CASE SaveDone
  <2>1. UNCHANGED <<live, disk, failed, since>> /\ phase = "saving" /\ pending = <<>>
    BY <1>8 DEF SaveDone
  <2>2. CASE cause = "autosave"
    <3>1. \A u \in Unit \ failed : disk[u] = live[u]
      BY <2>1, <2>2, NothingLeft
    <3>2. QED
      BY <2>1, <3>1 DEF BehindSince
  <2>3. CASE cause # "autosave"
    BY <1>8, <1>a, <2>1, <2>3 DEF SaveDone
  <2>4. QED
    BY <2>2, <2>3
<1>9. ASSUME NEW lost \in SUBSET File, Restart(lost) PROVE BehindSince'
    BY <1>9 DEF Restart, BehindSince
<1>10. QED
    BY <1>1, <1>2, <1>3, <1>4, <1>5, <1>6, <1>7, <1>8, <1>9 DEF Next

\* Who has left is in the file.
LEMMA NextLeaverOnDisk ==
    Basics /\ CacheBetween /\ CacheBegun /\ LeaverOnDisk /\ [Next]_vars => LeaverOnDisk'
<1> SUFFICES ASSUME Basics, CacheBetween, CacheBegun, LeaverOnDisk, [Next]_vars
             PROVE  LeaverOnDisk'
    OBVIOUS
<1> USE DEF memory, saving, faults
<1>0. TypeOK /\ SavesInPhase
    BY DEF Basics
<1>a. ASSUME UNCHANGED <<online, live, disk, pending, cause, unreadable>>, failed \subseteq failed'
      PROVE  LeaverOnDisk'
    BY <1>a DEF LeaverOnDisk
<1>b. \* Of a save at a leave that has ended, nothing is still to come.
      ASSUME UNCHANGED <<online, live, disk, failed, unreadable>>, pending = <<>>
      PROVE  LeaverOnDisk'
    BY <1>b DEF LeaverOnDisk
<1>c. phase # "saving" => pending = <<>>
    BY <1>0 DEF SavesInPhase
<1>1. ASSUME RaiseFlag \/ SendShutdown \/ EnterTick \/ NoAutosave \/ TickMods \/ UNCHANGED vars
      PROVE  LeaverOnDisk'
    BY <1>1, <1>a DEF RaiseFlag, SendShutdown, EnterTick, NoAutosave, TickMods, vars
<1>2. ASSUME HandleShutdown \/ Autosave \/ Flush PROVE LeaverOnDisk'
    BY <1>2, <1>b, <1>c DEF HandleShutdown, Autosave, Flush
<1>3. ASSUME NEW u \in Unit, Change(u) PROVE LeaverOnDisk'
  <2>1. /\ live' = [live EXCEPT ![u] = @ + 1] /\ (u \in User => u \in online)
        /\ UNCHANGED <<online, disk, pending, cause, failed, unreadable>>
    BY <1>3 DEF Change
  <2>2. \A v \in User \ online : live'[v] = live[v]
    BY <1>0, <2>1, UnitFiles DEF TypeOK
  <2>3. QED
    BY <2>1, <2>2 DEF LeaverOnDisk
<1>4. ASSUME NEW u \in User, Join(u) PROVE LeaverOnDisk'
  <2>1. live' = live
    BY <1>0, <1>4, UnitFiles DEF Join, TypeOK, CacheBetween
  <2>2. QED
    BY <1>4, <2>1 DEF Join, LeaverOnDisk
<1>5. ASSUME NEW u \in User, Leave(u) PROVE LeaverOnDisk'
  <2>1. cause' = "leave" /\ pending' = <<Players>> /\ <<Players>> # <<>>
    BY <1>5 DEF Leave, BeginSave
  <2>2. QED
    BY <2>1 DEF LeaverOnDisk
<1>6. ASSUME NEW f \in File, Create(f) \/ Fill(f) PROVE LeaverOnDisk'
    BY <1>6, <1>a DEF Create, Fill
<1>7. \* A save at a leave writes the players' file alone.
      ASSUME NEW f, f = Head(pending), pending # <<>>, phase = "saving", f # Players
      PROVE  cause # "leave"
    BY <1>0, <1>7 DEF SavesInPhase
<1>8. ASSUME NEW f \in File, Rename(f) PROVE LeaverOnDisk'
  <2>1. /\ phase = "saving" /\ f = Head(pending) /\ pending # <<>> /\ temporary # "none"
        /\ disk' = Written(f) /\ unreadable' = unreadable \ {f}
        /\ failed' = {u \in failed : FileOf(u) = f => Written(f)[u] # live[u]}
        /\ UNCHANGED <<online, live, cause>>
    BY <1>8 DEF Rename, Writes
  <2>2. CASE f = Players
    <3>1. saved_players = Cache
      BY <2>1, <2>2 DEF CacheBegun
    <3>2. \A u \in User \ online : disk'[u] = live[u]
      BY <2>1, <2>2, <3>1, UnitFiles DEF Written, CacheBetween
    <3>3. QED
      BY <2>1, <3>2 DEF LeaverOnDisk
  <2>3. CASE f # Players
    <3>1. \A u \in User : disk'[u] = disk[u] /\ (u \in failed => u \in failed')
      BY <2>1, <2>3, UnitFiles DEF Written
    <3>2. cause # "leave"
      BY <1>7, <2>1, <2>3
    <3>3. QED
      BY <2>1, <2>3, <3>1, <3>2 DEF LeaverOnDisk
  <2>4. QED
    BY <2>2, <2>3
<1>9. ASSUME NEW f \in File, Refused(f) PROVE LeaverOnDisk'
  <2>1. /\ phase = "saving" /\ f = Head(pending) /\ pending # <<>>
        /\ failed' = failed \cup {u \in Unit : FileOf(u) = f}
        /\ UNCHANGED <<online, live, disk, cause, unreadable>>
    BY <1>9 DEF Refused, Writes
  <2>2. CASE f = Players
    BY <2>1, <2>2, UnitFiles DEF LeaverOnDisk
  <2>3. CASE f # Players
    BY <1>7, <2>1, <2>3 DEF LeaverOnDisk
  <2>4. QED
    BY <2>2, <2>3
<1>10. CASE SaveDone
    BY <1>10, <1>b DEF SaveDone
<1>11. ASSUME NEW lost \in SUBSET File, Restart(lost) PROVE LeaverOnDisk'
  <2>1. PICK chests \in Salvaged(lost) : live' = Loaded(lost, chests)
    BY <1>11 DEF Restart
  <2>2. disk' = disk /\ unreadable' = lost
    BY <1>11 DEF Restart
  <2>3. \A u \in User : Players \notin lost => live'[u] = disk[u]
    BY <1>0, <2>1, LoadedTypes
  <2>4. QED
    BY <2>2, <2>3 DEF LeaverOnDisk
<1>12. QED
    BY <1>1, <1>2, <1>3, <1>4, <1>5, <1>6, <1>8, <1>9, <1>10, <1>11 DEF Next

\* The save before the end was complete.
LEMMA NextStopSaves == Basics /\ SaveCovers /\ StopSaves /\ [Next]_vars => StopSaves'
<1> SUFFICES ASSUME Basics, SaveCovers, StopSaves, [Next]_vars PROVE StopSaves'
    OBVIOUS
<1> USE DEF memory, saving, faults
<1>0. TypeOK /\ SavesInPhase
    BY DEF Basics
<1>a. ASSUME phase' # "stopped" PROVE StopSaves'
    BY <1>a DEF StopSaves
<1>1. ASSUME RaiseFlag \/ SendShutdown \/ EnterTick \/ HandleShutdown \/ Autosave \/ NoAutosave
             \/ TickMods \/ Flush
      PROVE  StopSaves'
    BY <1>1, <1>a DEF RaiseFlag, SendShutdown, EnterTick, HandleShutdown, Autosave, NoAutosave,
                      TickMods, Flush, BeginSave
<1>2. ASSUME NEW u \in Unit, Change(u) PROVE StopSaves'
    BY <1>2, <1>a DEF Change
<1>3. ASSUME NEW u \in User, Join(u) \/ Leave(u) PROVE StopSaves'
    BY <1>3, <1>a DEF Join, Leave, BeginSave
<1>4. ASSUME NEW f \in File, Create(f) \/ Fill(f) \/ Rename(f) \/ Refused(f) PROVE StopSaves'
    BY <1>4, <1>a DEF Create, Fill, Rename, Refused, Writes
<1>5. CASE SaveDone
  <2>1. /\ UNCHANGED <<live, disk, failed, cause>> /\ phase = "saving" /\ pending = <<>>
        /\ mods_notified' = (cause = "flag")
        /\ phase' = "stopped" => cause # "leave" /\ cause \in {"none", "message", "flag"}
    BY <1>0, <1>5 DEF SaveDone, TypeOK
  <2>2. ASSUME NEW u \in Unit \ failed, phase' = "stopped", u # Chests \/ cause = "message"
        PROVE  disk[u] = live[u]
    BY <1>0, <2>1, <2>2, NothingLeft DEF SavesInPhase
  <2>3. QED
    BY <2>1, <2>2 DEF StopSaves
<1>6. ASSUME NEW lost \in SUBSET File, Restart(lost) PROVE StopSaves'
    BY <1>6, <1>a DEF Restart
<1>7. CASE UNCHANGED vars
    BY <1>7 DEF vars, StopSaves
<1>8. QED
    BY <1>1, <1>2, <1>3, <1>4, <1>5, <1>6, <1>7 DEF Next

-----------------------------------------------------------------------------
(* The theorems *)

\* The invariant holds before the first step.
LEMMA InitInvariant == Init => IInv
<1> SUFFICES ASSUME Init PROVE IInv
    OBVIOUS
<1> USE ConstantsAssumption DEF Init
<1>1. \A u \in User : u \in Unit
    BY UnitFiles
<1>2. CacheBetween /\ CacheBegun
    BY <1>1, UnitFiles DEF CacheBetween, CacheBegun
<1>3. SaveCovers /\ UnreadableYoung /\ BehindSince
    BY DEF SaveCovers, UnreadableYoung, BehindSince
<1>4. LeaverOnDisk /\ StopSaves
    BY <1>1 DEF LeaverOnDisk, StopSaves
<1>5. QED
    BY <1>2, <1>3, <1>4, InitBasics DEF IInv, Basics

\* Every step keeps it.
LEMMA NextInvariant == IInv /\ [Next]_vars => IInv'
<1> SUFFICES ASSUME IInv, [Next]_vars PROVE IInv'
    OBVIOUS
<1>1. /\ Basics /\ CacheBetween /\ CacheBegun /\ SaveCovers /\ UnreadableYoung /\ BehindSince
      /\ LeaverOnDisk /\ StopSaves
    BY DEF IInv, Basics
<1>2. Basics'
    BY <1>1, NextBasics
<1>3. CacheBetween' /\ CacheBegun'
    BY <1>1, NextCacheBetween, NextCacheBegun
<1>4. SaveCovers' /\ UnreadableYoung' /\ BehindSince'
    BY <1>1, NextSaveCovers, NextUnreadableYoung, NextBehindSince
<1>5. LeaverOnDisk' /\ StopSaves'
    BY <1>1, NextLeaverOnDisk, NextStopSaves
<1>6. QED
    BY <1>2, <1>3, <1>4, <1>5 DEF IInv, Basics

LEMMA Invariance == Spec => []IInv
BY InitInvariant, NextInvariant, PTL DEF Spec

\* Once a player's leave has been handled, their data is in the file, whatever
\* happens to the process then, unless the disk refused it.  (tick.rs:1158-1163)
THEOREM LeaverAlwaysOnDisk == Spec => []LeaverOnDisk
<1>1. IInv => LeaverOnDisk
    BY DEF IInv
<1>2. QED
    BY <1>1, Invariance, PTL

\* Each of the two ways to stop saves what it is meant to save.
\* (tick.rs:1171-1191, 2052-2066)
THEOREM StopAlwaysSaves == Spec => []StopSaves
<1>1. IInv => StopSaves
    BY DEF IInv
<1>2. QED
    BY <1>1, Invariance, PTL

\* No change is lost that is older than the autosave interval, for every
\* interval, unless the disk refused a write.  (tick.rs:1993-2007)
THEOREM AutosaveAlwaysBoundsLoss == Spec => []AutosaveBoundsLoss
<1>1. IInv => AutosaveBoundsLoss
  <2> SUFFICES ASSUME IInv, AutosaveInterval > 0, NEW u \in Unit \ failed, live[u] # disk[u]
               PROVE  tick_count - since[u] <= AutosaveInterval
    BY DEF AutosaveBoundsLoss
  <2>1. tick_count \in Nat /\ last_autosave_tick \in Nat /\ since[u] \in Nat
    BY ConstantsAssumption DEF IInv, TypeOK
  <2>2. since[u] >= last_autosave_tick
    BY DEF IInv, BehindSince
  <2>3. tick_count - last_autosave_tick <= AutosaveInterval
    BY DEF IInv, ClockInPhase
  <2>4. QED
    BY <2>1, <2>2, <2>3, ConstantsAssumption
<1>2. QED
    BY <1>1, Invariance, PTL

\* What a rename puts on disk is no older than what was there.
LEMMA RenameForward ==
    ASSUME IInv, NEW f \in File, Rename(f), NEW u \in Unit
    PROVE  /\ disk'[u] <= live[u] \/ FileOf(u) # f
           /\ disk'[u] = disk[u] \/ FileOf(u) = f
           /\ FileOf(u) \notin unreadable => disk[u] <= disk'[u]
<1>1. /\ f = Head(pending) /\ pending # <<>> /\ temporary # "none" /\ disk' = Written(f)
    BY DEF Rename, Writes
<1>2. TypeOK /\ CacheBetween /\ CacheBegun
    BY DEF IInv
<1>3. live[u] \in Nat /\ disk[u] \in Nat
    BY <1>2, ConstantsAssumption DEF TypeOK
<1>4. CASE FileOf(u) # f
    BY <1>1, <1>3, <1>4 DEF Written
<1>5. CASE FileOf(u) = f /\ u \in User
  <2>1. f = Players /\ saved_players = Cache
    BY <1>1, <1>2, <1>5, UnitFiles DEF CacheBegun
  <2>2. disk'[u] = saved_players[u]
    BY <1>1, <1>5, <2>1 DEF Written
  <2>3. QED
    BY <1>2, <1>5, <2>1, <2>2 DEF CacheBetween
<1>6. CASE FileOf(u) = f /\ u \notin User
  <2>1. u \in WorldUnit /\ FileOf(u) = u
    BY <1>6, UnitFiles
  <2>2. disk'[u] = live[u]
    BY <1>1, <1>6 DEF Written
  <2>3. u \notin unreadable => disk[u] <= live[u]
    BY <1>2, <2>1 DEF CacheBetween
  <2>4. QED
    BY <1>3, <1>6, <2>1, <2>2, <2>3
<1>7. QED
    BY <1>4, <1>5, <1>6

\* No save takes back what an earlier one had put on disk, in this process or
\* the one before a crash.  (world.rs:1003-1030)
THEOREM DiskNeverGoesBack == Spec => DiskNeverRegresses
<1> DEFINE Forwards == \A u \in Unit : FileOf(u) \notin unreadable => disk'[u] >= disk[u]
<1>1. IInv /\ [Next]_vars => [Forwards]_vars
  <2> SUFFICES ASSUME IInv, Next PROVE Forwards
    OBVIOUS
  <2>0. \A u \in Unit : disk[u] \in Nat
    BY ConstantsAssumption DEF IInv, TypeOK
  <2>1. ASSUME disk' = disk PROVE Forwards
    BY <2>0, <2>1
  <2>2. ASSUME NEW f \in File, Rename(f) PROVE Forwards
    <3>1. disk' \in [Unit -> 0..MaxVersion]
      BY <2>2, WrittenTypes DEF Rename, IInv
    <3>2. ASSUME NEW u \in Unit, FileOf(u) \notin unreadable PROVE disk'[u] >= disk[u]
      <4>1. disk[u] <= disk'[u]
        BY <2>2, <3>2, RenameForward
      <4>2. QED
        BY <2>0, <3>1, <4>1, ConstantsAssumption
    <3>3. QED
      BY <3>2
  <2>3. ASSUME ~\E f \in File : Rename(f) PROVE disk' = disk
    BY <2>3 DEF Next, RaiseFlag, SendShutdown, EnterTick, Change, Join, Leave, HandleShutdown,
                Autosave, NoAutosave, TickMods, Flush, Create, Fill, Refused, SaveDone, Restart
  <2>4. QED
    BY <2>1, <2>2, <2>3
<1>2. QED
    BY <1>1, Invariance, PTL DEF Spec, DiskNeverRegresses

\* The server keeps its files as DurableStore promises, wherever the process is
\* killed.  (persist.rs:163-183)
THEOREM ImplementsDurableStore == Spec => StoreIsDurable
<1>1. Init => Store!Init
    BY DEF Init, Store!Init
<1>2. IInv /\ [Next]_vars => [Store!Next]_(Store!vars)
  <2> SUFFICES ASSUME IInv, [Next]_vars
               PROVE  Store!Next \/ UNCHANGED Store!vars
    OBVIOUS
  <2>0. TypeOK /\ CacheBetween
    BY DEF IInv
  <2> USE DEF memory, faults
  <2>1. ASSUME UNCHANGED <<live, disk, unreadable>> PROVE UNCHANGED Store!vars
    BY <2>1 DEF Store!vars
  <2>2. ASSUME RaiseFlag \/ SendShutdown \/ EnterTick \/ HandleShutdown \/ Autosave \/ NoAutosave
               \/ TickMods \/ Flush \/ SaveDone \/ UNCHANGED vars
        PROVE  UNCHANGED Store!vars
    BY <2>1, <2>2 DEF RaiseFlag, SendShutdown, EnterTick, HandleShutdown, Autosave, NoAutosave,
                      TickMods, Flush, SaveDone, vars
  <2>3. ASSUME NEW u \in Unit, Change(u) PROVE Store!Next
    BY <2>3 DEF Change, Store!Change, Store!Next
  <2>4. ASSUME NEW u \in User, Join(u) PROVE UNCHANGED Store!vars
    <3>1. live' = live
      BY <2>0, <2>4, UnitFiles DEF Join, TypeOK, CacheBetween
    <3>2. QED
      BY <2>1, <2>4, <3>1 DEF Join
  <2>5. ASSUME NEW u \in User, Leave(u) PROVE UNCHANGED Store!vars
    BY <2>1, <2>5 DEF Leave
  <2>6. ASSUME NEW f \in File, Create(f) \/ Fill(f) \/ Refused(f) PROVE UNCHANGED Store!vars
    BY <2>1, <2>6 DEF Create, Fill, Refused
  <2>7. ASSUME NEW f \in File, Rename(f) PROVE Store!Next
    <3>1. UNCHANGED live /\ unreadable' = unreadable \ {f}
      BY <2>7 DEF Rename
    <3>2. disk' \in [Unit -> 0..MaxVersion]
      BY <2>0, <2>7, WrittenTypes DEF Rename
    <3>3. disk' \in [Unit -> Nat]
      BY <3>2
    <3>4. \A u \in Unit : IF FileOf(u) = f THEN Store!Forward(u, disk'[u])
                                           ELSE disk'[u] = disk[u]
      BY <2>7, RenameForward DEF Store!Forward
    <3>5. Store!Save(f)
      BY <3>1, <3>3, <3>4 DEF Store!Save
    <3>6. QED
      BY <3>5 DEF Store!Next
  <2>8. ASSUME NEW lost \in SUBSET File, Restart(lost) PROVE Store!Next
    <3>1. PICK chests \in Salvaged(lost) : live' = Loaded(lost, chests)
      BY <2>8 DEF Restart
    <3>2. UNCHANGED disk /\ unreadable' = lost
      BY <2>8 DEF Restart
    <3>3. /\ live' \in [Unit -> Nat]
          /\ \A u \in Unit : IF FileOf(u) \in lost THEN live'[u] <= disk[u] ELSE live'[u] = disk[u]
      BY <2>0, <3>1, LoadedTypes
    <3>4. Store!Recover(lost)
      BY <3>2, <3>3 DEF Store!Recover
    <3>5. QED
      BY <3>4 DEF Store!Next
  <2>9. QED
    BY <2>2, <2>3, <2>4, <2>5, <2>6, <2>7, <2>8 DEF Next
<1>3. QED
    BY <1>1, <1>2, Invariance, PTL DEF Spec, StoreIsDurable, Store!Spec

=============================================================================
