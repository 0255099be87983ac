---------------------------- MODULE DurableStore ----------------------------
(***************************************************************************)
(* What the server promises of what it keeps in files.  Each unit of data  *)
(* has a version in memory and a version on disk.  A file is replaced as a *)
(* whole: all its units move forward together, none of them past the       *)
(* version in memory, or none moves.  A process that starts takes up what  *)
(* the files hold, whatever the one before it was doing when it ended.     *)
(* Only of a file that cannot be read it may take up less, and that file   *)
(* may then be replaced by older data.                                     *)
(***************************************************************************)
EXTENDS Naturals

CONSTANTS Unit, File, FileOf(_)

VARIABLES current,   \* Unit -> version in memory
          durable,   \* Unit -> version on disk
          damaged    \* files that could not be read and have not been replaced

vars == <<current, durable, damaged>>

Init ==
  /\ current = [u \in Unit |-> 0]
  /\ durable = current
  /\ damaged = {}

Change(u) ==
  /\ UNCHANGED <<durable, damaged>>
  /\ current' = [current EXCEPT ![u] = @ + 1]

Forward(u, v) ==
  /\ v <= current[u]
  /\ FileOf(u) \in damaged \/ durable[u] <= v

Save(f) ==
  /\ UNCHANGED current
  /\ damaged' = damaged \ {f}
  /\ durable' \in [Unit -> Nat]
  /\ \A u \in Unit : IF FileOf(u) = f THEN Forward(u, durable'[u])
                                      ELSE durable'[u] = durable[u]

Recover(lost) ==
  /\ damaged' = lost
  /\ current' \in [Unit -> Nat]
  /\ \A u \in Unit : IF FileOf(u) \in lost THEN current'[u] <= durable[u]
                                            ELSE current'[u] = durable[u]
  /\ UNCHANGED durable

Next ==
  \/ \E f \in File : Save(f)
  \/ \E u \in Unit : Change(u)
  \/ \E lost \in SUBSET File : Recover(lost)

Spec == Init /\ [][Next]_vars

=============================================================================
