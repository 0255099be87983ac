--------------------------- MODULE PlayerRegistry ---------------------------
(***************************************************************************)
(* What the rest of the server may expect of the register of players: a    *)
(* session is entered once, with what is stored of its user; while it is   *)
(* entered it is counted and its data is held; when it leaves, or when     *)
(* everything is stored, its data is what the next session of the user     *)
(* begins with.  Closing the register stores everything.                   *)
(***************************************************************************)
EXTENDS Integers

CONSTANTS Session, User, UserOf

VARIABLES online,  \* the sessions entered
          held,    \* the data of each of them
          count,   \* how many the register says there are
          stored,  \* User -> data
          met,     \* the sessions that have ever been entered
          open

vars == <<online, held, count, stored, met, open>>

Init ==
  /\ online = {}
  /\ held = [s \in {} |-> 0]
  /\ count = 0
  /\ stored = [u \in User |-> 0]
  /\ met = {}
  /\ open = TRUE

Enter(s) ==
  /\ open /\ s \notin met
  /\ met' = met \cup {s}
  /\ online' = online \cup {s}
  /\ held' = [t \in online' |-> IF t = s THEN stored[UserOf[s]] ELSE held[t]]
  /\ count' = count + 1
  /\ UNCHANGED <<stored, open>>

Change(s) ==
  /\ open /\ s \in online
  /\ held' = [held EXCEPT ![s] = @ + 1]
  /\ UNCHANGED <<online, count, stored, met, open>>

Leave(s) ==
  /\ open /\ s \in online
  /\ online' = online \ {s}
  /\ held' = [t \in online' |-> held[t]]
  /\ count' = count - 1
  /\ stored' = [stored EXCEPT ![UserOf[s]] = held[s]]
  /\ UNCHANGED <<met, open>>

\* Of two sessions of one user, one is stored.
Store ==
  \A u \in User :
    LET sessions == {s \in online : UserOf[s] = u}
    IN IF sessions = {} THEN stored'[u] = stored[u]
                        ELSE \E s \in sessions : stored'[u] = held[s]

StoreAll ==
  /\ open /\ Store
  /\ UNCHANGED <<online, held, count, met, open>>

\* Who has announced themselves and was not entered yet will not be.
Close ==
  /\ open /\ Store
  /\ open' = FALSE
  /\ met \subseteq met'
  /\ UNCHANGED <<online, held, count>>

Next ==
  \/ \E s \in Session : Enter(s) \/ Change(s) \/ Leave(s)
  \/ StoreAll \/ Close

Spec == Init /\ [][Next]_vars

=============================================================================
