------------------------------ MODULE SetLock ------------------------------
(***************************************************************************)
(* The lock of the coordinated set (lehs_csis.c): a client writes LOCKED or*)
(* UNLOCKED, the server answers, tells the other clients and takes the lock*)
(* back when its timer expires.                                            *)
(***************************************************************************)
EXTENDS FiniteSets, Naturals

CONSTANTS
  Conns,         \* GATT connection ids
  NoConn,        \* the connection id 0 of an owner never set
  MaxConnections \* LEHS_MAX_CONNECTIONS

ASSUME LockConstants ==
  /\ NoConn \notin Conns
  /\ MaxConnections \in Nat \ {0}

VARIABLES
  connected, \* connections with a control block
  lock,      \* lehs_csis_data_t.lock
  owner,     \* conn_id_of_lock_owner
  timer,     \* lock_timer is running
  granted,   \* clients that were answered SUCCESS to LOCKED and have not been
             \* notified UNLOCKED, released the lock or disconnected since
  told       \* [Conns -> value]: the last lock value each was notified of or read

lockVars == <<connected, lock, owner, timer, granted, told>>

LockValues == {"unlocked", "locked"}

\* All clients in use but the one that made the change are notified
NotifyOthers(c, val) == told' = [d \in Conns |-> IF d \in connected \ {c} THEN val ELSE told[d]]

\* lehs_csis_handle_write_req_evt for LOCKED: refused while the lock is held,
\* else the client becomes the owner and the timer (re)starts.
WriteLocked(c) ==
  /\ c \in connected
  /\ IF lock = "locked"
     THEN UNCHANGED <<owner, timer, granted, told>>
     ELSE /\ owner' = c
          /\ timer' = TRUE
          /\ granted' = granted \cup {c}
          /\ NotifyOthers(c, "locked")
  /\ UNCHANGED <<connected, lock>>

\* Mutant: UNLOCKED stops the timer also when the lock is not held
UnlockAlwaysStops(c) ==
  /\ timer' = FALSE
  /\ granted' = granted \ {c}
  /\ NotifyOthers(c, "unlocked")

\* The owner gives the lock back
Unlock(c) ==
  IF lock = "unlocked"
  THEN granted' = granted \ {c} /\ UNCHANGED <<timer, told>>
  ELSE IF owner # c THEN UNCHANGED <<timer, granted, told>>
  ELSE /\ timer' = FALSE
       /\ granted' = granted \ {c}
       /\ NotifyOthers(c, "unlocked")

\* lehs_csis_handle_write_req_evt for UNLOCKED
WriteUnlocked(c) ==
  /\ c \in connected
  /\ Unlock(c)
  /\ UNCHANGED <<connected, lock, owner>>

\* lehs_csis_handle_write_req_evt for the value 0, which is neither: it passes
\* every test, is answered SUCCESS and notified to the others.
WriteReserved(c) ==
  /\ c \in connected
  /\ NotifyOthers(c, "reserved")
  /\ UNCHANGED <<connected, lock, owner, timer, granted>>

\* app_handle_gatt_read_request, HDLC_CSIS_LOCK_VALUE: the lock as it is kept,
\* which no write changes
ReadLock(c) ==
  /\ c \in connected
  /\ told' = [told EXCEPT ![c] = lock]
  /\ UNCHANGED <<connected, lock, owner, timer, granted>>

\* csis_lock_timer_timeout: the owner of record is notified, if it is connected
Timeout ==
  /\ timer
  /\ lock' = "unlocked"
  /\ timer' = FALSE
  /\ granted' = granted \ {owner}
  /\ told' = [d \in Conns |-> IF d = owner /\ d \in connected THEN "unlocked" ELSE told[d]]
  /\ UNCHANGED <<connected, owner>>

\* The control block comes and goes; the lock is not looked at
ClientComes(c) ==
  /\ c \notin connected
  /\ Cardinality(connected) < MaxConnections
  /\ connected' = connected \cup {c}
  /\ UNCHANGED <<lock, owner, timer, granted, told>>

ClientGoes(c) ==
  /\ c \in connected
  /\ connected' = connected \ {c}
  /\ granted' = granted \ {c}
  /\ told' = [told EXCEPT ![c] = "none"]
  /\ UNCHANGED <<lock, owner, timer>>

LockInit ==
  /\ connected = {}
  /\ lock = "unlocked"
  /\ owner = NoConn
  /\ timer = FALSE
  /\ granted = {}
  /\ told = [c \in Conns |-> "none"]

LockNext ==
  \/ Timeout
  \/ \E c \in Conns : WriteLocked(c) \/ WriteUnlocked(c) \/ WriteReserved(c)
                     \/ ReadLock(c) \/ ClientComes(c) \/ ClientGoes(c)

LockSpec == LockInit /\ [][LockNext]_lockVars

-----------------------------------------------------------------------------
(* Properties *)

\* While the latest client to get the lock holds it, the timer that takes it
\* back runs, whatever the other clients write or when they come and go.
LatestGrantIsTimed == owner \in granted => timer

\* The lock is assigned to one client at a time: while a client holds it, no
\* other is granted it (the comment of lehs_csis_handle_write_req_evt).  It is not so, as
\* no write sets the lock (README).
LockIsExclusive == Cardinality(granted) <= 1
=============================================================================
