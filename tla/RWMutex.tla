------------------------------ MODULE RWMutex ------------------------------
(***************************************************************************)
(* sync.RWMutex as memdb.go uses it (the field MemDB.mtx).  The Go runtime *)
(* is not part of the repository; what matters to its callers is kept:     *)
(*                                                                         *)
(*  - Lock first becomes THE pending writer (one at a time) and then waits *)
(*    for the readers that already hold the lock;                          *)
(*  - while a writer is pending or active, RLock blocks, also for a        *)
(*    goroutine that holds a read lock already;                            *)
(*  - Unlock admits every blocked reader before the next writer.           *)
(*                                                                         *)
(* The operators are fragments of actions.  Each one determines the next   *)
(* value of all four variables.                                            *)
(***************************************************************************)
CONSTANT NoOne      \* "no goroutine", the value of an unset lock holder

VARIABLES
  readers,          \* holders of a read lock
  queue,            \* blocked in RLock
  writer,           \* the pending or active writer, or NoOne
  locked            \* the writer is active

mtxVars == <<readers, queue, writer, locked>>

MtxInit ==
  /\ readers = {}
  /\ queue = {}
  /\ writer = NoOne
  /\ locked = FALSE

RLock(p) ==
  /\ IF writer = NoOne
       THEN readers' = readers \cup {p} /\ queue' = queue
       ELSE queue' = queue \cup {p} /\ readers' = readers
  /\ UNCHANGED <<writer, locked>>

RUnlock(p) ==
  /\ readers' = readers \ {p}
  /\ UNCHANGED <<queue, writer, locked>>

(* First half of Lock: from here on new readers block. *)
LockPending(p) ==
  /\ writer = NoOne
  /\ writer' = p
  /\ UNCHANGED <<readers, queue, locked>>

(* Second half of Lock: the last reader has left. *)
LockAcquired(p) ==
  /\ writer = p
  /\ ~locked
  /\ readers = {}
  /\ locked' = TRUE
  /\ UNCHANGED <<readers, queue, writer>>

Unlock(p) ==
  /\ writer = p
  /\ locked
  /\ writer' = NoOne
  /\ locked' = FALSE
  /\ readers' = queue
  /\ queue' = {}
=============================================================================
