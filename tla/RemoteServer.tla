---------------------------- MODULE RemoteServer ----------------------------
(***************************************************************************)
(* The process of the remote server: its database handle s.db, the files   *)
(* behind it, and its end.  RemoteDB and RemoteStream extend this module   *)
(* with the requests.                                                      *)
(*                                                                         *)
(* All clients name the same database, of a type whose library locks its   *)
(* files (goleveldb, cleveldb, rocksdb, badgerdb).  Init never closes the  *)
(* handle it replaces, so while the process lives the files stay locked.   *)
(* The files outlive the process.                                          *)
(***************************************************************************)
EXTENDS Ops, FiniteSets

CONSTANTS
  Key, Value,     \* nonempty keys (as ranks), nonempty values
  EmptyValue,     \* the value that is empty, but not nil
  nil, Absent,
  Fallible,       \* whether calls of the library may fail
  MaxRestarts     \* bound: restarts of the server in a behaviour

EmptyKey == 0
KeyArg == Key \cup {EmptyKey}
ValueArg == Value \cup {EmptyValue, nil}
Contents == [KeyArg -> Value \cup {Absent}]

ASSUME ServerAssumption ==
  /\ Key \subseteq Nat \ {EmptyKey} /\ IsFiniteSet(Key)
  /\ EmptyValue \notin Value \cup KeyArg /\ EmptyKey \notin ValueArg \cup {Absent}
  /\ nil \notin KeyArg \cup Value \cup {EmptyValue, Absent} /\ Absent \notin ValueArg
  /\ Fallible \in BOOLEAN /\ MaxRestarts \in Nat

VARIABLES
  files,          \* the content of the database
  isOpen,         \* the process has the files open
  db,             \* s.db is a database; otherwise it is nil
  up,             \* the process runs
  restarts        \* number of restarts so far

serverVars == <<files, isOpen, db, up, restarts>>

ServerInit ==
  /\ files \in {content \in Contents : content[EmptyKey] = Absent}
  /\ isOpen = FALSE /\ db = FALSE /\ up = TRUE /\ restarts = 0

(* The wire format does not tell an empty byte string from nil. *)
Wire(b) == IF b \in {EmptyKey, EmptyValue} THEN nil ELSE b

(* What NewDB may do: files that are locked can not be opened again. *)
NewDB == {ok \in BOOLEAN : IF ok THEN ~isOpen ELSE isOpen \/ Fallible}

(* A request that finds s.db nil makes its goroutine panic, which ends the   *)
(* process.                                                                  *)
Die ==
  /\ up' = FALSE /\ db' = FALSE /\ isOpen' = FALSE
  /\ UNCHANGED <<files, restarts>>

(* ListenAndServe, called again. *)
ListenAndServe ==
  /\ ~up /\ restarts < MaxRestarts
  /\ up' = TRUE /\ restarts' = restarts + 1
  /\ UNCHANGED <<files, isOpen, db>>

ServerTypes ==
  /\ files \in Contents /\ files[EmptyKey] = Absent
  /\ isOpen \in BOOLEAN /\ db \in BOOLEAN /\ up \in BOOLEAN
  /\ restarts \in 0 .. MaxRestarts
=============================================================================
