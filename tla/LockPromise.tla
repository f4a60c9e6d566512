---------------------------- MODULE LockPromise ----------------------------
(* What the locks of SyncLib promise their callers, with the mechanism left  *)
(* out (spin.h 33-37, spinrw.h 34-48): a lock has at most one writer or any  *)
(* number of read claims, never both.  A plain spin lock or a mutex is the   *)
(* same promise with no readers.  Clients are execution contexts; a context  *)
(* may hold several read claims, hence a count per client.                   *)
EXTENDS Naturals

CONSTANTS Client,   \* who may claim the lock
          NoClient  \* "nobody", not a client

VARIABLES writer,   \* the client holding the write claim, or NoClient
          readers   \* read claims held by each client

vars == <<writer, readers>>

TypeOK ==
  /\ writer \in Client \cup {NoClient}
  /\ readers \in [Client -> Nat]

Unread == [c \in Client |-> 0]

Init ==
  /\ writer = NoClient
  /\ readers = Unread

ClaimWrite(c) ==
  /\ writer = NoClient
  /\ readers = Unread
  /\ writer' = c
  /\ UNCHANGED readers

ReleaseWrite(c) ==
  /\ writer = c
  /\ writer' = NoClient
  /\ UNCHANGED readers

ClaimRead(c) ==
  /\ writer = NoClient
  /\ readers' = [readers EXCEPT ![c] = @ + 1]
  /\ UNCHANGED writer

ReleaseRead(c) ==
  /\ readers[c] > 0
  /\ readers' = [readers EXCEPT ![c] = @ - 1]
  /\ UNCHANGED writer

Next ==
  \E c \in Client : ClaimWrite(c) \/ ReleaseWrite(c) \/ ClaimRead(c) \/ ReleaseRead(c)

Spec == Init /\ [][Next]_vars
============================================================================
