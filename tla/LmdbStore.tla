----------------------------- MODULE LmdbStore -----------------------------
(***************************************************************************)
(* apps/api-server/src/persist.rs: an LMDB database of JSON values by key. *)
(*                                                                         *)
(* put and delete are one write transaction each, and LMDB runs one        *)
(* write transaction at a time, so each is one atomic step.  update is     *)
(* a read transaction and a later put: other writers come between.  A      *)
(* write that fails (full map, I/O error) changes nothing.  What is        *)
(* committed survives a restart; a copy read by an update does not.        *)
(***************************************************************************)
CONSTANTS Keys, Workers,  \* Workers: request handlers that run at a time
          Absent          \* get() on a key that is not there

VARIABLES db,    \* what is committed, by key
          copy   \* per worker: the value its update has read

EmptyStore == [k \in Keys |-> Absent]

NoCopies == [w \in Workers |-> Absent]

Put(key, value) == db' = [db EXCEPT ![key] = value]

WriteFails == UNCHANGED db

\* Phase 1 of update(): nothing to do when the key is absent.
UpdateRead(w, key) == copy' = [copy EXCEPT ![w] = db[key]]

\* Phase 2: `changed', made from the copy, is put, whatever is there by now.
UpdateWrite(w, key, changed) ==
    /\ Put(key, changed)
    /\ copy' = [copy EXCEPT ![w] = Absent]

ForgetCopy(w) == copy' = [copy EXCEPT ![w] = Absent]
=============================================================================
