----------------------------- MODULE ObjectStore -----------------------------
(***************************************************************************)
(* The files of one Owner in the object store                               *)
(* (eidolon_data/services/object_storage.py) and the keys a deletion hands  *)
(* to whoever called it.  A file appears whole, under its key, or not at    *)
(* all; putting a key again replaces it; removing one that is not there is  *)
(* no error.  SQL knows keys only, so nothing but the order of the steps of *)
(* a request keeps rows and files together.                                 *)
(***************************************************************************)
VARIABLES
  owner,        \* status of the Owner's row
  blobs,        \* the keys that have a file
  reported,     \* keys a committed deletion returned, still to be removed
  purged,       \* keys that were removed so, and not put again since
  lost          \* keys nobody will remove: a request died, or failed, on its way

storeVars == <<owner, blobs, reported, purged, lost>>

StoreInit ==
  owner = "active" /\ blobs = {} /\ reported = {} /\ purged = {} /\ lost = {}

Put(k) ==
  /\ blobs' = blobs \cup {k}
  /\ purged' = purged \ {k}
  /\ lost' = lost \ {k}
Discard(K) == blobs' = blobs \ K

\* The caller of a deletion removes what it was told to, in its own time.
Purge(k) ==
  /\ k \in reported
  /\ Discard({k})
  /\ reported' = reported \ {k}
  /\ purged' = purged \cup {k}
  /\ UNCHANGED <<owner, lost>>
=============================================================================
