--------------------------- MODULE JobSnapshots ---------------------------
(***************************************************************************)
(* The pure part of job bookkeeping: the statuses a BullMQ row and a Redis *)
(* snapshot can have, the rule of the Lua script that writes a snapshot,   *)
(* and the verdict the 409 guard gives on an unfinished row.               *)
(***************************************************************************)

(* A Redis snapshot; "none" is a key that was never written or expired. *)
TerminalStatus == {"completed", "cancelled", "failed"}
SnapshotStatus == TerminalStatus \cup {"running", "none"}

(* A BullMQ row.  "absent" is an id that was never enqueued and "removed" *)
(* one that was taken out of Redis: getJob returns undefined for both.    *)
UnfinishedState == {"waiting", "active"}
SettledState    == {"completed", "failed"}
RowState        == UnfinishedState \cup SettledState \cup {"absent", "removed"}

(* Mutant of SnapshotAfter: the script writes without looking. *)
SnapshotAfterBlind(old, new) == new

(* WRITE_SNAPSHOT_LUA: a progress flush never covers a terminal status, any *)
(* other write replaces what is there.                                      *)
SnapshotAfter(old, new) ==
  IF new = "running" /\ old \in TerminalStatus THEN old ELSE new

(* What the 409 guard does with an unfinished row it found for the mod. *)
Disposition(status, marked, state) ==
  IF marked \/ status \in TerminalStatus
  THEN IF state = "waiting" THEN "discard" ELSE "skip"
  ELSE IF status = "none" /\ state = "waiting" THEN "discard" ELSE "block"

===========================================================================
