---------------------------- MODULE SnapshotStore ----------------------------
(***************************************************************************)
(* What the rest of Drove Gateway may expect of the state file             *)
(* (persistStateToDisk in utils.go): it holds one complete snapshot at all *)
(* times, one write happens at a time, and a write that is accepted either *)
(* replaces the file as a whole or leaves it alone, also when the process  *)
(* ends in the middle of it.                                               *)
(***************************************************************************)
CONSTANTS
    Snapshots,
    NoSnapshot   \* not one of them

VARIABLES
    file,     \* the snapshot in the state file, NoSnapshot without one
    writing   \* the snapshot being written, NoSnapshot when none is

vars == <<file, writing>>

Init == file \in Snapshots \cup {NoSnapshot} /\ writing = NoSnapshot

Begin(s) == /\ writing = NoSnapshot
            /\ writing' = s /\ UNCHANGED file

Commit == /\ writing # NoSnapshot
          /\ file' = writing /\ writing' = NoSnapshot

Abandon == /\ writing # NoSnapshot
           /\ writing' = NoSnapshot /\ UNCHANGED file

Next == Commit \/ Abandon \/ \E s \in Snapshots : Begin(s)

Spec == Init /\ [][Next]_vars
==============================================================================
