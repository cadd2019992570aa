----------------------------- MODULE OtaSettling -----------------------------
(***************************************************************************)
(* Updates on a device whose faults come to an end: what OtaUpdate says, and *)
(* a moment from which power does not fail any more and flash refuses no     *)
(* record.  Wi-Fi, requests, downloads and commits go on as before.          *)
(***************************************************************************)
EXTENDS OtaUpdate

VARIABLE settled   \* that moment is over

RecordRefused ==
  \/ SaveFileVersions /\ fileVers' # Recorded
  \/ MarkVersion /\ verFile' # target

CalmStep ==
  \/ DeviceStep /\ ~RecordRefused
  \/ NoWifi
  \/ Restart
  \/ \E staged \in SUBSET Files : Commit(staged)

SettlingNext ==
  \/ ~settled /\ Next /\ UNCHANGED settled
  \/ settled /\ CalmStep /\ UNCHANGED settled
  \/ ~settled /\ settled' = TRUE /\ UNCHANGED vars

SettlingSpec == Init /\ settled = FALSE /\ [][SettlingNext]_<<vars, settled>> /\ Fairness
-----------------------------------------------------------------------------
(* Once faults have come to an end, a device whose app can be started ends up
   running it: failed downloads and new commits never keep it rebooting.  Before
   that two faults can: power that fails while a module is cut short leaves an
   app that cannot be imported, and to a record that flash refuses every time
   check_and_update answers with another reboot (ota.py:51, 139-145).  Error
   pages are left to FileVersionsHonest: one replaces a module for good,
   and one taken for a version costs a reboot each time. *)
AppStarts == (settled /\ pc = "off" /\ Loadable) ~> (pc = "app")

(* A device that is restarted again and again, with an updater that can be
   imported, follows the repository, however many files fail to arrive each
   time (ota.py:106-125). *)
KeepsUp ==
  <>settled /\ []<>(pc = "off" /\ Loadable /\ UpdaterWorks) => <>[](verFile = Len(releases))
=============================================================================
