------------------------------ MODULE OtaUpdate ------------------------------
(***************************************************************************)
(* Over-the-air updates: bilalcast/ota.py, the boot that calls it           *)
(* (_bootstrap.py and the start of main() in bilalcast/main.py) and the     *)
(* pre-commit hook that versions what it downloads.                         *)
(*                                                                         *)
(* The repository is the sequence of its commits, each the version of every *)
(* file; version.txt holds the number of commits and manifest.json the      *)
(* files' versions.  The device fetches version.txt, then the manifest,     *)
(* then file after file, each from the newest commit there is at that       *)
(* moment.  Every exchange and every write to flash is one action, and the  *)
(* power may fail between any two.                                          *)
(***************************************************************************)
EXTENDS Integers, Sequences

CONSTANTS
  N,            \* files of the manifest, numbered in its order
  Code,         \* those that `import bilalcast.main` loads
  MainFile,     \* bilalcast/main.py
  UpdaterFile,  \* bilalcast/ota.py
  ATTEMPTS,     \* attempts of _download
  MaxReleases,  \* bound: commits
  ErrorPages,   \* whether the server may answer 404 or 429 with a page of text
  Truncating,   \* whether an attempt may fail after the file has been opened
  WriteFails,   \* whether flash may refuse the two version files
  Blackouts     \* whether power may fail

Files == 1 .. N

ASSUME ConstantsAssumption ==
  /\ N \in Nat \ {0}
  /\ Code \subseteq Files /\ MainFile \in Code /\ UpdaterFile \in Files \ Code
  /\ ATTEMPTS \in Nat \ {0}
  /\ MaxReleases \in Nat \ {0}
  /\ {ErrorPages, Truncating, WriteFails, Blackouts} \subseteq BOOLEAN

Absent == 0      \* no such file, or no version recorded
Junk == -1       \* a file cut short
Text == -2       \* the text of an error page, stored as the file or the version

VARIABLES
  releases,   \* the commits on the main branch
  content,    \* flash: the version of each file
  fileVers,   \* flash: ota_file_versions.json
  verFile,    \* flash: ota_version.txt
  pc,         \* where the boot is
  installing, \* _bootstrap.py runs download_all, not main.py check_and_update
  target,     \* remote_v of check_and_update
  manifest,   \* the manifest fetched
  pos,        \* position in it
  attempt,    \* attempt at this file
  updated,    \* files downloaded
  failed,     \* a file could not be downloaded
  (* History. *)
  retry,      \* the last boot announced that it will retry the installation
  rebooted,   \* versions for which an update rebooted the device, since a page
              \* was last recorded as the version
  unsaved     \* a write of the version files was refused

flash == <<content, fileVers, verFile>>
download == <<installing, target, manifest, pos, attempt, updated, failed>>
history == <<retry, rebooted, unsaved>>
vars == <<releases, flash, pc, download, history>>
-----------------------------------------------------------------------------
Newest == releases[Len(releases)]

(* What requests.get() returns without raising when the server reports an error. *)
Pages == IF ErrorPages THEN {Text} ELSE {}

(* _has_app: os.stat of the main module, nothing else. *)
HasApp == content[MainFile] # Absent

Loadable == \A f \in Code : content[f] > Absent

(* bilalcast/ota.py, imported when it is needed, can be: as long as flash has
   none, the copy in the firmware is taken. *)
UpdaterWorks == content[UpdaterFile] >= Absent

Init ==
  /\ releases = <<[f \in Files |-> 1]>>
  /\ content = [f \in Files |-> Absent]
  /\ fileVers = [f \in Files |-> Absent]
  /\ verFile = Absent
  /\ pc = "off"
  /\ installing = FALSE
  /\ target = Absent
  /\ manifest = [f \in Files |-> Absent]
  /\ pos = 1 /\ attempt = 1
  /\ updated = {} /\ failed = FALSE
  /\ retry = FALSE /\ rebooted = {} /\ unsaved = FALSE

(* The pre-commit hook: the versions of the staged files that the manifest
   lists go up, and version.txt goes up for every commit. *)
Commit(staged) ==
  /\ Len(releases) < MaxReleases
  /\ releases' = Append(releases, [f \in Files |-> Newest[f] + IF f \in staged THEN 1 ELSE 0])
  /\ UNCHANGED <<flash, pc, download, history>>
-----------------------------------------------------------------------------
(* What the device holds in memory when it is off. *)
ForgetDownload ==
  /\ installing' = FALSE
  /\ target' = Absent
  /\ manifest' = [f \in Files |-> Absent]
  /\ pos' = 1 /\ attempt' = 1
  /\ updated' = {} /\ failed' = FALSE

(* _bootstrap.py with a configuration: start the app if its main module is
   there, otherwise install it.  An app that cannot be imported raises. *)
Boot ==
  /\ pc = "off"
  /\ IF HasApp
     THEN /\ pc' = IF Loadable THEN "check" ELSE "crash"
          /\ UNCHANGED installing
     ELSE /\ pc' = "manifest"
          /\ installing' = TRUE
  /\ UNCHANGED <<releases, flash, target, manifest, pos, attempt, updated, failed, history>>

(* `except Exception`: print, wait, reset. *)
Crash ==
  /\ pc = "crash"
  /\ pc' = "off"
  /\ UNCHANGED <<releases, flash, download, history>>

(* Wi-Fi is out of reach: both paths reset. *)
NoWifi ==
  /\ pc = "check" \/ (pc = "manifest" /\ installing)
  /\ pc' = "off"
  /\ retry' = installing
  /\ ForgetDownload
  /\ UNCHANGED <<releases, flash, rebooted, unsaved>>

(* `from bilalcast.ota import download_all` raises in _bootstrap.py, which does
   not catch it: the interpreter waits at its prompt. *)
Halt ==
  /\ pc = "manifest" /\ installing /\ ~UpdaterWorks
  /\ pc' = "halted"
  /\ retry' = FALSE
  /\ ForgetDownload
  /\ UNCHANGED <<releases, flash, rebooted, unsaved>>

(* check_and_update is over without an update, and main() goes on. *)
NoUpdate ==
  /\ pc' = "app"
  /\ ForgetDownload
  /\ UNCHANGED history

(* download_all is over, complete or not, and _bootstrap.py resets. *)
InstallEnds(ok) ==
  /\ pc' = "off"
  /\ retry' = ~ok
  /\ ForgetDownload
  /\ UNCHANGED <<rebooted, unsaved>>

(* Mutant: the versions are not compared. *)
CheckVersionAlways ==
  /\ pc = "check"
  /\ \/ /\ UpdaterWorks
        /\ target' \in {Len(releases)} \cup Pages
        /\ pc' = "manifest"
        /\ UNCHANGED <<installing, manifest, pos, attempt, updated, failed, history>>
     \/ NoUpdate
  /\ UNCHANGED <<releases, flash>>

(* _remote_version() against _local_version(); a page of text is a version.
   Whatever check_and_update or its import raises, main() goes on. *)
CheckVersion ==
  /\ pc = "check"
  /\ \/ /\ UpdaterWorks
        /\ \E v \in {Len(releases)} \cup Pages :
             /\ v # verFile
             /\ target' = v
        /\ pc' = "manifest"
        /\ UNCHANGED <<installing, manifest, pos, attempt, updated, failed, history>>
     \/ NoUpdate    \* equal, no answer or no updater
  /\ UNCHANGED <<releases, flash>>

(* _fetch_manifest(), its retries included; a page of text is no JSON. *)
ManifestArrives ==
  /\ pc = "manifest" /\ UpdaterWorks
  /\ manifest' = Newest
  /\ pc' = "files"
  /\ UNCHANGED <<releases, flash, installing, target, pos, attempt, updated, failed, history>>

ManifestLost ==
  /\ pc = "manifest" /\ UpdaterWorks
  /\ IF installing THEN InstallEnds(FALSE) ELSE NoUpdate
  /\ UNCHANGED <<releases, flash>>

(* The loop of download_changed: a file recorded at this version is skipped. *)
Current(f) == manifest[f] = fileVers[f]

SkipFile ==
  /\ pc = "files" /\ pos \in Files
  /\ Current(pos)
  /\ pos' = pos + 1
  /\ UNCHANGED <<releases, flash, pc, installing, target, manifest, attempt, updated, failed, history>>

(* An attempt of _download that returns True. *)
FileArrives(f) ==
  /\ pc = "files" /\ pos = f
  /\ ~Current(f)
  /\ \E c \in {Newest[f]} \cup Pages :
       content' = [content EXCEPT ![f] = c]
  /\ updated' = updated \cup {f}
  /\ pos' = pos + 1 /\ attempt' = 1
  /\ UNCHANGED <<releases, fileVers, verFile, pc, installing, target, manifest, failed, history>>

(* Mutant: one attempt too many. *)
FileLostOnceMore ==
  /\ pc = "files" /\ pos \in Files
  /\ ~Current(pos)
  /\ \/ UNCHANGED content
     \/ Truncating /\ content' = [content EXCEPT ![pos] = Junk]
  /\ IF attempt <= ATTEMPTS
     THEN attempt' = attempt + 1 /\ UNCHANGED <<pos, failed>>
     ELSE attempt' = 1 /\ pos' = pos + 1 /\ failed' = TRUE
  /\ UNCHANGED <<releases, fileVers, verFile, pc, installing, target, manifest, updated, history>>

(* Mutant: a file given up counts as updated. *)
FileLostIsUpdated ==
  /\ pc = "files" /\ pos \in Files
  /\ ~Current(pos)
  /\ \/ UNCHANGED content
     \/ Truncating /\ content' = [content EXCEPT ![pos] = Junk]
  /\ IF attempt < ATTEMPTS
     THEN attempt' = attempt + 1 /\ UNCHANGED <<pos, failed, updated>>
     ELSE /\ attempt' = 1 /\ pos' = pos + 1 /\ failed' = TRUE
          /\ updated' = updated \cup {pos}
  /\ UNCHANGED <<releases, fileVers, verFile, pc, installing, target, manifest, history>>

(* An attempt that raises: in the request, or in r.content or the write, when
   the file has been opened and is closed empty. *)
FileLost ==
  /\ pc = "files" /\ pos \in Files
  /\ ~Current(pos)
  /\ \/ UNCHANGED content
     \/ Truncating /\ content' = [content EXCEPT ![pos] = Junk]
  /\ IF attempt < ATTEMPTS
     THEN attempt' = attempt + 1 /\ UNCHANGED <<pos, failed>>
     ELSE attempt' = 1 /\ pos' = pos + 1 /\ failed' = TRUE
  /\ UNCHANGED <<releases, fileVers, verFile, pc, installing, target, manifest, updated, history>>

(* A refused write raises with the file already truncated, or before. *)
Refused(old, new, empty) == WriteFails /\ (new = old \/ new = empty)

(* Mutant: the whole manifest is recorded. *)
RecordedManifest == manifest

(* Mutant: nothing is recorded when a file is missing. *)
RecordedIfAll == IF failed THEN fileVers ELSE [f \in Files |-> IF f \in updated THEN manifest[f] ELSE fileVers[f]]

Recorded == [f \in Files |-> IF f \in updated THEN manifest[f] ELSE fileVers[f]]

(* _save_file_versions, if anything was downloaded. *)
SaveFileVersions ==
  /\ pc = "files" /\ pos = N + 1
  /\ \/ fileVers' = Recorded /\ UNCHANGED unsaved
     \/ /\ updated # {}
        /\ Refused(fileVers, fileVers', [f \in Files |-> Absent])
        /\ unsaved' = TRUE
  /\ pc' = "saved"
  /\ UNCHANGED <<releases, content, verFile, download, retry, rebooted>>

(* Mutant: missing files are not looked at. *)
DownloadsOverAnyway ==
  /\ pc = "saved"
  /\ IF installing THEN InstallEnds(~failed)
     ELSE /\ pc' = "mark"
          /\ UNCHANGED <<download, history>>
  /\ UNCHANGED <<releases, flash>>

(* What download_changed returns. *)
DownloadsOver ==
  /\ pc = "saved"
  /\ IF installing THEN InstallEnds(~failed)
     ELSE IF failed THEN NoUpdate
     ELSE /\ pc' = "mark"
          /\ UNCHANGED <<download, history>>
  /\ UNCHANGED <<releases, flash>>

(* Mutant: the version is not recorded. *)
MarkNothing ==
  /\ pc = "mark"
  /\ pc' = "reset"
  /\ UNCHANGED <<releases, flash, download, history>>

(* The version is written, or not, and True is returned. *)
MarkVersion ==
  /\ pc = "mark"
  /\ \/ /\ verFile' = target
        /\ rebooted' = IF target = Text THEN {} ELSE rebooted
        /\ UNCHANGED unsaved
     \/ /\ Refused(verFile, verFile', Absent)
        /\ unsaved' = TRUE
        /\ UNCHANGED rebooted
  /\ pc' = "reset"
  /\ UNCHANGED <<releases, content, fileVers, download, retry>>

(* "OTA update applied, rebooting..." *)
UpdateReset ==
  /\ pc = "reset"
  /\ pc' = "off"
  /\ rebooted' = rebooted \cup ({target} \ {Text})
  /\ retry' = FALSE
  /\ ForgetDownload
  /\ UNCHANGED <<releases, flash, unsaved>>

(* The app resets: settings saved, Wi-Fi or time lost. *)
Restart ==
  /\ pc = "app"
  /\ pc' = "off"
  /\ retry' = FALSE
  /\ UNCHANGED <<releases, flash, download, rebooted, unsaved>>

PowerLoss ==
  /\ Blackouts
  /\ pc # "off"
  /\ pc' = "off"
  /\ retry' = FALSE
  /\ ForgetDownload
  /\ UNCHANGED <<releases, flash, rebooted, unsaved>>

DeviceStep ==
  \/ Boot
  \/ Crash
  \/ Halt
  \/ CheckVersion
  \/ ManifestArrives
  \/ ManifestLost
  \/ SkipFile
  \/ \E f \in Files : FileArrives(f)
  \/ FileLost
  \/ SaveFileVersions
  \/ DownloadsOver
  \/ MarkVersion
  \/ UpdateReset

Next ==
  \/ DeviceStep
  \/ NoWifi
  \/ Restart
  \/ PowerLoss
  \/ \E staged \in SUBSET Files : Commit(staged)

Spec == Init /\ [][Next]_vars

UpdateStarts == CheckVersion /\ pc' = "manifest"

(* The device goes on while it has power, and neither Wi-Fi nor any exchange
   fails every time. *)
Fairness ==
  /\ WF_vars(DeviceStep)
  /\ SF_vars(CheckVersion) /\ SF_vars(UpdateStarts)
  /\ SF_vars(ManifestArrives)
  /\ \A f \in Files : SF_vars(FileArrives(f))
-----------------------------------------------------------------------------
PCs == {"off", "crash", "halted", "check", "manifest", "files", "saved", "mark", "reset", "app"}

(* Every variable has its type. *)
TypeOK ==
  /\ releases \in Seq([Files -> Nat \ {0}]) /\ releases # <<>>
  /\ content \in [Files -> Nat \cup {Junk, Text}]
  /\ fileVers \in [Files -> Nat]
  /\ verFile \in Nat \cup {Text}
  /\ pc \in PCs
  /\ installing \in BOOLEAN
  /\ target \in Nat \cup {Text}
  /\ manifest \in [Files -> Nat]
  /\ pos \in 1 .. N + 1 /\ attempt \in 1 .. ATTEMPTS
  /\ updated \subseteq Files /\ failed \in BOOLEAN
  /\ retry \in BOOLEAN /\ unsaved \in BOOLEAN
  /\ rebooted \subseteq Nat

Whole(f) == content[f] \notin {Junk, Text}

(* The recorded versions never run ahead of the files: a file that is whole is
   at least as new as ota_file_versions.json says, whatever was committed
   while the device was downloading and wherever power failed
   (ota.py:106-125).  An error page that was stored as a file is the exception:
   nothing tells it from the file, and it is recorded under the file's version
   (ota.py:49). *)
FileVersionsHonest ==
  \A f \in Files : Whole(f) => content[f] >= fileVers[f]

(* ota_version.txt likewise: the whole files are at least those of the commit
   it names (ota.py:128-147). *)
VersionHonest ==
  verFile \in DOMAIN releases =>
    \A f \in Files : Whole(f) => content[f] >= releases[verFile][f]

(* A file cut short is never taken for current: both the version and the file
   are out of date, so that the next check fetches it again, if the device still
   starts and the file is not the updater itself.  It takes two faults to hide
   one: a refused record of the files' versions, and an error page for the
   version that starts an update of a device that is up to date. *)
JunkIsRetried ==
  \A f \in Files :
    content[f] = Junk =>
      /\ fileVers[f] # Newest[f]
      /\ verFile # Len(releases) \/ (unsaved /\ ErrorPages)

(* A commit costs the device at most one reboot for its update, unless flash
   refuses the record of it, or an error page was taken for a version in
   between (ota.py:132, 139-145). *)
RebootsOnce ==
  [][UpdateReset /\ ~unsaved => target \notin rebooted]_vars

(* _bootstrap.py:123, "OTA failed -- some files could not be downloaded, will
   retry on next boot". *)
RetriesInstall == [][Boot /\ retry => installing']_vars
=============================================================================
