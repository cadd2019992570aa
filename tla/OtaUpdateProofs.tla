--------------------------- MODULE OtaUpdateProofs ---------------------------
(* What the recorded versions say of the files, for any number of files,     *)
(* attempts and commits.                                                     *)
EXTENDS OtaUpdate, TLAPS

(* Commits only raise versions, and none beyond the newest is known. *)
RepositoryAhead ==
  /\ \A i, j \in DOMAIN releases : i <= j => \A f \in Files : releases[i][f] <= releases[j][f]
  /\ \A f \in Files : fileVers[f] <= Newest[f] /\ manifest[f] <= Newest[f]
  /\ verFile \in DOMAIN releases \cup {Absent, Text}
  /\ target \in DOMAIN releases \cup {Absent, Text}

(* Where the device is in an update or an installation. *)
Progress ==
  /\ installing =>
       pc \in {"manifest", "files", "saved"} /\ target = Absent /\ verFile \notin DOMAIN releases
  /\ pc \in {"off", "crash", "halted", "check", "app"} => ~installing /\ target = Absent
  /\ pc \in {"off", "crash", "halted", "check", "app", "manifest"} => updated = {} /\ ~failed /\ pos = 1
  /\ pc \in {"saved", "mark"} => pos = N + 1
  /\ pc \in {"mark", "reset"} => ~failed
  /\ pc \in {"manifest", "files", "saved", "mark", "reset"} /\ ~installing => target # Absent
  /\ target = Text => ErrorPages
  /\ \A f \in updated : f < pos

(* An update leads from the recorded commit to a later one. *)
Forward ==
  pc \in {"manifest", "files", "saved", "mark"} /\ {verFile, target} \subseteq DOMAIN releases
    => verFile < target

(* The manifest is not older than the commit the update is for, nor than what
   is recorded; what was downloaded or passed over is not older than it. *)
ManifestKept ==
  /\ pc = "files" => \A f \in Files : fileVers[f] <= manifest[f]
  /\ pc \in {"files", "saved", "mark"} /\ target \in DOMAIN releases
       => \A f \in Files : releases[target][f] <= manifest[f]
  /\ \A f \in updated : Whole(f) => content[f] >= manifest[f]
  /\ pc \in {"files", "saved", "mark"} /\ ~failed
       => \A f \in Files : f < pos =>
            /\ Whole(f) => content[f] >= manifest[f]
            /\ content[f] = Junk => manifest[f] < Newest[f]

(* A file cut short is out of date, by the record of the files ... *)
JunkRecorded ==
  \A f \in Files : content[f] = Junk => fileVers[f] < Newest[f] /\ f \notin updated

(* ... and, as long as records are not refused, every file of the recorded
   commit is recorded too. *)
FilesRecorded ==
  ~unsaved =>
    /\ verFile \in DOMAIN releases => \A f \in Files : fileVers[f] >= releases[verFile][f]
    /\ pc = "files" /\ ~failed
         => \A f \in Files : f < pos => f \in updated \/ fileVers[f] = manifest[f]
    /\ pc \in {"saved", "mark"} /\ ~failed => \A f \in Files : fileVers[f] = manifest[f]

(* The reboots so far were for commits before the one to come. *)
RebootsBehind ==
  ~unsaved =>
    /\ pc # "reset" => \A r \in rebooted : verFile \in DOMAIN releases /\ r <= verFile
    /\ pc = "reset" => verFile = target /\ \A r \in rebooted : r < target

OtaInv ==
  /\ TypeOK
  /\ RepositoryAhead
  /\ Progress
  /\ Forward
  /\ FileVersionsHonest
  /\ VersionHonest
  /\ ManifestKept
  /\ JunkRecorded
  /\ FilesRecorded
  /\ JunkIsRetried
  /\ RebootsBehind
-----------------------------------------------------------------------------
LEMMA InitOtaInv == Init => OtaInv
<1>. SUFFICES ASSUME Init PROVE OtaInv
  OBVIOUS
<1>. USE ConstantsAssumption DEF Init, Files, Absent, Junk, Text, Newest, Whole
<1>1. TypeOK
  <2>1. [f \in Files |-> 1] \in [Files -> Nat \ {0}]
    OBVIOUS
  <2>2. releases \in Seq([Files -> Nat \ {0}]) /\ releases # <<>>
    BY <2>1
  <2>. QED
    <3>1. content \in [Files -> Nat \cup {Junk, Text}] /\ {fileVers, manifest} \subseteq [Files -> Nat]
      BY DEF Files
    <3>2. pos \in 1 .. N + 1 /\ attempt \in 1 .. ATTEMPTS
      OBVIOUS
    <3>. QED
      BY <2>2, <3>1, <3>2 DEF TypeOK, PCs
<1>2. RepositoryAhead /\ Progress /\ Forward
  BY DEF RepositoryAhead, Progress, Forward
<1>3. FileVersionsHonest /\ VersionHonest /\ JunkIsRetried /\ JunkRecorded
  BY DEF FileVersionsHonest, VersionHonest, JunkIsRetried, JunkRecorded
<1>4. ManifestKept /\ FilesRecorded /\ RebootsBehind
  BY DEF ManifestKept, FilesRecorded, RebootsBehind
<1>. QED
  BY <1>1, <1>2, <1>3, <1>4 DEF OtaInv

(* The hook appends a commit; what came before it stays. *)
LEMMA CommitAppends ==
  ASSUME TypeOK, NEW staged \in SUBSET Files, Commit(staged)
  PROVE  /\ releases' \in Seq([Files -> Nat \ {0}]) /\ Len(releases') = Len(releases) + 1
         /\ DOMAIN releases \subseteq DOMAIN releases'
         /\ \A i \in DOMAIN releases : releases'[i] = releases[i]
         /\ \A f \in Files : Newest[f] \in Nat \ {0} /\ Newest'[f] \in Nat \ {0} /\ Newest[f] <= Newest'[f]
<1>. DEFINE commit == [f \in Files |-> Newest[f] + IF f \in staged THEN 1 ELSE 0]
<1>1. Len(releases) \in Nat \ {0} /\ Newest \in [Files -> Nat \ {0}]
  BY DEF TypeOK, Newest
<1>2. commit \in [Files -> Nat \ {0}]
  BY <1>1
<1>3. releases' = Append(releases, commit)
  BY DEF Commit
<1>. HIDE DEF commit
<1>4. /\ releases' \in Seq([Files -> Nat \ {0}]) /\ Len(releases') = Len(releases) + 1
      /\ \A i \in 1 .. Len(releases) : releases'[i] = releases[i]
      /\ releases'[Len(releases) + 1] = commit
  BY <1>2, <1>3 DEF TypeOK
<1>5. Newest' = commit
  BY <1>4 DEF Newest
<1>6. \A f \in Files : Newest[f] <= Newest'[f] /\ Newest'[f] \in Nat \ {0} /\ Newest[f] \in Nat \ {0}
  BY <1>1, <1>2, <1>5 DEF commit
<1>7. DOMAIN releases = 1 .. Len(releases) /\ DOMAIN releases' = 1 .. Len(releases')
  BY <1>4 DEF TypeOK
<1>. QED
  BY <1>1, <1>4, <1>6, <1>7

LEMMA CommitKeeps ==
  ASSUME OtaInv, NEW staged \in SUBSET Files, Commit(staged)
  PROVE  OtaInv'
<1>. USE DEF Absent, Junk, Text
<1>1. UNCHANGED <<flash, pc, download, history>>
  BY DEF Commit
<1>2. /\ TypeOK /\ Len(releases) \in Nat \ {0}
      /\ DOMAIN releases = 1 .. Len(releases) /\ DOMAIN releases' = 1 .. Len(releases')
      /\ releases' \in Seq([Files -> Nat \ {0}]) /\ Len(releases') = Len(releases) + 1
      /\ \A i \in DOMAIN releases : releases'[i] = releases[i]
      /\ \A f \in Files : Newest[f] \in Nat \ {0} /\ Newest'[f] \in Nat \ {0} /\ Newest[f] <= Newest'[f]
  BY CommitAppends DEF OtaInv, TypeOK
<1>3. TypeOK'
  BY <1>1, <1>2 DEF TypeOK, flash, download, history
<1>4. RepositoryAhead'
  <2>1. ASSUME NEW i \in DOMAIN releases', NEW j \in DOMAIN releases', i <= j, NEW f \in Files
        PROVE  releases'[i][f] <= releases'[j][f]
    <3>1. i \in DOMAIN releases \/ i = Len(releases')
      BY <1>2
    <3>2. j \in DOMAIN releases \/ j = Len(releases')
      BY <1>2
    <3>3. Len(releases) \in DOMAIN releases
      BY <1>2
    <3>4. i \in DOMAIN releases => releases[i][f] <= Newest[f]
      <4>1. i \in DOMAIN releases => i <= Len(releases)
        BY <1>2
      <4>. QED
        BY <3>3, <4>1 DEF OtaInv, RepositoryAhead, Newest
    <3>5. i \in DOMAIN releases => releases'[i] = releases[i] /\ releases[i][f] \in Nat
      BY <1>2 DEF TypeOK
    <3>6. j \in DOMAIN releases => i \in DOMAIN releases /\ releases'[j] = releases[j]
      BY <1>2, <2>1
    <3>7. CASE j \in DOMAIN releases
      BY <2>1, <3>5, <3>6, <3>7 DEF OtaInv, RepositoryAhead
    <3>8. CASE j = Len(releases')
      BY <1>2, <3>1, <3>4, <3>5, <3>8 DEF Newest
    <3>. QED
      BY <3>2, <3>7, <3>8
  <2>2. \A f \in Files : fileVers'[f] <= Newest'[f] /\ manifest'[f] <= Newest'[f]
    <3>. TAKE f \in Files
    <3>1. fileVers[f] \in Nat /\ manifest[f] \in Nat
      BY <1>2 DEF TypeOK
    <3>2. fileVers[f] <= Newest[f] /\ manifest[f] <= Newest[f]
      BY DEF OtaInv, RepositoryAhead
    <3>3. Newest[f] \in Nat /\ Newest'[f] \in Nat /\ Newest[f] <= Newest'[f]
      BY <1>2
    <3>4. fileVers[f] <= Newest'[f] /\ manifest[f] <= Newest'[f]
      BY <3>1, <3>2, <3>3
    <3>. QED
      BY <1>1, <3>4 DEF flash, download
  <2>3. /\ verFile' \in DOMAIN releases' \cup {Absent, Text}
        /\ target' \in DOMAIN releases' \cup {Absent, Text}
    BY <1>1, <1>2 DEF OtaInv, RepositoryAhead, flash, download
  <2>. QED
    BY <2>1, <2>2, <2>3 DEF RepositoryAhead
<1>5. verFile \in DOMAIN releases' => verFile \in DOMAIN releases
  BY <1>1, <1>2 DEF OtaInv, RepositoryAhead
<1>6. target \in DOMAIN releases' => target \in DOMAIN releases
  BY <1>1, <1>2 DEF OtaInv, RepositoryAhead
<1>7. Progress' /\ Forward'
  BY <1>1, <1>2, <1>5, <1>6 DEF OtaInv, Progress, Forward, flash, download
<1>8. FileVersionsHonest' /\ VersionHonest'
  BY <1>1, <1>2, <1>5 DEF OtaInv, FileVersionsHonest, VersionHonest, Whole, flash
<1>9. ManifestKept'
  <2>1. \A f \in Files : manifest[f] < Newest[f] => manifest[f] < Newest'[f]
    BY <1>2 DEF TypeOK
  <2>. QED
    BY <1>1, <1>2, <1>6, <2>1 DEF OtaInv, ManifestKept, Whole, flash, download
<1>10. JunkRecorded' /\ JunkIsRetried'
  <2>1. \A f \in Files : fileVers[f] < Newest[f] => fileVers[f] < Newest'[f]
    BY <1>2 DEF TypeOK
  <2>2. JunkRecorded'
    BY <1>1, <2>1 DEF OtaInv, JunkRecorded, flash, download
  <2>3. verFile' # Len(releases')
    BY <1>1, <1>2 DEF OtaInv, RepositoryAhead, flash
  <2>4. \A f \in Files : content'[f] = Junk => fileVers'[f] # Newest'[f]
    BY <1>1, <1>2, <2>2 DEF TypeOK, JunkRecorded, flash
  <2>. QED
    BY <2>2, <2>3, <2>4 DEF JunkIsRetried
<1>11. FilesRecorded' /\ RebootsBehind'
  BY <1>1, <1>2, <1>5 DEF OtaInv, FilesRecorded, RebootsBehind, flash, download, history
<1>. QED
  BY <1>3, <1>4, <1>7, <1>8, <1>9, <1>10, <1>11 DEF OtaInv
-----------------------------------------------------------------------------
LEMMA Sizes ==
  ASSUME TypeOK
  PROVE  /\ Len(releases) \in Nat \ {0} /\ DOMAIN releases = 1 .. Len(releases)
         /\ \A i \in DOMAIN releases, f \in Files : releases[i][f] \in Nat \ {0}
         /\ Newest = releases[Len(releases)]
         /\ \A f \in Files : Newest[f] \in Nat \ {0}
         /\ \A f \in Files : content[f] \in Nat \cup {Junk, Text} /\ (Whole(f) => content[f] \in Nat)
         /\ \A f \in Files : fileVers[f] \in Nat /\ manifest[f] \in Nat
BY DEF TypeOK, Newest, Whole

(* Steps that touch neither the repository nor flash keep what relates the two. *)
LEMMA FlashKept ==
  ASSUME OtaInv, UNCHANGED <<releases, flash, unsaved>>, updated' \subseteq updated
  PROVE  /\ Newest' = Newest
         /\ FileVersionsHonest' /\ VersionHonest' /\ JunkRecorded' /\ JunkIsRetried'
BY DEF OtaInv, FileVersionsHonest, VersionHonest, JunkRecorded, JunkIsRetried, Newest, Whole, flash

(* The device is off or halted, or the app runs, with nothing of a download in memory. *)
LEMMA ForgetKeeps ==
  ASSUME OtaInv, ForgetDownload, pc' \in {"off", "halted", "app"}, UNCHANGED <<releases, flash, unsaved>>,
         retry' \in BOOLEAN,
         \/ UNCHANGED rebooted
         \/ pc = "reset" /\ rebooted' = rebooted \cup ({target} \ {Text})
  PROVE  OtaInv'
<1>. USE DEF Absent, Junk, Text
<1>1. /\ Newest' = Newest
      /\ FileVersionsHonest' /\ VersionHonest' /\ JunkRecorded' /\ JunkIsRetried'
  BY FlashKept DEF ForgetDownload
<1>2. TypeOK'
  <2>1. rebooted' \subseteq Nat
    BY DEF OtaInv, TypeOK
  <2>2. pos' \in 1 .. N + 1 /\ attempt' \in 1 .. ATTEMPTS
    BY ConstantsAssumption DEF ForgetDownload
  <2>. QED
    BY <2>1, <2>2 DEF OtaInv, TypeOK, ForgetDownload, PCs, flash
<1>3. RepositoryAhead'
  BY <1>1, Sizes DEF OtaInv, RepositoryAhead, ForgetDownload, flash
<1>4. Progress' /\ Forward' /\ ManifestKept'
  BY DEF Progress, Forward, ManifestKept, ForgetDownload
<1>5. FilesRecorded'
  BY DEF OtaInv, FilesRecorded, ForgetDownload, flash
<1>6. RebootsBehind'
  <2>1. CASE pc # "reset"
    BY <2>1 DEF OtaInv, RebootsBehind, flash
  <2>2. CASE pc = "reset"
    <3>1. target \in DOMAIN releases \cup {Text}
      BY <2>2 DEF OtaInv, RepositoryAhead, Progress
    <3>2. \A r \in rebooted : r \in Nat
      BY DEF OtaInv, TypeOK
    <3>3. ~unsaved => verFile = target /\ \A r \in rebooted : r < target
      BY <2>2 DEF OtaInv, RebootsBehind
    <3>4. target \in DOMAIN releases => target \in Nat
      BY Sizes DEF OtaInv
    <3>5. ~unsaved => \A r \in rebooted' : target \in DOMAIN releases /\ r <= target
      BY <2>2, <3>1, <3>2, <3>3, <3>4
    <3>. QED
      BY <3>3, <3>5 DEF RebootsBehind, flash
  <2>. QED
    BY <2>1, <2>2
<1>. QED
  BY <1>1, <1>2, <1>3, <1>4, <1>5, <1>6 DEF OtaInv

LEMMA EndsKeep ==
  ASSUME OtaInv, NoWifi \/ Halt \/ UpdateReset \/ PowerLoss
  PROVE  OtaInv'
BY ForgetKeeps DEF NoWifi, Halt, UpdateReset, PowerLoss, OtaInv, TypeOK

LEMMA BootKeeps ==
  ASSUME OtaInv, Boot \/ Crash \/ Restart
  PROVE  OtaInv'
<1>. USE DEF Absent, Junk, Text
<1>1. UNCHANGED <<releases, flash, target, manifest, pos, attempt, updated, failed, rebooted, unsaved>>
  BY DEF Boot, Crash, Restart, download, history
<1>2. /\ Newest' = Newest
      /\ FileVersionsHonest' /\ VersionHonest' /\ JunkRecorded' /\ JunkIsRetried'
  BY <1>1, FlashKept
<1>3. pc \in {"off", "crash", "app"} /\ pc' \in {"off", "crash", "check", "manifest"}
  BY DEF Boot, Crash, Restart
<1>4. TypeOK'
  BY <1>1, <1>3 DEF OtaInv, TypeOK, PCs, Boot, Crash, Restart, flash, download, history
<1>5. RepositoryAhead'
  BY <1>1, <1>2 DEF OtaInv, RepositoryAhead, flash
(* Without bilalcast/main.py no version was recorded. *)
<1>6. ~HasApp => verFile \notin DOMAIN releases
  <2>1. ASSUME ~HasApp, verFile \in DOMAIN releases PROVE FALSE
    <3>1. MainFile \in Files /\ content[MainFile] = 0 /\ Whole(MainFile)
      BY <2>1, ConstantsAssumption DEF HasApp, Whole
    <3>2. 0 >= releases[verFile][MainFile]
      BY <2>1, <3>1 DEF OtaInv, VersionHonest
    <3>. QED
      BY <2>1, <3>1, <3>2, Sizes DEF OtaInv
  <2>. QED
    BY <2>1
<1>7. Progress'
  BY <1>1, <1>3, <1>6 DEF OtaInv, Progress, Boot, Crash, Restart, flash, download
<1>8. Forward'
  BY <1>1, <1>3, Sizes DEF OtaInv, Forward, Progress, flash
<1>9. ManifestKept' /\ FilesRecorded'
  BY <1>1, <1>2, <1>3 DEF OtaInv, ManifestKept, FilesRecorded, Progress, Whole, flash
<1>10. RebootsBehind'
  BY <1>1, <1>3 DEF OtaInv, RebootsBehind, flash
<1>. QED
  BY <1>2, <1>4, <1>5, <1>7, <1>8, <1>9, <1>10 DEF OtaInv

(* An update starts from another version than the newest. *)
LEMMA CheckVersionKeeps ==
  ASSUME OtaInv, CheckVersion
  PROVE  OtaInv'
<1>. USE DEF Absent, Junk, Text
<1>1. CASE NoUpdate
  <2>1. UNCHANGED <<releases, flash, unsaved, retry, rebooted>> /\ retry \in BOOLEAN
    BY <1>1 DEF CheckVersion, NoUpdate, history, OtaInv, TypeOK
  <2>. QED
    BY <1>1, <2>1, ForgetKeeps DEF NoUpdate
<1>2. ASSUME NEW v \in {Len(releases)} \cup Pages, v # verFile, target' = v, pc' = "manifest",
             UNCHANGED <<installing, manifest, pos, attempt, updated, failed, history, releases, flash>>
      PROVE  OtaInv'
  <2>1. v \in DOMAIN releases \cup {Text} /\ (v = Text => ErrorPages) /\ v # 0
    BY <1>2, Sizes DEF Pages, OtaInv
  <2>2. pc = "check"
    BY DEF CheckVersion
  <2>3. /\ Newest' = Newest
        /\ FileVersionsHonest' /\ VersionHonest' /\ JunkRecorded' /\ JunkIsRetried'
    BY <1>2, FlashKept DEF history
  <2>4. TypeOK'
    BY <1>2, <2>1, Sizes DEF OtaInv, TypeOK, PCs, flash, history
  <2>5. RepositoryAhead'
    BY <1>2, <2>1, <2>3 DEF OtaInv, RepositoryAhead, flash
  <2>6. Progress'
    BY <1>2, <2>1, <2>2 DEF OtaInv, Progress, flash
  <2>7. Forward'
    <3>1. verFile \in DOMAIN releases /\ v \in DOMAIN releases => verFile < v
      BY <1>2, Sizes DEF OtaInv, Pages
    <3>. QED
      BY <1>2, <3>1 DEF Forward, flash
  <2>8. ManifestKept' /\ FilesRecorded' /\ RebootsBehind'
    BY <1>2, <2>2, <2>3 DEF OtaInv, ManifestKept, FilesRecorded, RebootsBehind, Progress, Whole, flash, history
  <2>. QED
    BY <2>3, <2>4, <2>5, <2>6, <2>7, <2>8 DEF OtaInv
<1>. QED
  BY <1>1, <1>2 DEF CheckVersion

(* The manifest is at least as new as the version that was announced. *)
LEMMA ManifestArrivesKeeps ==
  ASSUME OtaInv, ManifestArrives
  PROVE  OtaInv'
<1>. USE DEF Absent, Junk, Text
<1>1. /\ pc = "manifest" /\ pc' = "files" /\ manifest' = Newest
      /\ UNCHANGED <<releases, flash, installing, target, pos, attempt, updated, failed, history>>
  BY DEF ManifestArrives
<1>2. /\ Newest' = Newest
      /\ FileVersionsHonest' /\ VersionHonest' /\ JunkRecorded' /\ JunkIsRetried'
  BY <1>1, FlashKept DEF history
<1>3. TypeOK'
  <2>1. Newest \in [Files -> Nat]
    BY Sizes DEF OtaInv, TypeOK
  <2>. QED
    BY <1>1, <2>1 DEF OtaInv, TypeOK, PCs, flash, history
<1>4. RepositoryAhead'
  BY <1>1, <1>2, Sizes DEF OtaInv, RepositoryAhead, flash
<1>5. Progress' /\ Forward'
  BY <1>1 DEF OtaInv, Progress, Forward, flash
<1>6. ManifestKept'
  <2>1. updated = {} /\ pos = 1
    BY <1>1 DEF OtaInv, Progress
  <2>2. target \in DOMAIN releases => \A f \in Files : releases[target][f] <= Newest[f]
    BY Sizes DEF OtaInv, RepositoryAhead
  <2>3. \A f \in Files : ~(f < pos)
    BY <2>1 DEF Files
  <2>. QED
    BY <1>1, <1>2, <2>1, <2>2, <2>3 DEF OtaInv, RepositoryAhead, ManifestKept, flash
<1>7. FilesRecorded' /\ RebootsBehind'
  <2>1. \A f \in Files : ~(f < pos)
    BY <1>1 DEF OtaInv, Progress, Files
  <2>. QED
    BY <1>1, <2>1 DEF OtaInv, FilesRecorded, RebootsBehind, flash, history
<1>. QED
  BY <1>2, <1>3, <1>4, <1>5, <1>6, <1>7 DEF OtaInv

LEMMA ManifestLostKeeps ==
  ASSUME OtaInv, ManifestLost \/ (DownloadsOver /\ (installing \/ failed))
  PROVE  OtaInv'
<1>1. /\ ForgetDownload /\ pc' \in {"off", "app"}
      /\ UNCHANGED <<releases, flash, unsaved, rebooted>> /\ retry' \in BOOLEAN
  BY DEF ManifestLost, DownloadsOver, InstallEnds, NoUpdate, history, OtaInv, TypeOK
<1>. QED
  BY <1>1, ForgetKeeps
-----------------------------------------------------------------------------
(* A file that is recorded at the manifest's version is passed over. *)
LEMMA SkipFileKeeps ==
  ASSUME OtaInv, SkipFile
  PROVE  OtaInv'
<1>1. /\ pc = "files" /\ pos \in Files /\ manifest[pos] = fileVers[pos] /\ pos' = pos + 1
      /\ UNCHANGED <<releases, flash, pc, installing, target, manifest, attempt, updated, failed, history>>
  BY DEF SkipFile, Current
<1>2. /\ Newest' = Newest
      /\ FileVersionsHonest' /\ VersionHonest' /\ JunkRecorded' /\ JunkIsRetried'
  BY <1>1, FlashKept DEF history
<1>3. \A f \in Files : f < pos' <=> f < pos \/ f = pos
  BY <1>1, ConstantsAssumption DEF Files
<1>4. TypeOK'
  <2>1. pos' \in 1 .. N + 1
    BY <1>1, ConstantsAssumption DEF Files
  <2>. QED
    BY <1>1, <2>1 DEF OtaInv, TypeOK, flash, history
<1>5. RepositoryAhead'
  BY <1>1, <1>2 DEF OtaInv, RepositoryAhead, flash
<1>6. Progress' /\ Forward'
  BY <1>1, <1>3 DEF OtaInv, TypeOK, Progress, Forward, flash
<1>7. ManifestKept'
  <2>1. Whole(pos) => content[pos] >= manifest[pos]
    BY <1>1 DEF OtaInv, FileVersionsHonest
  <2>2. content[pos] = Junk => manifest[pos] < Newest[pos]
    BY <1>1 DEF OtaInv, JunkRecorded
  <2>. QED
    BY <1>1, <1>2, <1>3, <2>1, <2>2 DEF OtaInv, ManifestKept, Whole, flash
<1>8. FilesRecorded' /\ RebootsBehind'
  BY <1>1, <1>3 DEF OtaInv, FilesRecorded, RebootsBehind, flash, history
<1>. QED
  BY <1>2, <1>4, <1>5, <1>6, <1>7, <1>8 DEF OtaInv

(* A file comes from a commit that is at least as new as the manifest. *)
LEMMA FileArrivesKeeps ==
  ASSUME OtaInv, NEW f \in Files, FileArrives(f)
  PROVE  OtaInv'
<1>. USE DEF Junk, Text
<1>1. PICK c \in {Newest[f]} \cup Pages : content' = [content EXCEPT ![f] = c]
  BY DEF FileArrives
<1>2. /\ pc = "files" /\ pos = f /\ pos' = pos + 1 /\ attempt' = 1 /\ updated' = updated \cup {f}
      /\ UNCHANGED <<releases, fileVers, verFile, pc, installing, target, manifest, failed, history>>
  BY DEF FileArrives
<1>3. /\ Newest' = Newest /\ TypeOK
      /\ content' \in [Files -> Nat \cup {Junk, Text}]
      /\ content'[f] # Junk /\ (content'[f] # Text => content'[f] = Newest[f])
      /\ \A g \in Files : g # f => content'[g] = content[g]
  <2>1. TypeOK /\ Newest' = Newest
    BY <1>2 DEF OtaInv, Newest
  <2>2. Newest[f] \in Nat /\ (c = Newest[f] \/ c = Text)
    BY <2>1, Sizes DEF Pages
  <2>3. content \in [Files -> Nat \cup {Junk, Text}]
    BY <2>1 DEF TypeOK
  <2>. QED
    BY <1>1, <2>1, <2>2, <2>3
<1>4. \A g \in Files : g < pos' <=> g < pos \/ g = f
  BY <1>2, ConstantsAssumption DEF Files
<1>5. TypeOK'
  <2>1. pos' \in 1 .. N + 1 /\ attempt' \in 1 .. ATTEMPTS
    BY <1>2, ConstantsAssumption DEF Files
  <2>. QED
    BY <1>2, <1>3, <2>1 DEF TypeOK, history
<1>6. RepositoryAhead'
  BY <1>2, <1>3 DEF OtaInv, RepositoryAhead
<1>7. Progress' /\ Forward'
  BY <1>2, <1>3, <1>4 DEF OtaInv, TypeOK, Progress, Forward
<1>8. FileVersionsHonest'
  BY <1>2, <1>3, Sizes DEF OtaInv, FileVersionsHonest, RepositoryAhead, Whole
<1>9. VersionHonest'
  <2>1. verFile \in DOMAIN releases => Newest[f] >= releases[verFile][f]
    <3>1. Len(releases) \in DOMAIN releases /\ Newest = releases[Len(releases)]
      BY <1>3, Sizes
    <3>2. verFile \in DOMAIN releases => verFile <= Len(releases)
      BY <1>3, Sizes
    <3>. QED
      BY <1>3, <3>1, <3>2, Sizes DEF OtaInv, RepositoryAhead
  <2>. QED
    BY <1>2, <1>3, <2>1 DEF OtaInv, VersionHonest, Whole
<1>10. ManifestKept'
  <2>1. Newest[f] >= manifest[f]
    BY <1>3, Sizes DEF OtaInv, RepositoryAhead
  <2>. QED
    <3>1. \A g \in Files : g # f => content'[g] = content[g] /\ (Whole(g)' <=> Whole(g))
      BY <1>3 DEF Whole
    <3>2. Whole(f)' => content'[f] >= manifest'[f]
      BY <1>2, <1>3, <2>1 DEF Whole
    <3>3. \A g \in updated' : Whole(g)' => content'[g] >= manifest'[g]
      BY <1>2, <1>3, <3>1, <3>2 DEF OtaInv, TypeOK, ManifestKept
    <3>4. ~failed' => \A g \in Files : g < pos' =>
            /\ Whole(g)' => content'[g] >= manifest'[g]
            /\ content'[g] = Junk => manifest'[g] < Newest'[g]
      BY <1>2, <1>3, <1>4, <3>1, <3>2 DEF OtaInv, ManifestKept
    <3>. QED
      BY <1>2, <1>3, <3>3, <3>4 DEF OtaInv, ManifestKept
<1>11. JunkRecorded' /\ JunkIsRetried'
  BY <1>2, <1>3 DEF OtaInv, JunkRecorded, JunkIsRetried, history
<1>12. FilesRecorded' /\ RebootsBehind'
  BY <1>2, <1>4 DEF OtaInv, FilesRecorded, RebootsBehind, history
<1>. QED
  BY <1>5, <1>6, <1>7, <1>8, <1>9, <1>10, <1>11, <1>12 DEF OtaInv

(* A file that is attempted while the recorded version is the newest: a record
   was refused, and a page was taken for a version. *)
LEMMA NeedlessUpdate ==
  ASSUME OtaInv, pc = "files", pos \in Files, ~Current(pos), verFile = Len(releases)
  PROVE  unsaved /\ ErrorPages
<1>1. verFile \in DOMAIN releases /\ ~installing
  BY Sizes DEF OtaInv, Progress
<1>2. target = Text
  <2>1. target \in DOMAIN releases => verFile < target /\ target <= Len(releases) /\ target \in Nat
    BY <1>1, Sizes DEF OtaInv, Forward
  <2>2. target # Absent /\ target \in DOMAIN releases \cup {Absent, Text}
    BY <1>1 DEF OtaInv, Progress, RepositoryAhead
  <2>. QED
    BY <2>1, <2>2, Sizes DEF OtaInv
<1>3. ErrorPages
  BY <1>2 DEF OtaInv, Progress
<1>4. fileVers[pos] # manifest[pos] /\ fileVers[pos] <= manifest[pos] /\ manifest[pos] <= Newest[pos]
  BY DEF Current, OtaInv, ManifestKept, RepositoryAhead
<1>5. ~unsaved => fileVers[pos] >= Newest[pos]
  BY <1>1, Sizes DEF OtaInv, FilesRecorded
<1>6. unsaved
  <2>1. fileVers[pos] \in Nat /\ manifest[pos] \in Nat /\ Newest[pos] \in Nat
    BY Sizes DEF OtaInv
  <2>2. ~unsaved => FALSE
    BY <1>4, <1>5, <2>1
  <2>. QED
    BY <2>2
<1>. QED
  BY <1>3, <1>6

(* A file cut short was out of date. *)
LEMMA FileLostKeeps ==
  ASSUME OtaInv, FileLost
  PROVE  OtaInv'
<1>. USE DEF Junk, Text
<1>1. /\ pc = "files" /\ pos \in Files /\ ~Current(pos)
      /\ \/ attempt < ATTEMPTS /\ attempt' = attempt + 1 /\ UNCHANGED <<pos, failed>>
         \/ attempt' = 1 /\ pos' = pos + 1 /\ failed' = TRUE
      /\ UNCHANGED <<releases, fileVers, verFile, pc, installing, target, manifest, updated, history>>
  BY DEF FileLost
<1>2. /\ Newest' = Newest /\ TypeOK
      /\ content' \in [Files -> Nat \cup {Junk, Text}]
      /\ content'[pos] = content[pos] \/ content'[pos] = Junk
      /\ \A g \in Files : g # pos => content'[g] = content[g]
  BY <1>1 DEF FileLost, OtaInv, TypeOK, Newest
<1>3. TypeOK'
  <2>1. pos' \in 1 .. N + 1
    BY <1>1, ConstantsAssumption DEF Files
  <2>2. attempt \in 1 .. ATTEMPTS /\ ATTEMPTS \in Nat \ {0}
    BY <1>2, ConstantsAssumption DEF TypeOK
  <2>3. attempt' \in 1 .. ATTEMPTS
    BY <1>1, <2>2
  <2>. QED
    BY <1>1, <1>2, <2>1, <2>3 DEF TypeOK, history
<1>4. RepositoryAhead'
  BY <1>1, <1>2 DEF OtaInv, RepositoryAhead
<1>5. Progress' /\ Forward'
  <2>1. pos \in Nat /\ \A f \in Files : f \in Nat
    BY <1>1, ConstantsAssumption DEF Files
  <2>2. updated \subseteq Files
    BY <1>2 DEF TypeOK
  <2>3. pos' = pos \/ pos' = pos + 1
    BY <1>1
  <2>4. \A f \in updated : f < pos'
    BY <2>1, <2>3, <2>2 DEF OtaInv, Progress
  <2>5. Progress'
    BY <1>1, <2>4 DEF OtaInv, Progress
  <2>6. Forward'
    BY <1>1 DEF OtaInv, Forward
  <2>. QED
    BY <2>5, <2>6
<1>6. \A g \in Files : Whole(g)' => Whole(g) /\ content'[g] = content[g]
  BY <1>2 DEF Whole
<1>7. FileVersionsHonest' /\ VersionHonest'
  BY <1>1, <1>6 DEF OtaInv, FileVersionsHonest, VersionHonest
<1>8. ManifestKept'
  <2>1. ~failed' => UNCHANGED pos /\ ~failed
    BY <1>1
  <2>2. \A g \in Files : g < pos => content'[g] = content[g]
    BY <1>1, <1>2 DEF Files
  <2>. QED
    BY <1>1, <1>2, <1>6, <2>1, <2>2 DEF OtaInv, TypeOK, ManifestKept
<1>9. JunkRecorded'
  <2>1. fileVers[pos] < Newest[pos]
    BY <1>1, Sizes DEF OtaInv, ManifestKept, RepositoryAhead, Current
  <2>2. pos \notin updated
    BY <1>1 DEF OtaInv, Progress, Files
  <2>. QED
    BY <1>1, <1>2, <2>1, <2>2 DEF OtaInv, JunkRecorded
<1>10. JunkIsRetried'
  BY <1>1, <1>2, <1>9, NeedlessUpdate, Sizes DEF JunkIsRetried, JunkRecorded, history
<1>11. FilesRecorded' /\ RebootsBehind'
  BY <1>1 DEF OtaInv, FilesRecorded, RebootsBehind, history
<1>. QED
  BY <1>3, <1>4, <1>5, <1>7, <1>8, <1>9, <1>10, <1>11 DEF OtaInv
-----------------------------------------------------------------------------
(* The record takes over the manifest's versions of what was downloaded, or
   claims less than before. *)
LEMMA SaveFileVersionsKeeps ==
  ASSUME OtaInv, SaveFileVersions
  PROVE  OtaInv'
<1>. USE DEF Absent, Junk, Text
<1>1. /\ pc = "files" /\ pos = N + 1 /\ pc' = "saved"
      /\ UNCHANGED <<releases, content, verFile, download, retry, rebooted>>
      /\ \/ fileVers' = Recorded /\ UNCHANGED unsaved
         \/ unsaved' = TRUE /\ (fileVers' = fileVers \/ fileVers' = [f \in Files |-> Absent])
  BY DEF SaveFileVersions, Refused
<1>2. /\ Newest' = Newest /\ TypeOK
      /\ \A f \in Files : Whole(f)' <=> Whole(f)
      /\ \A f \in Files : f < pos
  BY <1>1, ConstantsAssumption DEF OtaInv, Newest, Whole, Files
<1>3. \A f \in Files : fileVers[f] <= manifest[f] /\ fileVers[f] \in Nat /\ manifest[f] \in Nat
  BY <1>1, <1>2, Sizes DEF OtaInv, ManifestKept
<1>4. fileVers' \in [Files -> Nat]
  <2>1. Recorded \in [Files -> Nat]
    BY <1>3 DEF Recorded
  <2>2. [f \in Files |-> Absent] \in [Files -> Nat] /\ fileVers \in [Files -> Nat]
    BY <1>2 DEF TypeOK
  <2>. QED
    BY <1>1, <2>1, <2>2
<1>5. \A f \in Files : \/ f \in updated /\ fileVers'[f] = manifest[f]
                       \/ fileVers'[f] = fileVers[f]
                       \/ fileVers'[f] = 0
  BY <1>1 DEF Recorded
<1>6. TypeOK'
  BY <1>1, <1>2, <1>4 DEF TypeOK, PCs, download
<1>7. RepositoryAhead'
  <2>1. \A f \in Files : fileVers'[f] <= Newest[f]
    BY <1>2, <1>5, Sizes DEF OtaInv, RepositoryAhead
  <2>. QED
    BY <1>1, <1>2, <2>1 DEF OtaInv, RepositoryAhead, download
<1>8. Progress' /\ Forward'
  BY <1>1 DEF OtaInv, Progress, Forward, download
<1>9. FileVersionsHonest' /\ VersionHonest'
  <2>1. \A f \in Files : Whole(f) => content[f] >= fileVers'[f]
    BY <1>2, <1>5, Sizes DEF OtaInv, FileVersionsHonest, ManifestKept
  <2>. QED
    BY <1>1, <1>2, <2>1 DEF OtaInv, FileVersionsHonest, VersionHonest
<1>10. ManifestKept'
  <2>1. UNCHANGED <<releases, content, target, manifest, updated, failed, pos>>
    BY <1>1 DEF download
  <2>2. ManifestKept
    BY DEF OtaInv
  <2>. QED
    BY <1>1, <1>2, <2>1, <2>2 DEF ManifestKept, Whole
<1>11. JunkRecorded'
  <2>1. \A f \in Files : content[f] = Junk => fileVers[f] < Newest[f] /\ f \notin updated /\ 0 < Newest[f]
    BY <1>2, Sizes DEF OtaInv, JunkRecorded
  <2>. QED
    BY <1>1, <1>2, <1>5, <2>1 DEF JunkRecorded, download
<1>12. JunkIsRetried'
  <2>1. \A f \in Files : content'[f] = Junk => fileVers'[f] # Newest'[f]
    BY <1>2, <1>4, <1>11, Sizes DEF JunkRecorded
  <2>2. unsaved => unsaved'
    BY <1>1
  <2>. QED
    BY <1>1, <2>1, <2>2 DEF OtaInv, JunkIsRetried
<1>13. FilesRecorded'
  <2>. SUFFICES ASSUME ~unsaved' PROVE FilesRecorded'
    BY DEF FilesRecorded
  <2>1. fileVers' = Recorded /\ ~unsaved
    BY <1>1
  <2>2. \A f \in Files : fileVers'[f] >= fileVers[f]
    BY <1>3, <2>1 DEF Recorded
  <2>3. ~failed => \A f \in Files : fileVers'[f] = manifest[f]
    BY <1>1, <1>2, <2>1 DEF OtaInv, FilesRecorded, Recorded
  <2>4. verFile \in DOMAIN releases => \A f \in Files : fileVers'[f] >= releases[verFile][f]
    <3>. SUFFICES ASSUME verFile \in DOMAIN releases, NEW f \in Files
                  PROVE  fileVers'[f] >= releases[verFile][f]
      OBVIOUS
    <3>1. fileVers[f] >= releases[verFile][f]
      BY <2>1 DEF OtaInv, FilesRecorded
    <3>2. fileVers'[f] \in Nat /\ releases[verFile][f] \in Nat
      BY <1>2, <1>4, Sizes
    <3>. QED
      BY <1>3, <2>2, <3>1, <3>2
  <2>. QED
    BY <1>1, <2>3, <2>4 DEF FilesRecorded, download
<1>14. RebootsBehind'
  BY <1>1 DEF OtaInv, RebootsBehind, download
<1>. QED
  BY <1>6, <1>7, <1>8, <1>9, <1>10, <1>11, <1>12, <1>13, <1>14 DEF OtaInv

LEMMA DownloadsOverKeeps ==
  ASSUME OtaInv, DownloadsOver
  PROVE  OtaInv'
<1>1. CASE installing \/ failed
  BY <1>1, ManifestLostKeeps
<1>2. CASE ~installing /\ ~failed
  <2>1. pc = "saved" /\ pc' = "mark" /\ UNCHANGED <<releases, flash, download, history>>
    BY <1>2 DEF DownloadsOver
  <2>2. /\ Newest' = Newest
        /\ FileVersionsHonest' /\ VersionHonest' /\ JunkRecorded' /\ JunkIsRetried'
    BY <2>1, FlashKept DEF download, history
  <2>3. TypeOK' /\ RepositoryAhead'
    BY <2>1, <2>2 DEF OtaInv, TypeOK, RepositoryAhead, PCs, flash, download, history
  <2>4. Progress' /\ Forward'
    BY <1>2, <2>1 DEF OtaInv, Progress, Forward, flash, download
  <2>5. ManifestKept'
    BY <2>1, <2>2 DEF OtaInv, ManifestKept, Whole, flash, download
  <2>6. FilesRecorded' /\ RebootsBehind'
    BY <2>1 DEF OtaInv, FilesRecorded, RebootsBehind, flash, download, history
  <2>. QED
    BY <2>2, <2>3, <2>4, <2>5, <2>6 DEF OtaInv
<1>. QED
  BY <1>1, <1>2

(* When the version is recorded, every file of it was downloaded or current. *)
LEMMA MarkVersionKeeps ==
  ASSUME OtaInv, MarkVersion
  PROVE  OtaInv'
<1>. USE DEF Absent, Junk, Text
<1>1. /\ pc = "mark" /\ pc' = "reset"
      /\ UNCHANGED <<releases, content, fileVers, download, retry>>
      /\ \/ /\ verFile' = target /\ UNCHANGED unsaved
            /\ rebooted' = IF target = Text THEN {} ELSE rebooted
         \/ /\ verFile' \in {verFile, Absent}
            /\ unsaved' = TRUE /\ UNCHANGED rebooted
  BY DEF MarkVersion, Refused
<1>2. /\ Newest' = Newest /\ TypeOK
      /\ \A f \in Files : Whole(f)' <=> Whole(f)
      /\ pos = N + 1 /\ \A f \in Files : f < pos
      /\ ~failed /\ ~installing /\ target # Absent
  BY <1>1, ConstantsAssumption DEF OtaInv, Newest, Whole, Files, Progress
<1>3. TypeOK'
  <2>1. verFile' \in Nat \cup {Text} /\ rebooted' \subseteq Nat
    <3>1. verFile \in Nat \cup {Text} /\ target \in Nat \cup {Text} /\ rebooted \subseteq Nat
      BY <1>2 DEF TypeOK
    <3>2. verFile' = target \/ verFile' = verFile \/ verFile' = 0
      BY <1>1
    <3>3. rebooted' = {} \/ rebooted' = rebooted
      BY <1>1
    <3>4. verFile' \in Nat \cup {Text}
      BY <3>1, <3>2
    <3>5. rebooted' \subseteq Nat
      BY <3>1, <3>3
    <3>. QED
      BY <3>4, <3>5
  <2>2. TypeOK /\ unsaved' \in BOOLEAN
    BY <1>1, <1>2, Zenon DEF TypeOK
  <2>. QED
    BY <1>1, <2>1, <2>2 DEF TypeOK, PCs, download
<1>4. RepositoryAhead'
  BY <1>1, <1>2 DEF OtaInv, RepositoryAhead, download
<1>5. Progress' /\ Forward'
  BY <1>1, <1>2 DEF OtaInv, Progress, Forward, download
<1>6. FileVersionsHonest' /\ ManifestKept' /\ JunkRecorded'
  <2>1. UNCHANGED <<content, fileVers, manifest, updated>>
    BY <1>1 DEF download
  <2>2. FileVersionsHonest' /\ JunkRecorded'
    BY <1>2, <2>1 DEF OtaInv, FileVersionsHonest, JunkRecorded
  <2>3. ManifestKept'
    BY <1>1, <2>1 DEF OtaInv, ManifestKept, Whole
  <2>. QED
    BY <2>2, <2>3
<1>7. target \in DOMAIN releases =>
        \A f \in Files : /\ releases[target][f] <= manifest[f]
                         /\ releases[target][f] \in Nat /\ manifest[f] \in Nat
  BY <1>1, <1>2, Sizes DEF OtaInv, ManifestKept
<1>8. VersionHonest'
  <2>1. ASSUME target \in DOMAIN releases, NEW f \in Files, Whole(f)
        PROVE  content[f] >= releases[target][f]
    <3>1. content[f] >= manifest[f] /\ content[f] \in Nat
      BY <1>1, <1>2, <2>1, Sizes DEF OtaInv, ManifestKept
    <3>. QED
      BY <1>7, <2>1, <3>1
  <2>2. Absent \notin DOMAIN releases
    BY <1>2, Sizes
  <2>. QED
    BY <1>1, <1>2, <2>1, <2>2 DEF OtaInv, VersionHonest
<1>9. JunkIsRetried'
  <2>. SUFFICES ASSUME NEW f \in Files, content[f] = Junk
                PROVE  /\ fileVers[f] # Newest[f]
                       /\ verFile' # Len(releases) \/ (unsaved' /\ ErrorPages)
    BY <1>1, <1>2 DEF JunkIsRetried
  <2>1. fileVers[f] # Newest[f] /\ (verFile # Len(releases) \/ (unsaved /\ ErrorPages))
    BY DEF OtaInv, JunkIsRetried
  <2>2. target # Len(releases)
    <3>1. manifest[f] < Newest[f] /\ Newest[f] \in Nat
      BY <1>1, <1>2, Sizes DEF OtaInv, ManifestKept
    <3>2. target = Len(releases) => target \in DOMAIN releases /\ Newest[f] <= manifest[f]
      BY <1>2, <1>7, Sizes
    <3>3. manifest[f] \in Nat
      BY <1>2, Sizes
    <3>. QED
      BY <3>1, <3>2, <3>3
  <2>. QED
    BY <1>1, <1>2, <2>1, <2>2, Sizes
<1>10. FilesRecorded'
  <2>. SUFFICES ASSUME ~unsaved' PROVE FilesRecorded'
    BY DEF FilesRecorded
  <2>1. verFile' = target /\ \A f \in Files : fileVers[f] = manifest[f]
    BY <1>1, <1>2 DEF OtaInv, FilesRecorded
  <2>. QED
    BY <1>1, <1>7, <2>1 DEF FilesRecorded
<1>11. RebootsBehind'
  <2>. SUFFICES ASSUME ~unsaved' PROVE verFile' = target' /\ \A r \in rebooted' : r < target'
    BY <1>1 DEF RebootsBehind
  <2>1. /\ verFile' = target /\ target' = target /\ ~unsaved
        /\ rebooted' = IF target = Text THEN {} ELSE rebooted
    BY <1>1 DEF download
  <2>2. \A r \in rebooted : r \in Nat /\ verFile \in DOMAIN releases /\ r <= verFile
    BY <1>1, <1>2, <2>1 DEF OtaInv, RebootsBehind, TypeOK
  <2>3. target \in DOMAIN releases /\ verFile \in DOMAIN releases => verFile < target
    BY <1>1 DEF OtaInv, Forward
  <2>4. target \in DOMAIN releases \cup {Text}
    BY <1>2 DEF OtaInv, RepositoryAhead
  <2>5. ASSUME target # Text, NEW r \in rebooted PROVE r < target
    BY <1>2, <2>2, <2>3, <2>4, <2>5, Sizes
  <2>. QED
    BY <2>1, <2>5
<1>. QED
  BY <1>3, <1>4, <1>5, <1>6, <1>8, <1>9, <1>10, <1>11 DEF OtaInv
-----------------------------------------------------------------------------
LEMMA NextKeeps == OtaInv /\ [Next]_vars => OtaInv'
<1>. SUFFICES ASSUME OtaInv, [Next]_vars PROVE OtaInv'
  OBVIOUS
<1>1. CASE DeviceStep
  BY <1>1, BootKeeps, CheckVersionKeeps, ManifestArrivesKeeps, ManifestLostKeeps, SkipFileKeeps,
     FileArrivesKeeps, FileLostKeeps, SaveFileVersionsKeeps, DownloadsOverKeeps, MarkVersionKeeps,
     EndsKeep
  DEF DeviceStep
<1>2. CASE NoWifi \/ Restart \/ PowerLoss
  BY <1>2, EndsKeep, BootKeeps
<1>3. CASE \E staged \in SUBSET Files : Commit(staged)
  BY <1>3, CommitKeeps
<1>4. CASE UNCHANGED vars
  BY <1>4 DEF vars, flash, download, history, OtaInv, TypeOK, RepositoryAhead, Progress, Forward,
     FileVersionsHonest, VersionHonest, ManifestKept, JunkRecorded, FilesRecorded, JunkIsRetried,
     RebootsBehind, Newest, Whole
<1>. QED
  BY <1>1, <1>2, <1>3, <1>4 DEF Next

(* The inductive invariant: what each record says of the files, at every point
   of a download. *)
THEOREM OtaInvariant == Spec => []OtaInv
<1>1. OtaInv /\ [Next]_vars => OtaInv'
  BY NextKeeps
<1>. QED
  BY InitOtaInv, <1>1, PTL DEF Spec

(* Every variable keeps its type. *)
THEOREM OtaTypes == Spec => []TypeOK
<1>1. OtaInv => TypeOK
  BY DEF OtaInv
<1>. QED
  BY OtaInvariant, <1>1, PTL

(* The recorded versions of the files never run ahead of the files
   (ota.py:106-125). *)
THEOREM FilesHonest == Spec => []FileVersionsHonest
<1>1. OtaInv => FileVersionsHonest
  BY DEF OtaInv
<1>. QED
  BY OtaInvariant, <1>1, PTL

(* The recorded commit never runs ahead of the files (ota.py:128-147). *)
THEOREM CommitHonest == Spec => []VersionHonest
<1>1. OtaInv => VersionHonest
  BY DEF OtaInv
<1>. QED
  BY OtaInvariant, <1>1, PTL

(* A file cut short is seen as out of date by the next check (ota.py:45-53,
   106-147). *)
THEOREM JunkSeen == Spec => []JunkIsRetried
<1>1. OtaInv => JunkIsRetried
  BY DEF OtaInv
<1>. QED
  BY OtaInvariant, <1>1, PTL

(* No commit costs a second reboot (ota.py:132, 139-145). *)
THEOREM OneReboot == Spec => RebootsOnce
<1>1. OtaInv /\ [Next]_vars => [UpdateReset /\ ~unsaved => target \notin rebooted]_vars
  <2>. SUFFICES ASSUME OtaInv, UpdateReset, ~unsaved PROVE target \notin rebooted
    OBVIOUS
  <2>1. pc = "reset"
    BY DEF UpdateReset
  <2>2. \A r \in rebooted : r < target /\ r \in Nat
    BY <2>1 DEF OtaInv, RebootsBehind, TypeOK
  <2>. QED
    BY <2>2
<1>. QED
  BY OtaInvariant, <1>1, PTL DEF Spec, RebootsOnce
=============================================================================
