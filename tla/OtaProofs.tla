----------------------------- MODULE OtaProofs -----------------------------
(***************************************************************************)
(* What is recorded of an image is true of the file, for any number of     *)
(* otad processes, versions, crashes and runs.  The invariant of the runs  *)
(* is completed with what the lock is there for (Committed): who works on  *)
(* the disk holds it, and what it has recorded goes with where it is.      *)
(***************************************************************************)
EXTENDS Ota, TLAPS

Process == [at : Working \cup {"idle", "lock", "refused", "reset", "unlink", "clean"},
            version : 0 .. MaxVersion]
Info == [version : 0 .. MaxVersion, status : {"none", "new", "downloading", "downloaded"}]
Disk == [info : Info, image : [Versions -> {"none", "partial"} \cup Whole],
         recovery : 0 .. MaxVersion]
Upgrade == [at : {"idle", "asked", "prepared"}, version : 0 .. MaxVersion, force : BOOLEAN]

\* Where a process is that neither reads nor writes.
Free == {"idle", "lock", "refused", "reset"}

\* What holds of process r when it is p, the disk is d and the lock is l's.
Committed(p, r, d, l) ==
    /\ p.at \notin Free => l = r
    /\ p.at \in Working \ {"fetch"} => p.version \in Versions
    /\ p.at \in {"size", "stat", "keep", "disk", "mark"} => d.info.status = "new"
    /\ p.at \in {"wget", "downloaded"} => d.info.status = "downloading"
    /\ p.at = "clean" => d.info.status = "none"
    /\ p.at \in {"keep", "downloaded", "verify"} => d.image[p.version] \in Whole

\* What holds of the disk whoever works.
Truthful(d) ==
    /\ d.info.status # "none" => d.info.version \in Versions
    /\ d.info.status = "downloaded" => d.image[d.info.version] \in Whole

Others ==
    /\ upgrade \in Upgrade /\ offer \in Versions /\ local \in Versions
    /\ starts \in 0 .. MaxRuns /\ crashes \in 0 .. MaxCrashes

OtaIInv ==
    /\ otaDisk \in Disk /\ Truthful(otaDisk)
    /\ otad \in [Processes -> Process] /\ procLock \in Processes \cup {NoRun}
    /\ \A r \in Processes : Committed(otad[r], r, otaDisk, procLock)
    /\ Others

-----------------------------------------------------------------------------
(* Two ways for a process to act *)

\* A process that holds the lock goes on, whatever it does to the disk: nobody
\* else relies on it.
LEMMA HolderActs ==
    ASSUME OtaIInv, NEW r \in Processes, otad[r].at \notin Free,
           NEW p \in Process, otad' = [otad EXCEPT ![r] = p],
           procLock' \in Processes \cup {NoRun},
           Committed(p, r, otaDisk', procLock')
    PROVE  /\ otad' \in [Processes -> Process]
           /\ \A s \in Processes : Committed(otad'[s], s, otaDisk', procLock')
<1>1. otad' \in [Processes -> Process]
  BY DEF OtaIInv
<1>2. ASSUME NEW s \in Processes PROVE Committed(otad'[s], s, otaDisk', procLock')
  <2>1. CASE s = r
    BY <2>1 DEF OtaIInv
  <2>2. CASE s # r
    <3>1. otad'[s] = otad[s] /\ otad[s].at \in Free
      BY <2>2 DEF OtaIInv, Committed
    <3> QED
      BY <3>1 DEF Committed, Free, Working
  <2> QED
    BY <2>1, <2>2
<1> QED
  BY <1>1, <1>2

\* A process that is free, and remains so or takes the lock that nobody holds;
\* a command that is taken back is nothing a process relies on.
LEMMA FreeActs ==
    ASSUME OtaIInv, NEW r \in Processes,
           NEW p \in Process, otad' = [otad EXCEPT ![r] = p],
           otaDisk'.info = otaDisk.info, otaDisk'.image = otaDisk.image,
           \/ p.at \in Free /\ procLock' = procLock /\ otad[r].at \in Free
           \/ p.at \in {"fetch", "unlink"} /\ procLock = NoRun /\ procLock' = r
    PROVE  /\ otad' \in [Processes -> Process] /\ procLock' \in Processes \cup {NoRun}
           /\ \A s \in Processes : Committed(otad'[s], s, otaDisk', procLock')
<1>1. otad' \in [Processes -> Process] /\ procLock' \in Processes \cup {NoRun}
  BY DEF OtaIInv
<1>2. ASSUME NEW s \in Processes PROVE Committed(otad'[s], s, otaDisk', procLock')
  <2>1. CASE s = r
    BY <2>1 DEF OtaIInv, Committed, Free, Working
  <2>2. CASE s # r /\ procLock' = procLock
    BY <2>2 DEF OtaIInv, Committed
  <2>3. CASE s # r /\ procLock = NoRun
    <3>1. otad'[s] = otad[s] /\ otad[s].at \in Free
      BY <2>3, OtaAssumption DEF OtaIInv, Committed, Processes
    <3> QED
      BY <3>1 DEF Committed, Free, Working
  <2> QED
    BY <2>1, <2>2, <2>3
<1> QED
  BY <1>1, <1>2

\* Both with Go, which leaves the version of the process as it is.
LEMMA Went ==
    ASSUME OtaIInv, NEW r \in Processes,
           NEW a \in Working \cup {"idle", "refused", "reset", "unlink", "clean"},
           Go(r, a)
    PROVE  \E p \in Process : /\ otad' = [otad EXCEPT ![r] = p]
                             /\ p.at = a /\ p.version = otad[r].version
<1> DEFINE p == [at |-> a, version |-> otad[r].version]
<1>1. otad \in [Processes -> Process] /\ otad[r].version \in 0 .. MaxVersion
  BY DEF OtaIInv, Process
<1>2. p \in Process
  BY <1>1 DEF Process
<1>3. [otad[r] EXCEPT !.at = a] = p
  BY <1>1 DEF Process
<1>4. otad' = [otad EXCEPT ![r] = p]
  BY <1>1, <1>3 DEF Go
<1> QED
  BY <1>2, <1>4

LEMMA HolderGoes ==
    ASSUME OtaIInv, NEW r \in Processes, otad[r].at \notin Free,
           NEW a \in Working \cup {"idle", "refused", "reset", "unlink", "clean"}, Go(r, a),
           procLock' \in Processes \cup {NoRun},
           \A p \in Process : p.at = a /\ p.version = otad[r].version =>
                             Committed(p, r, otaDisk', procLock')
    PROVE  /\ otad' \in [Processes -> Process]
           /\ \A s \in Processes : Committed(otad'[s], s, otaDisk', procLock')
<1> PICK p \in Process : otad' = [otad EXCEPT ![r] = p] /\ p.at = a /\ p.version = otad[r].version
  BY Went
<1>1. Committed(p, r, otaDisk', procLock')
  OBVIOUS
<1> QED
  BY <1>1, HolderActs

LEMMA FreeGoes ==
    ASSUME OtaIInv, NEW r \in Processes, NEW a \in {"idle", "refused", "reset", "fetch", "unlink"}, Go(r, a),
           otaDisk'.info = otaDisk.info, otaDisk'.image = otaDisk.image,
           \/ a \in Free /\ procLock' = procLock /\ otad[r].at \in Free
           \/ a \in {"fetch", "unlink"} /\ procLock = NoRun /\ procLock' = r
    PROVE  /\ otad' \in [Processes -> Process] /\ procLock' \in Processes \cup {NoRun}
           /\ \A s \in Processes : Committed(otad'[s], s, otaDisk', procLock')
<1>1. a \in Working \cup {"idle", "refused", "reset", "unlink", "clean"}
  BY DEF Working
<1> PICK p \in Process : otad' = [otad EXCEPT ![r] = p] /\ p.at = a /\ p.version = otad[r].version
  BY <1>1, Went
<1> QED
  BY FreeActs

LEMMA Written ==
    ASSUME OtaIInv, NEW r \in Processes, otad[r].version \in Versions,
           NEW t \in {"new", "downloading", "downloaded"}, WriteInfo(r, t)
    PROVE  /\ otaDisk' \in Disk
           /\ otaDisk'.info = [version |-> otad[r].version, status |-> t]
           /\ otaDisk'.info.status = t /\ otaDisk'.info.version = otad[r].version
           /\ otaDisk'.image = otaDisk.image
BY DEF OtaIInv, WriteInfo, Disk, Info, Versions

LEMMA Imaged ==
    ASSUME OtaIInv, NEW v \in Versions, NEW i \in {"none", "partial"} \cup Whole,
           otaDisk' = [otaDisk EXCEPT !.image[v] = i]
    PROVE  /\ otaDisk' \in Disk /\ otaDisk'.info = otaDisk.info
           /\ otaDisk'.image[v] = i
           /\ \A u \in Versions \ {v} : otaDisk'.image[u] = otaDisk.image[u]
BY DEF OtaIInv, Disk

LEMMA Cleaned ==
    ASSUME OtaIInv, otaDisk' = [otaDisk EXCEPT !.image = NoImages]
    PROVE  otaDisk' \in Disk /\ otaDisk'.info = otaDisk.info
BY DEF OtaIInv, Disk, NoImages

LEMMA Recalled ==
    ASSUME OtaIInv, NEW v \in 0 .. MaxVersion, otaDisk' = [otaDisk EXCEPT !.recovery = v]
    PROVE  /\ otaDisk' \in Disk /\ otaDisk'.info = otaDisk.info /\ otaDisk'.image = otaDisk.image
           /\ Truthful(otaDisk')
BY DEF OtaIInv, Disk, Truthful

-----------------------------------------------------------------------------
(* The actions *)

LEMMA OtadSteps ==
    ASSUME OtaIInv, NEW r \in Runs,
           \/ StartRun(r) \/ LockProc(r) \/ Fails(r) \/ FetchOtaInfo(r) \/ ReadInfo(r)
           \/ WriteNewInfo(r) \/ StatImage(r) \/ KeepImage(r) \/ CheckDiskAvailability(r)
           \/ MarkDownloading(r) \/ DoDownloadImage(r) \/ MarkDownloaded(r)
           \/ CalculateFileHash(r) \/ Killed(r)
    PROVE  OtaIInv'
<1> r \in Processes /\ NoRun \notin Processes /\ MaxVersion \in Nat \ {0}
  BY OtaAssumption DEF Processes
<1>a. otad[r] \in Process /\ Committed(otad[r], r, otaDisk, procLock) /\ Truthful(otaDisk)
      /\ otaDisk \in Disk /\ procLock \in Processes \cup {NoRun}
  BY DEF OtaIInv
<1>o. ASSUME UNCHANGED others, starts' \in 0 .. MaxRuns PROVE Others'
  BY <1>o DEF OtaIInv, Others, others
<1>1. CASE StartRun(r)
  <2>1. Others'
    BY <1>1, <1>o, OtaAssumption DEF StartRun, others, OtaIInv, Others
  <2> PICK at \in {"lock", "reset"} : otad' = [otad EXCEPT ![r] = [at |-> at, version |-> 0]]
    BY <1>1 DEF StartRun
  <2>2. [at |-> at, version |-> 0] \in Process /\ otad[r].at \in Free
    BY <1>1 DEF StartRun, Process, Free
  <2>3. otaDisk' = otaDisk /\ procLock' = procLock
    BY <1>1 DEF StartRun
  <2> QED
    BY <1>a, <2>1, <2>2, <2>3, FreeActs DEF OtaIInv, Free
<1>2. CASE LockProc(r)
  <2>1. Others' /\ otaDisk' = otaDisk
    BY <1>2, <1>o DEF LockProc, OtaIInv, Others
  <2>2. CASE procLock = NoRun
    <3>1. Go(r, "fetch") /\ procLock' = r
      BY <1>2, <2>2 DEF LockProc
    <3> QED
      BY <1>a, <2>1, <2>2, <3>1, FreeGoes DEF OtaIInv
  <2>3. CASE procLock # NoRun
    <3>1. Go(r, "refused") /\ procLock' = procLock /\ otad[r].at \in Free
      BY <1>2, <2>3 DEF LockProc, Free
    <3> QED
      BY <1>a, <2>1, <3>1, FreeGoes DEF OtaIInv, Free
  <2> QED
    BY <2>2, <2>3
<1>3. CASE Fails(r)
  <2>1. Others' /\ procLock' = NoRun /\ Go(r, "reset") /\ otad[r].at \notin Free
    BY <1>3, <1>o DEF Fails, OtaIInv, Others, Free
  <2>2. otaDisk' \in Disk /\ Truthful(otaDisk')
    <3>1. CASE otad[r].at = "wget"
      <4>1. otad[r].version \in Versions /\ otaDisk.info.status = "downloading"
        BY <1>a, <3>1 DEF Committed, Working
      <4>2. otaDisk' = [otaDisk EXCEPT !.image[otad[r].version] = "partial"]
        BY <1>3, <3>1 DEF Fails
      <4> QED
        BY <1>a, <4>1, <4>2, Imaged DEF Truthful
    <3>2. CASE otad[r].at # "wget"
      BY <1>3, <1>a, <3>2 DEF Fails
    <3> QED
      BY <3>1, <3>2
  <2>3. \A p \in Process : p.at = "reset" => Committed(p, r, otaDisk', procLock')
    BY DEF Committed, Free, Working
  <2> QED
    BY <2>1, <2>2, <2>3, HolderGoes DEF OtaIInv, Free, Working
<1>4. CASE FetchOtaInfo(r)
  <2> DEFINE p == [at |-> "read", version |-> offer]
  <2>1. Others' /\ otaDisk' = otaDisk /\ procLock' = procLock /\ otad[r].at \notin Free
    BY <1>4, <1>o DEF FetchOtaInfo, OtaIInv, Others, Free
  <2>2. otad' = [otad EXCEPT ![r] = p] /\ p \in Process /\ offer \in Versions
    BY <1>4 DEF FetchOtaInfo, Process, Working, OtaIInv, Others, Versions
  <2>3. Committed(p, r, otaDisk', procLock')
    BY <1>a, <2>1, <2>2 DEF Committed
  <2> QED
    BY <1>a, <2>1, <2>2, <2>3, HolderActs DEF OtaIInv
<1>5. CASE ReadInfo(r)
  <2>1. Others' /\ procLock' = procLock /\ Go(r, "write") /\ otad[r].at = "read"
    BY <1>5, <1>o DEF ReadInfo, OtaIInv, Others
  <2>2. otaDisk' \in Disk /\ Truthful(otaDisk')
    BY <1>5, <1>a, Recalled DEF ReadInfo
  <2>3. ASSUME NEW p \in Process, p.at = "write", p.version = otad[r].version
        PROVE  Committed(p, r, otaDisk', procLock')
    BY <1>a, <2>1, <2>3 DEF Committed, Free, Working
  <2> QED
    BY <2>1, <2>2, <2>3, HolderGoes DEF OtaIInv, Free, Working
<1>6. CASE WriteNewInfo(r)
  <2> PICK a \in {"size", "stat"} : Go(r, a)
    BY <1>6 DEF WriteNewInfo
  <2>1. Others' /\ procLock' = procLock /\ otad[r].at \in {"write", "size"}
    BY <1>6, <1>o DEF WriteNewInfo, OtaIInv, Others
  <2>2. otad[r].version \in Versions /\ WriteInfo(r, "new")
    BY <1>6, <1>a, <2>1 DEF WriteNewInfo, Committed, Working
  <2>3. otaDisk' \in Disk /\ Truthful(otaDisk') /\ otaDisk'.info.status = "new"
    BY <2>2, Written DEF Truthful
  <2>4. ASSUME NEW p \in Process, p.at = a, p.version = otad[r].version
        PROVE  Committed(p, r, otaDisk', procLock')
    BY <1>a, <2>1, <2>2, <2>3, <2>4 DEF Committed, Free, Working
  <2> QED
    BY <2>1, <2>3, <2>4, HolderGoes DEF OtaIInv, Free, Working
<1>7. CASE StatImage(r)
  <2> DEFINE image == otaDisk.image[otad[r].version]
             a == IF image = "good" THEN "keep" ELSE "disk"
  <2>1. Others' /\ procLock' = procLock /\ Go(r, a) /\ otad[r].at = "stat"
    BY <1>7, <1>o DEF StatImage, OtaIInv, Others
  <2>2. otad[r].version \in Versions /\ otaDisk.info.status = "new" /\ procLock = r
    BY <1>a, <2>1 DEF Committed, Working, Free
  <2>3. otaDisk' \in Disk /\ otaDisk'.info = otaDisk.info
        /\ (a = "keep" => otaDisk'.image = otaDisk.image)
    BY <1>7, <1>a, Cleaned DEF StatImage
  <2>4. Truthful(otaDisk')
    BY <1>a, <2>2, <2>3 DEF Truthful
  <2>5. ASSUME NEW p \in Process, p.at = a, p.version = otad[r].version
        PROVE  Committed(p, r, otaDisk', procLock')
    <3>1. CASE a = "keep"
      <4>1. otaDisk'.image[p.version] = "good"
        BY <2>3, <2>5, <3>1
      <4> QED
        BY <2>1, <2>2, <2>3, <2>5, <3>1, <4>1 DEF Committed, Free, Working, Whole
    <3>2. CASE a = "disk"
      BY <2>1, <2>2, <2>3, <2>5, <3>2 DEF Committed, Free, Working
    <3> QED
      BY <3>1, <3>2
  <2>6. a \in Working
    BY DEF Working
  <2> HIDE DEF a
  <2> QED
    BY <2>1, <2>3, <2>4, <2>5, <2>6, <1>a, HolderGoes DEF OtaIInv, Free, Working
<1>8. CASE KeepImage(r) \/ MarkDownloaded(r)
  <2>0. Others'
    BY <1>8, <1>o DEF KeepImage, MarkDownloaded, Announce, OtaIInv, Others, Upgrade
  <2>1. Others' /\ procLock' \in {procLock, NoRun} /\ otad[r].at \in {"keep", "downloaded"}
        /\ WriteInfo(r, "downloaded")
    BY <1>8, <2>0 DEF KeepImage, MarkDownloaded
  <2> PICK a \in {"idle", "verify"} : Go(r, a) /\ (a = "verify" => procLock' = procLock)
    BY <1>8 DEF KeepImage, MarkDownloaded
  <2>2. /\ otad[r].version \in Versions /\ procLock = r
        /\ otaDisk.image[otad[r].version] \in Whole
    BY <1>a, <2>1 DEF Committed, Working, Free
  <2>3. /\ otaDisk' \in Disk /\ Truthful(otaDisk') /\ otaDisk'.image = otaDisk.image
    BY <2>1, <2>2, Written DEF Truthful
  <2>4. ASSUME NEW p \in Process, p.at = a, p.version = otad[r].version
        PROVE  Committed(p, r, otaDisk', procLock')
    BY <2>2, <2>3, <2>4 DEF Committed, Free, Working
  <2> QED
    BY <1>a, <2>1, <2>3, <2>4, HolderGoes DEF OtaIInv, Free, Working
<1>9. CASE CheckDiskAvailability(r)
  <2>1. Others' /\ procLock' = procLock /\ Go(r, "mark") /\ otad[r].at = "disk"
    BY <1>9, <1>o DEF CheckDiskAvailability, OtaIInv, Others
  <2>2. otad[r].version \in Versions /\ otaDisk.info.status = "new" /\ procLock = r
    BY <1>a, <2>1 DEF Committed, Working, Free
  <2>3. otaDisk' \in Disk /\ otaDisk'.info = otaDisk.info
    BY <1>9, <1>a, Cleaned DEF CheckDiskAvailability
  <2>4. Truthful(otaDisk')
    BY <1>a, <2>2, <2>3 DEF Truthful
  <2>5. ASSUME NEW p \in Process, p.at = "mark", p.version = otad[r].version
        PROVE  Committed(p, r, otaDisk', procLock')
    BY <2>1, <2>2, <2>3, <2>5 DEF Committed, Free, Working
  <2> QED
    BY <1>a, <2>1, <2>3, <2>4, <2>5, HolderGoes DEF OtaIInv, Free, Working
<1>10. CASE MarkDownloading(r)
  <2>1. Others' /\ procLock' = procLock /\ Go(r, "wget") /\ otad[r].at = "mark"
        /\ WriteInfo(r, "downloading")
    BY <1>10, <1>o DEF MarkDownloading, OtaIInv, Others
  <2>2. otad[r].version \in Versions /\ procLock = r
    BY <1>a, <2>1 DEF Committed, Working, Free
  <2>3. otaDisk' \in Disk /\ Truthful(otaDisk') /\ otaDisk'.info.status = "downloading"
    BY <2>1, <2>2, Written DEF Truthful
  <2>4. ASSUME NEW p \in Process, p.at = "wget", p.version = otad[r].version
        PROVE  Committed(p, r, otaDisk', procLock')
    BY <2>1, <2>2, <2>3, <2>4 DEF Committed, Free, Working
  <2> QED
    BY <1>a, <2>1, <2>3, <2>4, HolderGoes DEF OtaIInv, Free, Working
<1>11. CASE DoDownloadImage(r)
  <2> PICK image \in Whole : otaDisk' = [otaDisk EXCEPT !.image[otad[r].version] = image]
    BY <1>11 DEF DoDownloadImage
  <2>1. Others' /\ procLock' = procLock /\ Go(r, "downloaded") /\ otad[r].at = "wget"
    BY <1>11, <1>o DEF DoDownloadImage, OtaIInv, Others
  <2>2. otad[r].version \in Versions /\ procLock = r /\ otaDisk.info.status = "downloading"
    BY <1>a, <2>1 DEF Committed, Working, Free
  <2>3. otaDisk' \in Disk /\ otaDisk'.info = otaDisk.info /\ otaDisk'.image[otad[r].version] = image
    BY <2>2, Imaged
  <2>4. Truthful(otaDisk')
    BY <1>a, <2>2, <2>3 DEF Truthful
  <2>5. ASSUME NEW p \in Process, p.at = "downloaded", p.version = otad[r].version
        PROVE  Committed(p, r, otaDisk', procLock')
    BY <2>1, <2>2, <2>3, <2>5 DEF Committed, Free, Working
  <2> QED
    BY <1>a, <2>1, <2>3, <2>4, <2>5, HolderGoes DEF OtaIInv, Free, Working
<1>12. CASE CalculateFileHash(r)
  <2>1. procLock' = NoRun /\ otaDisk' = otaDisk /\ otad[r].at = "verify"
    BY <1>12 DEF CalculateFileHash
  <2>2. Others'
    BY <1>12 DEF CalculateFileHash, Announce, OtaIInv, Others, Upgrade
  <2> PICK a \in {"idle", "reset"} : Go(r, a)
    BY <1>12 DEF CalculateFileHash
  <2>3. ASSUME NEW p \in Process, p.at = a PROVE Committed(p, r, otaDisk', procLock')
    BY <2>3 DEF Committed, Free, Working
  <2> QED
    BY <1>a, <2>1, <2>2, <2>3, HolderGoes DEF OtaIInv, Free, Working
<1>13. CASE Killed(r)
  <2>1. otaDisk' = otaDisk /\ otad' = [otad EXCEPT ![r] = Idle] /\ Idle \in Process
    BY <1>13 DEF Killed, Idle, Process
  <2>2. Others'
    BY <1>13, OtaAssumption DEF Killed, OtaIInv, Others
  <2>3. Committed(Idle, r, otaDisk', procLock')
    BY DEF Committed, Idle, Free, Working
  <2>4. CASE otad[r].at \notin Free
    <3>1. procLock' \in Processes \cup {NoRun}
      BY <1>13, <1>a DEF Killed
    <3> QED
      BY <1>a, <2>1, <2>2, <2>3, <2>4, <3>1, HolderActs DEF OtaIInv
  <2>5. CASE otad[r].at \in Free /\ procLock # r
    BY <1>13, <1>a, <2>1, <2>2, <2>5, FreeActs DEF OtaIInv, Killed, Idle, Free
  <2>6. CASE otad[r].at \in Free /\ procLock = r
    <3>1. procLock' = NoRun /\ \A s \in Processes : otad[s].at \in Free
      BY <1>13, <2>6 DEF Killed, OtaIInv, Committed
    <3>2. \A s \in Processes : otad'[s] \in Process /\ otad'[s].at \in Free
      BY <2>1, <3>1 DEF OtaIInv, Idle, Free
    <3>3. \A s \in Processes : Committed(otad'[s], s, otaDisk', procLock')
      BY <3>2 DEF Committed, Free, Working
    <3>4. otad' \in [Processes -> Process]
      BY <2>1 DEF OtaIInv
    <3> QED
      BY <1>a, <2>1, <2>2, <3>1, <3>3, <3>4 DEF OtaIInv
  <2> QED
    BY <2>4, <2>5, <2>6
<1> QED
  BY <1>1, <1>2, <1>3, <1>4, <1>5, <1>6, <1>7, <1>8, <1>9, <1>10, <1>11, <1>12, <1>13

LEMMA ResetSteps ==
    ASSUME OtaIInv, NEW r \in Processes, ResetOta(r) \/ UnlinkInfo(r) \/ CleanImages(r)
    PROVE  OtaIInv'
<1>a. otad[r] \in Process /\ Committed(otad[r], r, otaDisk, procLock) /\ Truthful(otaDisk)
      /\ otaDisk \in Disk /\ procLock \in Processes \cup {NoRun}
  BY DEF OtaIInv
<1>o. Others'
  BY DEF ResetOta, UnlinkInfo, CleanImages, OtaIInv, Others, others
<1>1. CASE ResetOta(r)
  <2>1. otaDisk' \in Disk /\ Truthful(otaDisk') /\ otaDisk'.info = otaDisk.info
        /\ otaDisk'.image = otaDisk.image
    BY <1>1, Recalled, OtaAssumption DEF ResetOta
  <2>2. CASE procLock = NoRun
    BY <1>1, <1>o, <2>1, <2>2, FreeGoes DEF ResetOta, OtaIInv
  <2>3. CASE procLock # NoRun
    BY <1>1, <1>o, <2>1, <2>3, FreeGoes DEF ResetOta, OtaIInv, Free
  <2> QED
    BY <2>2, <2>3
<1>2. CASE UnlinkInfo(r)
  <2>1. otaDisk' \in Disk /\ otaDisk'.info.status = "none"
    BY <1>2, <1>a, OtaAssumption DEF UnlinkInfo, Disk, Info, NoInfo
  <2>2. Go(r, "clean") /\ procLock' = procLock /\ otad[r].at = "unlink"
    BY <1>2 DEF UnlinkInfo
  <2>3. ASSUME NEW p \in Process, p.at = "clean" PROVE Committed(p, r, otaDisk', procLock')
    BY <1>a, <2>1, <2>2, <2>3 DEF Committed, Free, Working
  <2>4. Truthful(otaDisk')
    BY <2>1 DEF Truthful
  <2> QED
    BY <1>a, <1>o, <2>1, <2>2, <2>3, <2>4, HolderGoes DEF OtaIInv, Free, Working
<1>3. CASE CleanImages(r)
  <2>1. otaDisk' \in Disk /\ otaDisk'.info = otaDisk.info /\ otaDisk.info.status = "none"
    BY <1>3, <1>a, Cleaned DEF CleanImages, Committed
  <2>2. Go(r, "idle") /\ procLock' = NoRun /\ otad[r].at = "clean"
    BY <1>3 DEF CleanImages
  <2>3. ASSUME NEW p \in Process, p.at = "idle" PROVE Committed(p, r, otaDisk', procLock')
    BY <2>3 DEF Committed, Free, Working
  <2>4. Truthful(otaDisk')
    BY <2>1 DEF Truthful
  <2> QED
    BY <1>a, <1>o, <2>1, <2>2, <2>3, <2>4, HolderGoes DEF OtaIInv, Free, Working
<1> QED
  BY <1>1, <1>2, <1>3

\* Whatever restarts the system, nobody works and the lock is gone.
LEMMA Restarted ==
    ASSUME OtaIInv, Restart
    PROVE  /\ otad' \in [Processes -> Process] /\ procLock' \in Processes \cup {NoRun}
           /\ upgrade' \in Upgrade
           /\ \A s \in Processes : Committed(otad'[s], s, otaDisk', procLock')
<1>1. Idle \in Process /\ Idle.at = "idle" /\ upgrade' \in Upgrade
  BY OtaAssumption DEF Restart, Idle, Process, Upgrade
<1>2. \A s \in Processes : Committed(Idle, s, otaDisk', procLock')
  BY <1>1 DEF Committed, Free, Working
<1> QED
  BY <1>1, <1>2 DEF Restart

LEMMA DeviceSteps ==
    ASSUME OtaIInv,
           \/ FirstBootAfterUpgrade \/ AskUpgrade \/ Availability \/ RebootOta
           \/ NewVersion \/ PowerLoss
    PROVE  OtaIInv'
<1>1. CASE FirstBootAfterUpgrade
  <2>1. OtaApp \in Processes /\ otaDisk' = otaDisk /\ procLock' = procLock
        /\ Go(OtaApp, "reset") /\ otad[OtaApp].at \in Free
    BY <1>1 DEF FirstBootAfterUpgrade, Processes, Free
  <2>2. Others'
    BY <1>1, OtaAssumption DEF FirstBootAfterUpgrade, OtaIInv, Others, others
  <2> QED
    BY <2>1, <2>2, FreeGoes DEF OtaIInv, Free
<1>2. CASE AskUpgrade
  <2>1. upgrade' \in Upgrade
    <3> DEFINE v == otaDisk.info.version
    <3>1. /\ upgrade \in Upgrade
          /\ v \in 0 .. MaxVersion /\ offer \in 0 .. MaxVersion
      BY DEF OtaIInv, Others, Disk, Info, Versions
    <3>2. /\ [upgrade EXCEPT !.at = "asked", !.version = offer] \in Upgrade
          /\ [upgrade EXCEPT !.force = FALSE] \in Upgrade
      BY <3>1 DEF Upgrade
    <3>3. [at |-> "asked", version |-> v, force |-> FALSE] \in Upgrade
      BY <3>1 DEF Upgrade
    <3> QED
      BY <1>2, <3>2, <3>3 DEF AskUpgrade
  <2>2. Others'
    BY <1>2, <2>1, OtaAssumption DEF AskUpgrade, OtaIInv, Others
  <2> QED
    BY <1>2, <2>2 DEF AskUpgrade, OtaIInv
<1>3. CASE Availability
  <2>1. upgrade' \in Upgrade /\ Others'
    BY <1>3, OtaAssumption DEF Availability, OtaIInv, Others, Upgrade
  <2>2. otaDisk' \in Disk /\ Truthful(otaDisk') /\ otaDisk'.info = otaDisk.info
        /\ otaDisk'.image = otaDisk.image
    BY <1>3, Recalled DEF Availability, OtaIInv, Others, Upgrade
  <2>3. otad' = otad /\ procLock' = procLock
    BY <1>3 DEF Availability
  <2> QED
    BY <2>1, <2>2, <2>3 DEF OtaIInv, Committed
<1>4. CASE RebootOta
  <2>1. otaDisk' \in Disk /\ Truthful(otaDisk')
    BY <1>4, Recalled, OtaAssumption DEF RebootOta
  <2>2. local' \in Versions
    BY <1>4, OtaAssumption DEF RebootOta, OtaIInv, Others, Disk, Versions
  <2> QED
    BY <1>4, <2>1, <2>2, Restarted DEF RebootOta, OtaIInv, Others
<1>5. CASE NewVersion
  BY <1>5, OtaAssumption DEF NewVersion, OtaIInv, Others, Versions
<1>6. CASE PowerLoss
  <2>1. otaDisk' \in Disk /\ Truthful(otaDisk')
    <3>1. CASE otaDisk' = otaDisk
      BY <3>1 DEF OtaIInv
    <3>2. CASE otaDisk' = [otaDisk EXCEPT !.info = NoInfo]
      BY <3>2, OtaAssumption DEF OtaIInv, Disk, Info, NoInfo, Truthful
    <3> QED
      BY <1>6, <3>1, <3>2 DEF PowerLoss, CutShort
  <2>2. Others'
    BY <1>6, Restarted, OtaAssumption DEF PowerLoss, OtaIInv, Others
  <2> QED
    BY <1>6, <2>1, <2>2, Restarted DEF PowerLoss, OtaIInv
<1> QED
  BY <1>1, <1>2, <1>3, <1>4, <1>5, <1>6

-----------------------------------------------------------------------------
LEMMA InitInv == OtaInit => OtaIInv
<1> SUFFICES ASSUME OtaInit PROVE OtaIInv
  OBVIOUS
<1>1. otaDisk \in Disk /\ Truthful(otaDisk)
  BY OtaAssumption DEF OtaInit, Disk, Info, NoInfo, NoImages, Truthful
<1>2. Idle \in Process /\ \A r \in Processes : Committed(Idle, r, otaDisk, procLock)
  BY OtaAssumption DEF Idle, Process, Committed, Free, Working
<1> QED
  BY <1>1, <1>2, OtaAssumption DEF OtaInit, OtaIInv, Others, Upgrade, Versions

LEMMA StepInv == OtaIInv /\ [OtaNext]_otaVars => OtaIInv'
<1> SUFFICES ASSUME OtaIInv, [OtaNext]_otaVars PROVE OtaIInv'
  OBVIOUS
<1>1. CASE UNCHANGED otaVars
  BY <1>1 DEF otaVars, OtaIInv, Others
<1>2. CASE OtaNext
  BY <1>2, OtadSteps, ResetSteps, DeviceSteps DEF OtaNext
<1> QED
  BY <1>1, <1>2

LEMMA Implied == OtaIInv => OtaInv
<1> SUFFICES ASSUME OtaIInv PROVE OtaInv
  OBVIOUS
<1>1. OtaTypeOK
  BY DEF OtaIInv, OtaTypeOK, Others, Disk, Info, Process, Upgrade
<1>2. PendingHasImage
  BY DEF OtaIInv, Truthful, PendingHasImage
<1>3. ImageOfRun
  BY DEF OtaIInv, Committed, ImageOfRun, Processes
<1> QED
  BY <1>1, <1>2, <1>3 DEF OtaInv

\* After a crash between any two steps of an update, with any number of runs of
\* otad at once, an info that says downloaded finds an image as long as it should
\* be, and who has got an image still has it (OtaInv).
THEOREM RecordedIsTrue == OtaSpec => []OtaInv
<1>1. OtaSpec => []OtaIInv
  BY InitInv, StepInv, PTL DEF OtaSpec
<1>2. []OtaIInv => []OtaInv
  BY Implied, PTL
<1> QED
  BY <1>1, <1>2
=============================================================================
