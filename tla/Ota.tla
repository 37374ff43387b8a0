-------------------------------- MODULE Ota --------------------------------
(***************************************************************************)
(* The update over the air: otad (runtime/services/otad, packages/         *)
(* @yoda/ota), of which several may be started, the ota app and the OTA    *)
(* component of the runtime, who read what otad has written, and the disk, *)
(* which survives them.                                                    *)
(*                                                                         *)
(* The cloud, wget, recovery and the lock are external: a lock that is     *)
(* held is refused, and is released when its holder dies.  Who is refused  *)
(* is told so by an error without a code (@yoda/ota/index.js:371), so that *)
(* otad resets as after any error.  The lock of the info file, held during *)
(* one write only, is part of the write; a write that is cut short reads   *)
(* as no info.                                                             *)
(***************************************************************************)
EXTENDS Naturals, FiniteSets

CONSTANTS
    Runs,        \* processes of otad
    OtaApp,      \* the ota app, when it resets after an upgrade
    MaxVersion,  \* bound: versions of the system
    MaxRuns,     \* bound: runs, first boots and upgrades
    MaxCrashes   \* bound: processes killed and power losses

NoRun == "no run"

ASSUME OtaAssumption ==
    /\ OtaApp \notin Runs /\ NoRun \notin Runs \cup {OtaApp}
    /\ MaxVersion \in Nat \ {0} /\ MaxRuns \in Nat /\ MaxCrashes \in Nat

VARIABLES
    otaDisk,      \* info.json, the images, the command for recovery
    otad,      \* what each process does, and the info it has in memory
    procLock,  \* proc.lock
    upgrade,   \* the upgrade that is being started, forceUpdateAvailable
    offer,     \* the version the cloud has
    local,     \* ro.build.version.release
    starts, crashes

otaVars == <<otaDisk, otad, procLock, upgrade, offer, local, starts, crashes>>

Versions == 1 .. MaxVersion
Processes == Runs \cup {OtaApp}
Whole == {"good", "bad"}  \* as long as it should be; the hash tells which
NoInfo == [version |-> 0, status |-> "none"]
Working == {"fetch", "read", "write", "size", "stat", "keep", "disk", "mark", "wget",
            "downloaded", "verify"}

OtaTypeOK ==
    /\ otaDisk \in [info : [version : 0 .. MaxVersion,
                         status : {"none", "new", "downloading", "downloaded"}],
                 image : [Versions -> {"none", "partial"} \cup Whole],
                 recovery : 0 .. MaxVersion]
    /\ otad \in [Processes -> [at : Working \cup {"idle", "lock", "refused", "reset",
                                                "unlink", "clean"},
                               version : 0 .. MaxVersion]]
    /\ procLock \in Processes \cup {NoRun}
    /\ upgrade \in [at : {"idle", "asked", "prepared"}, version : 0 .. MaxVersion, force : BOOLEAN]
    /\ offer \in Versions /\ local \in Versions
    /\ starts \in 0 .. MaxRuns /\ crashes \in 0 .. MaxCrashes

NoImages == [v \in Versions |-> "none"]
Idle == [at |-> "idle", version |-> 0]

OtaInit ==
    /\ otaDisk = [info |-> NoInfo, image |-> NoImages, recovery |-> 0]
    /\ otad = [r \in Processes |-> Idle]
    /\ procLock = NoRun
    /\ upgrade = [at |-> "idle", version |-> 0, force |-> FALSE]
    /\ offer = 1 /\ local = 1
    /\ starts = 0 /\ crashes = 0

-----------------------------------------------------------------------------
(* runInCurrentContext *)

Go(r, at) == otad' = [otad EXCEPT ![r].at = at]

WriteInfo(r, status) == otaDisk' = [otaDisk EXCEPT !.info = [version |-> otad[r].version,
                                                      status |-> status]]

others == <<upgrade, offer, local, crashes>>

\* otad is started by the ota app, and by the system.  Where updates are
\* turned off (noota), or its directory cannot be made, it only resets.
StartRun(r) ==
    /\ otad[r].at = "idle" /\ starts < MaxRuns
    /\ \E at \in {"lock", "reset"} : otad' = [otad EXCEPT ![r] = [at |-> at, version |-> 0]]
    /\ starts' = starts + 1
    /\ UNCHANGED <<otaDisk, procLock, others>>

LockProc(r) ==
    /\ otad[r].at = "lock"
    /\ IF procLock = NoRun THEN Go(r, "fetch") /\ procLock' = r
                           ELSE Go(r, "refused") /\ UNCHANGED procLock
    /\ UNCHANGED <<otaDisk, starts, others>>

\* A run that fails, or that finds no image, unlocks; main resets then.
Fails(r) ==
    /\ otad[r].at \in {"fetch", "size", "disk", "wget"}
    /\ Go(r, "reset")
    /\ procLock' = NoRun
    /\ IF otad[r].at = "wget" THEN otaDisk' = [otaDisk EXCEPT !.image[otad[r].version] = "partial"]
                              ELSE UNCHANGED otaDisk
    /\ UNCHANGED <<starts, others>>

FetchOtaInfo(r) ==
    /\ otad[r].at = "fetch" /\ offer # local
    /\ otad' = [otad EXCEPT ![r] = [at |-> "read", version |-> offer]]
    /\ UNCHANGED <<otaDisk, procLock, starts, others>>

\* Another version was pending: resetOta takes the command back, and then is
\* refused the lock, which this run holds itself.
ReadInfo(r) ==
    /\ otad[r].at = "read"
    /\ IF otaDisk.info.version \notin {0, otad[r].version}
       THEN otaDisk' = [otaDisk EXCEPT !.recovery = 0]
       ELSE UNCHANGED otaDisk
    /\ Go(r, "write")
    /\ UNCHANGED <<procLock, starts, others>>

\* The info is written without a status, once more with the size of the image.
WriteNewInfo(r) ==
    /\ \/ otad[r].at = "write" /\ Go(r, "size")
       \/ otad[r].at = "size" /\ Go(r, "stat")
    /\ WriteInfo(r, "new")
    /\ UNCHANGED <<procLock, starts, others>>

StatImage(r) ==
    LET image == otaDisk.image[otad[r].version]
    IN  /\ otad[r].at = "stat"
        /\ Go(r, IF image = "good" THEN "keep" ELSE "disk")
        /\ otaDisk' = IF image = "bad" THEN [otaDisk EXCEPT !.image = NoImages] ELSE otaDisk
        /\ UNCHANGED <<procLock, starts, others>>

\* main, of an image that is there: a forced update is announced to the runtime.
Announce == \E force \in BOOLEAN : upgrade' = [upgrade EXCEPT !.force = @ \/ force]

KeepImage(r) ==
    /\ otad[r].at = "keep"
    /\ WriteInfo(r, "downloaded")
    /\ Go(r, "idle") /\ procLock' = NoRun
    /\ Announce
    /\ UNCHANGED <<starts, offer, local, crashes>>

\* Images are removed when space is short.
CheckDiskAvailability(r) ==
    /\ otad[r].at = "disk"
    /\ \/ UNCHANGED otaDisk
       \/ otaDisk.image # NoImages /\ otaDisk' = [otaDisk EXCEPT !.image = NoImages]
    /\ Go(r, "mark")
    /\ UNCHANGED <<procLock, starts, others>>

MarkDownloading(r) ==
    /\ otad[r].at = "mark"
    /\ WriteInfo(r, "downloading")
    /\ Go(r, "wget")
    /\ UNCHANGED <<procLock, starts, others>>

DoDownloadImage(r) ==
    /\ otad[r].at = "wget"
    /\ \E image \in Whole : otaDisk' = [otaDisk EXCEPT !.image[otad[r].version] = image]
    /\ Go(r, "downloaded")
    /\ UNCHANGED <<procLock, starts, others>>

MarkDownloaded(r) ==
    /\ otad[r].at = "downloaded"
    /\ WriteInfo(r, "downloaded")
    /\ Go(r, "verify")
    /\ UNCHANGED <<procLock, starts, others>>

\* The hash is compared.
CalculateFileHash(r) ==
    /\ otad[r].at = "verify"
    /\ procLock' = NoRun
    /\ \/ otaDisk.image[otad[r].version] = "good" /\ Go(r, "idle") /\ Announce
       \/ otaDisk.image[otad[r].version] # "good" /\ Go(r, "reset") /\ UNCHANGED upgrade
    /\ UNCHANGED <<otaDisk, starts, offer, local, crashes>>

-----------------------------------------------------------------------------
(* resetOta *)

ResetOta(r) ==
    /\ otad[r].at \in {"refused", "reset"}
    /\ otaDisk' = [otaDisk EXCEPT !.recovery = 0]
    /\ IF procLock = NoRun THEN procLock' = r /\ Go(r, "unlink")
                           ELSE Go(r, "idle") /\ UNCHANGED procLock
    /\ UNCHANGED <<starts, others>>

\* (slip: the images go first)
CleanFirst(r) ==
    /\ otad[r].at = "unlink"
    /\ otaDisk' = [otaDisk EXCEPT !.image = NoImages]
    /\ Go(r, "clean")
    /\ UNCHANGED <<procLock, starts, others>>

UnlinkInfo(r) ==
    /\ otad[r].at = "unlink"
    /\ otaDisk' = [otaDisk EXCEPT !.info = NoInfo]
    /\ Go(r, "clean")
    /\ UNCHANGED <<procLock, starts, others>>

CleanImages(r) ==
    /\ otad[r].at = "clean"
    /\ otaDisk' = [otaDisk EXCEPT !.image = NoImages]
    /\ Go(r, "idle") /\ procLock' = NoRun
    /\ UNCHANGED <<starts, others>>

-----------------------------------------------------------------------------
(* The ota app and the runtime *)

\* runtimeDidLogin: the version that runs is the one that was pending.
FirstBootAfterUpgrade ==
    /\ starts < MaxRuns /\ starts' = starts + 1
    /\ otad[OtaApp].at = "idle" /\ otaDisk.info.version = local
    /\ Go(OtaApp, "reset")
    /\ UNCHANGED <<otaDisk, procLock, others>>

\* The user asks for an update that is downloaded already, or a forced one is
\* due when the device wakes up (turenDidWakeUp).
AskUpgrade ==
    /\ upgrade.at = "idle" /\ starts < MaxRuns /\ starts' = starts + 1
    /\ \/ otaDisk.info.version = offer /\ offer # local /\ otaDisk.info.status = "downloaded"
          /\ upgrade' = [upgrade EXCEPT !.at = "asked", !.version = offer]
       \/ upgrade.force
          /\ upgrade' = IF otaDisk.info.status = "downloaded"
                        THEN [at |-> "asked", version |-> otaDisk.info.version, force |-> FALSE]
                        ELSE [upgrade EXCEPT !.force = FALSE]
    /\ UNCHANGED <<otaDisk, otad, procLock, offer, local, crashes>>

\* getAvailabilityOfOta; for a forced update a low battery postpones.
Availability ==
    /\ upgrade.at = "asked"
    /\ \/ /\ offer = upgrade.version
          /\ otaDisk' = [otaDisk EXCEPT !.recovery = upgrade.version]
          /\ upgrade' = [upgrade EXCEPT !.at = "prepared"]
       \/ /\ \E force \in BOOLEAN : upgrade' = [at |-> "idle", version |-> 0, force |-> force]
          /\ UNCHANGED otaDisk
    /\ UNCHANGED <<otad, procLock, offer, local, starts, crashes>>

Restart ==
    /\ otad' = [r \in Processes |-> Idle]
    /\ procLock' = NoRun
    /\ upgrade' = [at |-> "idle", version |-> 0, force |-> FALSE]

\* After the sound the system is rebooted; recovery installs what it is told.
RebootOta ==
    /\ upgrade.at = "prepared"
    /\ Restart
    /\ local' = IF otaDisk.recovery # 0 /\ otaDisk.image[otaDisk.recovery] = "good"
                THEN otaDisk.recovery ELSE local
    /\ otaDisk' = [otaDisk EXCEPT !.recovery = 0]
    /\ UNCHANGED <<offer, starts, crashes>>

-----------------------------------------------------------------------------
(* Faults and the cloud *)

NewVersion ==
    /\ offer < MaxVersion /\ offer' = offer + 1
    /\ UNCHANGED <<otaDisk, otad, procLock, upgrade, local, starts, crashes>>

\* What is being written is lost, or was not begun.
CutShort ==
    {otaDisk} \cup
    IF \E r \in Processes : otad[r].at \in {"write", "size", "keep", "mark", "downloaded"}
    THEN {[otaDisk EXCEPT !.info = NoInfo]} ELSE {}

PowerLoss ==
    /\ crashes < MaxCrashes /\ crashes' = crashes + 1
    /\ Restart
    /\ otaDisk' \in CutShort
    /\ UNCHANGED <<offer, local, starts>>

Killed(r) ==
    /\ crashes < MaxCrashes /\ crashes' = crashes + 1
    /\ otad[r].at # "idle"
    /\ otad' = [otad EXCEPT ![r] = Idle]
    /\ procLock' = IF procLock = r THEN NoRun ELSE procLock
    /\ UNCHANGED <<otaDisk, upgrade, offer, local, starts>>

OtaNext ==
    \/ \E r \in Runs :
         \/ StartRun(r) \/ LockProc(r) \/ Fails(r) \/ FetchOtaInfo(r) \/ ReadInfo(r)
         \/ WriteNewInfo(r) \/ StatImage(r) \/ KeepImage(r) \/ CheckDiskAvailability(r)
         \/ MarkDownloading(r) \/ DoDownloadImage(r) \/ MarkDownloaded(r)
         \/ CalculateFileHash(r) \/ Killed(r)
    \/ \E r \in Processes : ResetOta(r) \/ UnlinkInfo(r) \/ CleanImages(r)
    \/ FirstBootAfterUpgrade \/ AskUpgrade \/ Availability \/ RebootOta
    \/ NewVersion \/ PowerLoss

OtaSpec == OtaInit /\ [][OtaNext]_otaVars

-----------------------------------------------------------------------------
(* Properties *)

\* Whatever was interrupted, and whoever cleans up: an info that says that the
\* image is downloaded finds an image as long as it should be.
PendingHasImage ==
    otaDisk.info.status = "downloaded" => otaDisk.image[otaDisk.info.version] \in Whole

\* A run that has downloaded or found an image has it until it is through.
ImageOfRun ==
    \A r \in Runs :
       otad[r].at \in {"keep", "downloaded", "verify"} => otaDisk.image[otad[r].version] \in Whole

\* "Downloads OTA image and check file validity": what recovery is told to
\* install is an image with the right hash.
PreparedIsValid == otaDisk.recovery # 0 => otaDisk.image[otaDisk.recovery] = "good"

\* "not errored for locking, shall retry in a short sleep" (otad/index.js:80): a
\* run that was refused the lock does not go on to throw away the update that
\* the other one has downloaded meanwhile.
RefusedKeepsTheImage ==
    [][\A r \in Runs : otad[r].at = "refused" /\ otad'[r].at = "unlink"
                         => otaDisk.info.status # "downloaded"]_otaVars

\* After a crash between any two steps of an update, and with two runs at once,
\* what is recorded of an image is true of the file.
OtaInv == OtaTypeOK /\ PendingHasImage /\ ImageOfRun
=============================================================================
