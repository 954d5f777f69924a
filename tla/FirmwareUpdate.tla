--------------------------- MODULE FirmwareUpdate ---------------------------
(***************************************************************************)
(* modules/app/lua/upgrade.lua and app/lpm/lua/switch.lua: the             *)
(* installation of a firmware and the switch to it.                        *)
(*                                                                         *)
(* Every version has a directory of its own, v<version>, and the device    *)
(* boots through the link `bin', which points into one of them.  An        *)
(* installer holds a file lock, removes the versions that are neither      *)
(* current nor new, brings the files of the new version up to date one by  *)
(* one, and starts a daemon of the new version that replaces the link.     *)
(* The lock is released when the installer's process ends, whatever the    *)
(* daemon does.  Processes are killed and the power fails at any moment.   *)
(***************************************************************************)
EXTENDS Integers, FiniteSets

CONSTANTS
    Procs,           \* processes that may run `lpm install' or `lpm upgrade'
    Versions,        \* versions of the firmware
    Factory,         \* the one that is installed at first
    Files,           \* files of a version
    Bin,             \* those of them that are its programs, bin/
    MaxFaults,       \* bound: kills, power failures and writes that fail
    NextAfterSwitch  \* users wait for a switch to end before they install again

None == "none"

ASSUME FirmwareAssumption ==
    /\ Factory \in Versions /\ None \notin Versions \cup Procs
    /\ Bin \subseteq Files /\ Bin # {}
    /\ MaxFaults \in Nat
    /\ NextAfterSwitch \in BOOLEAN

VARIABLES
    \* the flash
    tree,     \* [Versions -> [Files -> {"absent", "stale", "good"}]]
    link,     \* the version `bin' points to, or None
    \* processes
    lock,     \* the installer that holds the file lock, or None
    pc,       \* [Procs -> what the installer does next]
    version,  \* [Procs -> the version it installs]
    running,  \* [Procs -> the version whose programs it runs, app.rootPath]
    doomed,   \* [Procs -> versions that it has still to remove]
    list,     \* [Procs -> files that it has still to update]
    file,     \* [Procs -> the file that it updates, Files or None]
    faileds,  \* [Procs -> some file could not be updated]
    switch,   \* [Versions -> what the daemon of the version does next]
    faults

flash   == <<tree, link>>
process == <<lock, pc, version, running, doomed, list, file, faileds>>
firmwareVars == <<flash, process, switch, faults>>

\* At first, directories of other versions may hold files of earlier builds.
FirmwareInit ==
    /\ \E left \in SUBSET (Versions \ {Factory}) :
         tree = [v \in Versions |-> [f \in Files |->
                   IF v = Factory THEN "good" ELSE IF v \in left THEN "stale" ELSE "absent"]]
    /\ link = Factory
    /\ lock = None
    /\ pc = [p \in Procs |-> "idle"]
    /\ version = [p \in Procs |-> Factory] /\ running = [p \in Procs |-> Factory]
    /\ doomed = [p \in Procs |-> {}] /\ list = [p \in Procs |-> {}]
    /\ file = [p \in Procs |-> None] /\ faileds = [p \in Procs |-> FALSE]
    /\ switch = [v \in Versions |-> "none"]
    /\ faults = 0

Complete(v) == \A f \in Files : tree[v][f] = "good"
HasBin(v) == \A f \in Bin : tree[v][f] # "absent"
Bootable == link # None /\ \A f \in Bin : tree[link][f] = "good"
Fault == faults < MaxFaults /\ faults' = faults + 1

\* An installer that is not running.
Idle(p) == pc[p] = "idle"

\* The end of a process releases its lock.
\* Variant: the lock is kept.
Exit_KeepsLock(p) == pc' = [pc EXCEPT ![p] = "idle"] /\ lock' = lock
Exit(p) ==
    /\ pc' = [pc EXCEPT ![p] = "idle"]
    /\ lock' = IF lock = p THEN None ELSE lock

-----------------------------------------------------------------------------
(* install: takes the lock, opens the package and reads its version.  A    *)
(* package or a lock that is refused ends the process with nothing done.   *)
Install(p, v) ==
    /\ Idle(p) /\ Bootable
    /\ NextAfterSwitch => \A w \in Versions : switch[w] = "none"
    /\ lock = None /\ lock' = p
    /\ pc' = [pc EXCEPT ![p] = "clean"]
    /\ version' = [version EXCEPT ![p] = v]
    /\ running' = [running EXCEPT ![p] = link]
    /\ faileds' = [faileds EXCEPT ![p] = FALSE]
    /\ UNCHANGED <<flash, doomed, list, file, switch, faults>>

(* cleanFirmwareFile: the versions to remove are found first ...           *)
\* Variant: only the new version is kept.
Kept_New(p) == {version[p]}
Kept(p) == {version[p], IF link # None THEN link ELSE running[p]}

Clean(p) ==
    /\ pc[p] = "clean"
    /\ doomed' = [doomed EXCEPT ![p] = Versions \ Kept(p)]
    /\ pc' = [pc EXCEPT ![p] = "remove"]
    /\ UNCHANGED <<flash, lock, version, running, list, file, faileds, switch, faults>>

(* ... and removed one by one with `rm -rf', file by file. *)
Remove(p) ==
    /\ pc[p] = "remove"
    /\ \E v \in doomed[p] :
         \/ /\ \E f \in Files :
                 /\ tree[v][f] # "absent"
                 /\ tree' = [tree EXCEPT ![v][f] = "absent"]
            /\ UNCHANGED doomed
         \/ /\ \A f \in Files : tree[v][f] = "absent"
            /\ doomed' = [doomed EXCEPT ![p] = @ \ {v}]
            /\ UNCHANGED tree
    /\ UNCHANGED <<link, lock, pc, version, running, list, file, faileds, switch, faults>>

(* checkAllFiles: files that are missing or differ from the package. *)
Outdated(p) == {f \in Files : tree[version[p]][f] # "good"}

CheckAllFiles(p) ==
    /\ pc[p] = "remove" /\ doomed[p] = {}
    /\ list' = [list EXCEPT ![p] = Outdated(p)]
    /\ pc' = [pc EXCEPT ![p] = "update"]
    /\ UNCHANGED <<flash, lock, version, running, doomed, file, faileds, switch, faults>>

(* updateFile: the temporary file, written and checked; the old file       *)
(* removed; the temporary one renamed.                                     *)
WriteTemp(p) ==
    /\ pc[p] = "update"
    /\ \E f \in list[p] :
         \/ /\ Fault
            /\ faileds' = [faileds EXCEPT ![p] = TRUE]
            /\ list' = [list EXCEPT ![p] = @ \ {f}]
            /\ UNCHANGED <<file, pc>>
         \/ /\ file' = [file EXCEPT ![p] = f]
            /\ pc' = [pc EXCEPT ![p] = "unlink"]
            /\ UNCHANGED <<list, faileds, faults>>
    /\ UNCHANGED <<flash, lock, version, running, doomed, switch>>

RemoveDest(p) ==
    /\ pc[p] = "unlink"
    /\ tree' = [tree EXCEPT ![version[p]][file[p]] = "absent"]
    /\ pc' = [pc EXCEPT ![p] = "rename"]
    /\ UNCHANGED <<link, lock, version, running, doomed, list, file, faileds, switch, faults>>

Rename(p) ==
    /\ pc[p] = "rename"
    /\ tree' = [tree EXCEPT ![version[p]][file[p]] = "good"]
    /\ list' = [list EXCEPT ![p] = @ \ {file[p]}]
    /\ pc' = [pc EXCEPT ![p] = "update"]
    /\ file' = [file EXCEPT ![p] = None]
    /\ UNCHANGED <<link, lock, version, running, doomed, faileds, switch, faults>>

(* The end of upgradeSystemPackage: failures end the installation; without *)
(* any, the switch is due in 400 ms.                                       *)
\* Variant: the number of failures is not looked at.
Updated_Anyway(p) == TRUE
Updated(p) == ~faileds[p]

Finish(p) ==
    /\ pc[p] = "update" /\ list[p] = {}
    /\ \/ Updated(p) /\ pc' = [pc EXCEPT ![p] = "switch"] /\ UNCHANGED lock
       \/ ~Updated(p) /\ Exit(p)
    /\ UNCHANGED <<flash, version, running, doomed, list, file, faileds, switch, faults>>

(* `lnode -d' of the new version forks a daemon, or starts nothing when    *)
(* its programs are gone; `lpm install' ends, `lpm upgrade' stays until it *)
(* reboots the device, 10 seconds later, when the daemons have ended.      *)
SwitchVersion(p) ==
    /\ pc[p] = "switch"
    /\ switch' = IF HasBin(version[p]) /\ switch[version[p]] = "none"
                 THEN [switch EXCEPT ![version[p]] = "check"] ELSE switch
    /\ Exit(p) \/ (pc' = [pc EXCEPT ![p] = "reboot"] /\ UNCHANGED lock)
    /\ UNCHANGED <<flash, version, running, doomed, list, file, faileds, faults>>

-----------------------------------------------------------------------------
(* switchFirmwareFile, in the daemon of version v. *)
CheckSwitch(v) ==
    /\ switch[v] = "check"
    /\ switch' = [switch EXCEPT ![v] =
                    IF HasBin(v) /\ link # v THEN "remove" ELSE "none"]
    /\ UNCHANGED <<flash, process, faults>>

RemoveLink(v) ==
    /\ switch[v] = "remove"
    /\ link' = None
    /\ switch' = [switch EXCEPT ![v] = "link"]
    /\ UNCHANGED <<tree, process, faults>>

\* `ln -s' does not replace a link to a directory.
MakeLink(v) ==
    /\ switch[v] = "link"
    /\ link' = IF link = None THEN v ELSE link
    /\ switch' = [switch EXCEPT ![v] = "none"]
    /\ UNCHANGED <<tree, process, faults>>

-----------------------------------------------------------------------------
\* All processes end; the flash remains.
Restart ==
    /\ lock' = None
    /\ pc' = [p \in Procs |-> "idle"]
    /\ switch' = [v \in Versions |-> "none"]
    /\ UNCHANGED <<flash, version, running, doomed, list, file, faileds>>

Reboot(p) ==
    /\ pc[p] = "reboot" /\ \A v \in Versions : switch[v] = "none"
    /\ Restart
    /\ UNCHANGED faults
PowerFails == Fault /\ Restart

Kill(p) ==
    /\ ~Idle(p) /\ Fault
    /\ Exit(p)
    /\ UNCHANGED <<flash, version, running, doomed, list, file, faileds, switch>>

KillSwitch(v) ==
    /\ switch[v] # "none" /\ Fault
    /\ switch' = [switch EXCEPT ![v] = "none"]
    /\ UNCHANGED <<flash, process>>

Installer(p) ==
    \/ Clean(p) \/ Remove(p) \/ CheckAllFiles(p) \/ WriteTemp(p) \/ RemoveDest(p)
    \/ Rename(p) \/ Finish(p) \/ SwitchVersion(p) \/ Reboot(p)
Daemon(v) == CheckSwitch(v) \/ RemoveLink(v) \/ MakeLink(v)
FirmwareNext ==
    \/ \E p \in Procs : Installer(p) \/ Kill(p) \/ \E v \in Versions : Install(p, v)
    \/ \E v \in Versions : Daemon(v) \/ KillSwitch(v)
    \/ PowerFails

FirmwareSpec == FirmwareInit /\ [][FirmwareNext]_firmwareVars

\* Processes go on, and users try every version again and again.
FirmwareFairness ==
    /\ \A p \in Procs : WF_firmwareVars(Installer(p))
    /\ \A v \in Versions :
          WF_firmwareVars(Daemon(v)) /\ SF_firmwareVars(\E p \in Procs : Install(p, v))

FirmwareFairSpec == FirmwareSpec /\ FirmwareFairness

-----------------------------------------------------------------------------
FirmwareTypeOK ==
    /\ tree \in [Versions -> [Files -> {"absent", "stale", "good"}]]
    /\ link \in Versions \cup {None}
    /\ lock \in {p \in Procs : ~Idle(p)} \cup {None}
    /\ pc \in [Procs -> {"idle", "clean", "remove", "update", "unlink", "rename",
                         "switch", "reboot"}]
    /\ version \in [Procs -> Versions] /\ running \in [Procs -> Versions]
    /\ doomed \in [Procs -> SUBSET Versions] /\ list \in [Procs -> SUBSET Files]
    /\ file \in [Procs -> Files \cup {None}] /\ faileds \in [Procs -> BOOLEAN]
    /\ switch \in [Versions -> {"none", "check", "remove", "link"}]
    /\ faults \in 0 .. MaxFaults
=============================================================================
