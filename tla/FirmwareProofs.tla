--------------------------- MODULE FirmwareProofs ---------------------------
(***************************************************************************)
(* Proofs about FirmwareUpdate for any processes, versions and files and   *)
(* any number of faults.                                                   *)
(***************************************************************************)
EXTENDS MCFirmware, TLAPS

(* An installer that has not ended and does not just wait to reboot.       *)
Working(p) == pc[p] \notin {"idle", "reboot"}

(* What an installer still has to do leaves the linked version alone, and  *)
(* a version is complete but for the files in the list, unless one failed. *)
Plan(p) ==
    /\ pc[p] = "remove" => version[p] \notin doomed[p] /\ link \notin doomed[p]
    /\ pc[p] \in {"update", "unlink", "rename"} =>
          /\ \A f \in list[p] : tree[version[p]][f] # "good"
          /\ faileds[p] \/ \A f \in Files \ list[p] : tree[version[p]][f] = "good"
    /\ pc[p] \in {"unlink", "rename"} => file[p] \in list[p]
    /\ pc[p] = "switch" => Complete(version[p])

(* Processes that run hold the lock; while one works there is a link and   *)
(* no daemon switches; daemons switch to complete versions.                *)
Locked == \A p \in Procs : ~Idle(p) => lock = p
Apart ==
    \A p \in Procs : Working(p) => link # None /\ \A v \in Versions : switch[v] = "none"
SwitchComplete == \A v \in Versions : switch[v] # "none" => Complete(v)

(* The inductive invariant: one installer at a time, none at work while a  *)
(* daemon switches, and only complete versions to switch to.               *)
IInv ==
    /\ FirmwareTypeOK
    /\ LinkComplete
    /\ SomeComplete
    /\ Locked
    /\ Apart
    /\ \A p \in Procs : Plan(p)
    /\ SwitchComplete

-----------------------------------------------------------------------------
(* Every variable keeps its type. *)

LEMMA InitType == FirmwareInit => FirmwareTypeOK
BY FirmwareAssumption DEF FirmwareInit, FirmwareTypeOK, Idle

LEMMA ExitType ==
    ASSUME FirmwareTypeOK, NEW p \in Procs, Exit(p)
    PROVE  /\ pc' \in [Procs -> {"idle", "clean", "remove", "update", "unlink",
                                 "rename", "switch", "reboot"}]
           /\ lock' \in {q \in Procs : pc'[q] # "idle"} \cup {None}
BY FirmwareAssumption DEF FirmwareTypeOK, Exit, Idle

LEMMA InstallerType ==
    ASSUME FirmwareTypeOK, NEW p \in Procs, Installer(p)
    PROVE  FirmwareTypeOK'
<1> USE FirmwareAssumption DEF FirmwareTypeOK, Idle, flash
<1>1. CASE Clean(p)
  BY <1>1 DEF Clean
<1>2. CASE Remove(p)
  <2>1. PICK v \in doomed[p] :
           \/ doomed' = doomed /\ \E f \in Files : tree' = [tree EXCEPT ![v][f] = "absent"]
           \/ tree' = tree /\ doomed' = [doomed EXCEPT ![p] = @ \ {v}]
    BY <1>2 DEF Remove
  <2>2. v \in Versions
    OBVIOUS
  <2>3. tree' \in [Versions -> [Files -> {"absent", "stale", "good"}]]
    <3>1. CASE tree' = tree
      BY <3>1
    <3>2. ASSUME NEW f \in Files, tree' = [tree EXCEPT ![v][f] = "absent"]
          PROVE  tree' \in [Versions -> [Files -> {"absent", "stale", "good"}]]
      BY <3>2, <2>2
    <3> QED
      BY <2>1, <3>1, <3>2
  <2>4. doomed' \in [Procs -> SUBSET Versions]
    BY <2>1
  <2> QED
    BY <1>2, <2>3, <2>4 DEF Remove
<1>3. CASE CheckAllFiles(p)
  BY <1>3 DEF CheckAllFiles, Outdated
<1>4. CASE WriteTemp(p)
  <2>3. PICK f \in list[p] :
           \/ /\ faults < MaxFaults /\ faults' = faults + 1
              /\ faileds' = [faileds EXCEPT ![p] = TRUE]
              /\ list' = [list EXCEPT ![p] = @ \ {f}]
              /\ UNCHANGED <<file, pc>>
           \/ /\ file' = [file EXCEPT ![p] = f]
              /\ pc' = [pc EXCEPT ![p] = "unlink"]
              /\ UNCHANGED <<list, faileds, faults>>
    BY <1>4 DEF WriteTemp, Fault
  <2>4. faileds' \in [Procs -> BOOLEAN]
    BY <2>3, Zenon
  <2>1. /\ faults' \in 0 .. MaxFaults
        /\ faileds' \in [Procs -> BOOLEAN]
        /\ list' \in [Procs -> SUBSET Files]
        /\ file' \in [Procs -> Files \cup {None}]
        /\ pc' = pc \/ pc' = [pc EXCEPT ![p] = "unlink"]
    <3> f \in Files
      OBVIOUS
    <3>1. faults' \in 0 .. MaxFaults
      BY <2>3
    <3>2. list' \in [Procs -> SUBSET Files] /\ file' \in [Procs -> Files \cup {None}]
      <4>1. list' = list \/ list' = [list EXCEPT ![p] = @ \ {f}]
        BY <2>3
      <4>2. file' = file \/ file' = [file EXCEPT ![p] = f]
        BY <2>3
      <4>3. list' \in [Procs -> SUBSET Files]
        <5>1. list[p] \ {f} \in SUBSET Files
          OBVIOUS
        <5>2. list \in [Procs -> SUBSET Files]
          OBVIOUS
        <5> QED
          BY <4>1, <5>1, <5>2, Zenon
      <4>4. file' \in [Procs -> Files \cup {None}]
        BY <4>2
      <4> QED
        BY <4>3, <4>4
    <3>3. pc' = pc \/ pc' = [pc EXCEPT ![p] = "unlink"]
      BY <2>3
    <3> QED
      BY <2>4, <3>1, <3>2, <3>3
  <2>2. /\ pc' \in [Procs -> {"idle", "clean", "remove", "update", "unlink",
                              "rename", "switch", "reboot"}]
        /\ lock' \in {q \in Procs : pc'[q] # "idle"} \cup {None}
    BY <1>4, <2>1 DEF WriteTemp
  <2> QED
    BY <1>4, <2>1, <2>2 DEF WriteTemp
<1>5. CASE RemoveDest(p)
  BY <1>5 DEF RemoveDest
<1>6. CASE Rename(p)
  BY <1>6 DEF Rename
<1>7. CASE Finish(p)
  BY <1>7, ExitType DEF Finish
<1>8. CASE SwitchVersion(p)
  <2>1. switch' \in [Versions -> {"none", "check", "remove", "link"}]
    BY <1>8 DEF SwitchVersion
  <2>2. /\ pc' \in [Procs -> {"idle", "clean", "remove", "update", "unlink",
                              "rename", "switch", "reboot"}]
        /\ lock' \in {q \in Procs : pc'[q] # "idle"} \cup {None}
    <3>1. CASE Exit(p)
      BY <3>1, ExitType
    <3>2. CASE pc' = [pc EXCEPT ![p] = "reboot"] /\ UNCHANGED lock
      BY <3>2
    <3> QED
      BY <1>8, <3>1, <3>2 DEF SwitchVersion
  <2> QED
    BY <1>8, <2>1, <2>2 DEF SwitchVersion
<1>9. CASE Reboot(p)
  BY <1>9 DEF Reboot, Restart
<1> QED
  BY <1>1, <1>2, <1>3, <1>4, <1>5, <1>6, <1>7, <1>8, <1>9 DEF Installer

LEMMA OtherType ==
    ASSUME FirmwareTypeOK, NEW p \in Procs, NEW v \in Versions, Install(p, v) \/ Kill(p)
    PROVE  FirmwareTypeOK'
<1> USE FirmwareAssumption DEF FirmwareTypeOK, Idle, flash, process
<1>1. CASE Install(p, v)
  BY <1>1 DEF Install, Bootable
<1>2. CASE Kill(p)
  BY <1>2, ExitType DEF Kill, Fault
<1> QED
  BY <1>1, <1>2

LEMMA OtherStepType ==
    ASSUME FirmwareTypeOK, NEW v \in Versions, Daemon(v) \/ KillSwitch(v) \/ PowerFails
    PROVE  FirmwareTypeOK'
<1> USE FirmwareAssumption DEF FirmwareTypeOK, Idle, flash, process
<1>3. CASE Daemon(v)
  BY <1>3 DEF Daemon, CheckSwitch, RemoveLink, MakeLink
<1>4. CASE KillSwitch(v)
  BY <1>4 DEF KillSwitch, Fault
<1>5. CASE PowerFails
  BY <1>5 DEF PowerFails, Fault, Restart
<1> QED
  BY <1>3, <1>4, <1>5

-----------------------------------------------------------------------------
(* Steps of an installer. *)

LEMMA Alone ==
    ASSUME IInv, NEW p \in Procs, ~Idle(p), NEW q \in Procs, q # p
    PROVE  pc[q] = "idle"
BY DEF IInv, Locked, Idle

LEMMA FlashSame ==
    ASSUME LinkComplete, SomeComplete, UNCHANGED flash
    PROVE  /\ LinkComplete' /\ SomeComplete'
           /\ \A v \in Versions : Complete(v) => Complete(v)'
BY DEF LinkComplete, SomeComplete, Complete, flash

(* A change of another version than the linked one is harmless. *)
LEMMA OtherVersionChanges ==
    ASSUME FirmwareTypeOK, LinkComplete, link # None, link' = link,
           NEW v \in Versions, v # link,
           NEW f \in Files, NEW x, tree' = [tree EXCEPT ![v][f] = x]
    PROVE  LinkComplete' /\ SomeComplete'
<1>1. link \in Versions /\ tree'[link] = tree[link]
  BY DEF FirmwareTypeOK
<1> QED
  BY <1>1 DEF LinkComplete, SomeComplete, Complete

(* The parts of the invariant about other installers than p, which are     *)
(* idle, and about the lock.                                               *)
LEMMA OthersIdle ==
    ASSUME IInv, NEW p \in Procs, ~Idle(p), lock' = lock,
           \A q \in Procs : q # p => pc'[q] = pc[q]
    PROVE  Locked' /\ \A q \in Procs : q # p => pc'[q] = "idle" /\ Plan(q)'
<1>1. lock = p /\ \A q \in Procs : q # p => pc[q] = "idle"
  BY Alone DEF IInv, Locked
<1>2. Locked'
  BY <1>1 DEF Locked, Idle
<1> QED
  BY <1>1, <1>2 DEF Plan

(* A step after which p still works, no daemon switches and the link is    *)
(* the same.                                                               *)
LEMMA WorkGoesOn ==
    ASSUME IInv, NEW p \in Procs, Working(p), UNCHANGED <<lock, link, switch>>,
           \A q \in Procs : q # p => pc'[q] = pc[q]
    PROVE  /\ link # None /\ Locked' /\ Apart' /\ SwitchComplete'
           /\ \A q \in Procs : q # p => Plan(q)'
<1>1. ~Idle(p) /\ link # None /\ \A v \in Versions : switch[v] = "none"
  BY DEF Working, Idle, IInv, Apart
<1>2. Locked' /\ \A q \in Procs : q # p => Plan(q)'
  BY <1>1, OthersIdle
<1>3. Apart' /\ SwitchComplete'
  BY <1>1 DEF Apart, SwitchComplete
<1> QED
  BY <1>1, <1>2, <1>3

LEMMA CleanKeeps ==
    ASSUME IInv, NEW p \in Procs, Clean(p)
    PROVE  IInv'
<1>1. FirmwareTypeOK'
  BY InstallerType DEF IInv, Installer
<1>2. Working(p) /\ pc'[p] = "remove" /\ \A q \in Procs : q # p => pc'[q] = pc[q]
  BY DEF Clean, Working, IInv, FirmwareTypeOK
<1>3. /\ link # None /\ Locked' /\ Apart' /\ SwitchComplete'
      /\ \A q \in Procs : q # p => Plan(q)'
  BY <1>2, WorkGoesOn DEF Clean, flash
<1>4. LinkComplete' /\ SomeComplete'
  BY FlashSame DEF IInv, Clean
<1>5. Plan(p)'
  BY <1>2, <1>3 DEF Plan, Clean, Kept, IInv, FirmwareTypeOK, flash
<1> QED
  BY <1>1, <1>3, <1>4, <1>5 DEF IInv

LEMMA RemoveKeeps ==
    ASSUME IInv, NEW p \in Procs, Remove(p)
    PROVE  IInv'
<1>1. FirmwareTypeOK'
  BY InstallerType DEF IInv, Installer
<1>2. pc[p] = "remove" /\ Working(p) /\ UNCHANGED <<pc, lock, link, switch, version>>
  BY DEF Remove, Working
<1>3. /\ link # None /\ Locked' /\ Apart' /\ SwitchComplete'
      /\ \A q \in Procs : q # p => Plan(q)'
  BY <1>2, WorkGoesOn
<1>4. PICK v \in doomed[p] :
         \/ doomed' = doomed /\ \E f \in Files : tree' = [tree EXCEPT ![v][f] = "absent"]
         \/ tree' = tree /\ doomed' = [doomed EXCEPT ![p] = @ \ {v}]
  BY DEF Remove
<1>5. v \in Versions /\ v # link
  BY <1>2 DEF IInv, FirmwareTypeOK, Plan
<1>6. LinkComplete' /\ SomeComplete'
  <2>1. CASE tree' = tree
    BY <1>2, <2>1, FlashSame DEF IInv, flash
  <2>2. ASSUME NEW f \in Files, tree' = [tree EXCEPT ![v][f] = "absent"]
        PROVE  LinkComplete' /\ SomeComplete'
    BY <1>2, <1>3, <1>5, <2>2, OtherVersionChanges DEF IInv
  <2> QED
    BY <1>4, <2>1, <2>2
<1>7. Plan(p)'
  <2>1. \A w \in Versions : w \in doomed'[p] => w \in doomed[p]
    BY <1>4 DEF IInv, FirmwareTypeOK
  <2>2. version[p] \in Versions /\ link \in Versions
    BY <1>3 DEF IInv, FirmwareTypeOK
  <2>3. version[p] \notin doomed[p] /\ link \notin doomed[p]
    BY <1>2 DEF IInv, Plan
  <2> QED
    BY <1>2, <2>1, <2>2, <2>3 DEF Plan
<1> QED
  BY <1>1, <1>3, <1>6, <1>7 DEF IInv

LEMMA CheckAllFilesKeeps ==
    ASSUME IInv, NEW p \in Procs, CheckAllFiles(p)
    PROVE  IInv'
<1>1. FirmwareTypeOK'
  BY InstallerType DEF IInv, Installer
<1>2. Working(p) /\ pc'[p] = "update" /\ \A q \in Procs : q # p => pc'[q] = pc[q]
  BY DEF CheckAllFiles, Working, IInv, FirmwareTypeOK
<1>3. /\ link # None /\ Locked' /\ Apart' /\ SwitchComplete'
      /\ \A q \in Procs : q # p => Plan(q)'
  BY <1>2, WorkGoesOn DEF CheckAllFiles, flash
<1>4. LinkComplete' /\ SomeComplete'
  BY FlashSame DEF IInv, CheckAllFiles
<1>5. list'[p] = Outdated(p) /\ UNCHANGED <<tree, version>>
  BY DEF CheckAllFiles, IInv, FirmwareTypeOK, flash
<1>6. Plan(p)'
  BY <1>2, <1>5 DEF Plan, Outdated
<1> QED
  BY <1>1, <1>3, <1>4, <1>6 DEF IInv

LEMMA WriteTempKeeps ==
    ASSUME IInv, NEW p \in Procs, WriteTemp(p)
    PROVE  IInv'
<1>1. FirmwareTypeOK'
  BY InstallerType DEF IInv, Installer
<1>2. /\ pc[p] = "update" /\ Working(p) /\ UNCHANGED <<tree, link, lock, version, switch>>
      /\ \A q \in Procs : q # p => pc'[q] = pc[q]
  BY DEF WriteTemp, Working, IInv, FirmwareTypeOK, flash
<1>3. /\ link # None /\ Locked' /\ Apart' /\ SwitchComplete'
      /\ \A q \in Procs : q # p => Plan(q)'
  BY <1>2, WorkGoesOn
<1>4. LinkComplete' /\ SomeComplete'
  BY FlashSame DEF IInv, WriteTemp
<1>5. PICK f \in list[p] :
         \/ faileds'[p] /\ list'[p] = list[p] \ {f} /\ pc'[p] = "update"
         \/ file'[p] = f /\ pc'[p] = "unlink" /\ UNCHANGED <<list, faileds>>
  <2>1. PICK f \in list[p] :
           \/ /\ faileds' = [faileds EXCEPT ![p] = TRUE]
              /\ list' = [list EXCEPT ![p] = @ \ {f}]
              /\ UNCHANGED pc
           \/ /\ file' = [file EXCEPT ![p] = f]
              /\ pc' = [pc EXCEPT ![p] = "unlink"]
              /\ UNCHANGED <<list, faileds>>
    BY DEF WriteTemp
  <2>2. DOMAIN faileds = Procs /\ DOMAIN list = Procs /\ DOMAIN file = Procs
        /\ DOMAIN pc = Procs
    BY DEF IInv, FirmwareTypeOK
  <2>3. CASE /\ faileds' = [faileds EXCEPT ![p] = TRUE]
             /\ list' = [list EXCEPT ![p] = @ \ {f}]
             /\ UNCHANGED pc
    <3>1. faileds'[p]
      BY <2>2, <2>3, Zenon
    <3>2. list'[p] = list[p] \ {f} /\ pc'[p] = "update"
      BY <1>2, <2>2, <2>3
    <3> QED
      BY <3>1, <3>2
  <2>4. CASE /\ file' = [file EXCEPT ![p] = f]
             /\ pc' = [pc EXCEPT ![p] = "unlink"]
             /\ UNCHANGED <<list, faileds>>
    BY <2>2, <2>4
  <2> QED
    BY <2>1, <2>3, <2>4
<1>6. /\ \A g \in list[p] : tree[version[p]][g] # "good"
      /\ faileds[p] \/ \A g \in Files \ list[p] : tree[version[p]][g] = "good"
  BY <1>2 DEF IInv, Plan
<1>7. Plan(p)'
  BY <1>2, <1>5, <1>6 DEF Plan
<1> QED
  BY <1>1, <1>3, <1>4, <1>7 DEF IInv

(* The file that is being replaced is not one of the linked version, which *)
(* is complete.                                                            *)
LEMMA FileOfOther ==
    ASSUME IInv, NEW p \in Procs, pc[p] \in {"unlink", "rename"}
    PROVE  /\ Working(p) /\ link # None /\ file[p] \in list[p] /\ file[p] \in Files
           /\ version[p] \in Versions /\ version[p] # link
<1>1. Working(p) /\ link # None
  BY DEF Working, IInv, Apart
<1>2. file[p] \in list[p] /\ file[p] \in Files /\ version[p] \in Versions
  BY DEF IInv, Plan, FirmwareTypeOK
<1>3. tree[version[p]][file[p]] # "good"
  BY <1>2 DEF IInv, Plan
<1> QED
  BY <1>1, <1>2, <1>3 DEF IInv, LinkComplete, Complete

LEMMA RemoveDestKeeps ==
    ASSUME IInv, NEW p \in Procs, RemoveDest(p)
    PROVE  IInv'
<1>1. FirmwareTypeOK'
  BY InstallerType DEF IInv, Installer
<1>2. /\ Working(p) /\ link # None /\ file[p] \in list[p] /\ file[p] \in Files
      /\ version[p] \in Versions /\ version[p] # link
  BY FileOfOther DEF RemoveDest
<1>3. pc'[p] = "rename" /\ \A q \in Procs : q # p => pc'[q] = pc[q]
  BY DEF RemoveDest, IInv, FirmwareTypeOK
<1>4. /\ Locked' /\ Apart' /\ SwitchComplete'
      /\ \A q \in Procs : q # p => Plan(q)'
  BY <1>2, <1>3, WorkGoesOn DEF RemoveDest
<1>5. LinkComplete' /\ SomeComplete'
  BY <1>2, OtherVersionChanges DEF IInv, RemoveDest
<1>6. \A g \in Files : tree'[version[p]][g] = IF g = file[p] THEN "absent" ELSE tree[version[p]][g]
  BY <1>2 DEF RemoveDest, IInv, FirmwareTypeOK
<1>7. /\ \A g \in list[p] : tree[version[p]][g] # "good"
      /\ faileds[p] \/ \A g \in Files \ list[p] : tree[version[p]][g] = "good"
  BY DEF IInv, Plan, RemoveDest
<1>8. list[p] \subseteq Files
  BY DEF IInv, FirmwareTypeOK
<1>9. Plan(p)'
  <2>1. UNCHANGED <<version, list, file, faileds>>
    BY DEF RemoveDest
  <2>2. \A g \in list[p] : tree'[version[p]][g] # "good"
    BY <1>6, <1>7, <1>8
  <2>3. faileds[p] \/ \A g \in Files \ list[p] : tree'[version[p]][g] = "good"
    BY <1>2, <1>6, <1>7
  <2> QED
    BY <1>2, <1>3, <2>1, <2>2, <2>3 DEF Plan
<1> QED
  BY <1>1, <1>4, <1>5, <1>9 DEF IInv

LEMMA RenameKeeps ==
    ASSUME IInv, NEW p \in Procs, Rename(p)
    PROVE  IInv'
<1>1. FirmwareTypeOK'
  BY InstallerType DEF IInv, Installer
<1>2. /\ Working(p) /\ link # None /\ file[p] \in list[p] /\ file[p] \in Files
      /\ version[p] \in Versions /\ version[p] # link
  BY FileOfOther DEF Rename
<1>3. pc'[p] = "update" /\ \A q \in Procs : q # p => pc'[q] = pc[q]
  BY DEF Rename, IInv, FirmwareTypeOK
<1>4. /\ Locked' /\ Apart' /\ SwitchComplete'
      /\ \A q \in Procs : q # p => Plan(q)'
  BY <1>2, <1>3, WorkGoesOn DEF Rename
<1>5. LinkComplete' /\ SomeComplete'
  BY <1>2, OtherVersionChanges DEF IInv, Rename
<1>6. \A g \in Files : tree'[version[p]][g] = IF g = file[p] THEN "good" ELSE tree[version[p]][g]
  BY <1>2 DEF Rename, IInv, FirmwareTypeOK
<1>7. /\ \A g \in list[p] : tree[version[p]][g] # "good"
      /\ faileds[p] \/ \A g \in Files \ list[p] : tree[version[p]][g] = "good"
  BY DEF IInv, Plan, Rename
<1>8. list[p] \subseteq Files
  BY DEF IInv, FirmwareTypeOK
<1>9. Plan(p)'
  <2>1. UNCHANGED <<version, faileds>> /\ list'[p] = list[p] \ {file[p]}
    BY DEF Rename, IInv, FirmwareTypeOK
  <2>2. \A g \in list'[p] : tree'[version[p]][g] # "good"
    BY <1>6, <1>7, <1>8, <2>1
  <2>3. faileds[p] \/ \A g \in Files \ list'[p] : tree'[version[p]][g] = "good"
    BY <1>2, <1>6, <1>7, <2>1
  <2> QED
    BY <1>3, <2>1, <2>2, <2>3 DEF Plan
<1> QED
  BY <1>1, <1>4, <1>5, <1>9 DEF IInv

-----------------------------------------------------------------------------
(* Steps that end an installer, or start one. *)

(* An installer that ends leaves none: the others are idle. *)
LEMMA ExitLeavesNone ==
    ASSUME IInv, NEW p \in Procs, ~Idle(p), Exit(p)
    PROVE  \A q \in Procs : pc'[q] = "idle"
BY Alone DEF Exit, IInv, FirmwareTypeOK

LEMMA NoneWorks ==
    ASSUME \A q \in Procs : pc'[q] = "idle"
    PROVE  Locked' /\ Apart' /\ \A q \in Procs : Plan(q)'
BY DEF Locked, Apart, Plan, Idle, Working

LEMMA SwitchesAsBefore ==
    ASSUME SwitchComplete, UNCHANGED tree,
           \A v \in Versions : switch'[v] # "none" => switch[v] # "none" \/ Complete(v)
    PROVE  SwitchComplete'
BY DEF SwitchComplete, Complete

LEMMA FinishKeeps ==
    ASSUME IInv, NEW p \in Procs, Finish(p)
    PROVE  IInv'
<1>1. FirmwareTypeOK' /\ LinkComplete' /\ SomeComplete'
  BY InstallerType, FlashSame DEF IInv, Installer, Finish
<1>2. pc[p] = "update" /\ Working(p) /\ ~Idle(p) /\ list[p] = {}
  BY DEF Finish, Working, Idle
<1>3. UNCHANGED <<tree, link, version, switch>>
  BY DEF Finish, flash
<1>4. CASE Updated(p) /\ pc' = [pc EXCEPT ![p] = "switch"] /\ UNCHANGED lock
  <2>1. pc'[p] = "switch" /\ \A q \in Procs : q # p => pc'[q] = pc[q]
    BY <1>4 DEF IInv, FirmwareTypeOK
  <2>2. Locked' /\ Apart' /\ SwitchComplete' /\ \A q \in Procs : q # p => Plan(q)'
    BY <1>2, <1>3, <1>4, <2>1, WorkGoesOn
  <2>3. ~faileds[p]
    BY <1>4 DEF Updated
  <2>4. Complete(version[p])
    BY <1>2, <2>3 DEF IInv, Plan, Complete
  <2>5. Plan(p)'
    BY <1>3, <2>1, <2>4 DEF Plan, Complete
  <2> QED
    BY <1>1, <2>2, <2>5 DEF IInv
<1>5. CASE Exit(p)
  <2>1. Locked' /\ Apart' /\ \A q \in Procs : Plan(q)'
    BY <1>2, <1>5, ExitLeavesNone, NoneWorks
  <2>2. SwitchComplete'
    BY <1>3, SwitchesAsBefore DEF IInv
  <2> QED
    BY <1>1, <2>1, <2>2 DEF IInv
<1> QED
  BY <1>4, <1>5 DEF Finish

LEMMA SwitchVersionKeeps ==
    ASSUME IInv, NEW p \in Procs, SwitchVersion(p)
    PROVE  IInv'
<1>1. FirmwareTypeOK' /\ LinkComplete' /\ SomeComplete'
  BY InstallerType, FlashSame DEF IInv, Installer, SwitchVersion
<1>2. pc[p] = "switch" /\ ~Idle(p) /\ Complete(version[p])
  BY DEF SwitchVersion, Idle, IInv, Plan
<1>3. SwitchComplete'
  <2>1. \A v \in Versions : switch'[v] # "none" => switch[v] # "none" \/ Complete(v)
    BY <1>2 DEF SwitchVersion, IInv, FirmwareTypeOK
  <2> QED
    BY <2>1, SwitchesAsBefore DEF SwitchVersion, IInv, flash
<1>4. Locked' /\ Apart' /\ \A q \in Procs : Plan(q)'
  <2>1. CASE Exit(p)
    BY <1>2, <2>1, ExitLeavesNone, NoneWorks
  <2>2. CASE pc' = [pc EXCEPT ![p] = "reboot"] /\ UNCHANGED lock
    <3>1. pc'[p] = "reboot" /\ \A q \in Procs : q # p => pc'[q] = pc[q]
      BY <2>2 DEF IInv, FirmwareTypeOK
    <3>2. Locked' /\ \A q \in Procs : q # p => pc'[q] = "idle" /\ Plan(q)'
      BY <1>2, <2>2, <3>1, OthersIdle
    <3>3. Apart'
      BY <3>1, <3>2 DEF Apart, Working
    <3>4. Plan(p)'
      BY <3>1 DEF Plan
    <3> QED
      BY <3>2, <3>3, <3>4
  <2> QED
    BY <2>1, <2>2 DEF SwitchVersion
<1> QED
  BY <1>1, <1>3, <1>4 DEF IInv

LEMMA RestartKeeps ==
    ASSUME IInv, FirmwareTypeOK', Restart
    PROVE  IInv'
<1>1. LinkComplete' /\ SomeComplete'
  BY FlashSame DEF IInv, Restart
<1>2. \A q \in Procs : pc'[q] = "idle"
  BY DEF Restart
<1>3. SwitchComplete'
  BY DEF Restart, SwitchComplete
<1> QED
  BY <1>1, <1>2, <1>3, NoneWorks DEF IInv

LEMMA InstallerKeeps ==
    ASSUME IInv, NEW p \in Procs, Installer(p)
    PROVE  IInv'
<1>1. CASE Reboot(p)
  BY <1>1, InstallerType, RestartKeeps DEF IInv, Reboot
<1> QED
  BY <1>1, CleanKeeps, RemoveKeeps, CheckAllFilesKeeps, WriteTempKeeps, RemoveDestKeeps,
     RenameKeeps, FinishKeeps, SwitchVersionKeeps DEF Installer

LEMMA KillKeeps ==
    ASSUME IInv, FirmwareTypeOK', NEW p \in Procs, Kill(p)
    PROVE  IInv'
<1>1. LinkComplete' /\ SomeComplete'
  BY FlashSame DEF IInv, Kill
<1>2. Locked' /\ Apart' /\ \A q \in Procs : Plan(q)'
  BY ExitLeavesNone, NoneWorks DEF Kill
<1>3. SwitchComplete'
  BY SwitchesAsBefore DEF Kill, IInv, flash
<1> QED
  BY <1>1, <1>2, <1>3 DEF IInv

LEMMA InstallKeeps ==
    ASSUME NextAfterSwitch, IInv, FirmwareTypeOK', NEW p \in Procs, NEW v \in Versions, Install(p, v)
    PROVE  IInv'
<1>1. LinkComplete' /\ SomeComplete'
  BY FlashSame DEF IInv, Install
<1>2. \A q \in Procs : pc[q] = "idle"
  BY FirmwareAssumption DEF Install, IInv, Locked, Idle
<1>3. pc'[p] = "clean" /\ \A q \in Procs : q # p => pc'[q] = "idle"
  BY <1>2 DEF Install, IInv, FirmwareTypeOK
<1>4. Locked' /\ \A q \in Procs : Plan(q)'
  BY <1>3 DEF Install, Locked, Idle, Plan
<1>5. Apart'
  BY DEF Install, Apart, Bootable, flash
<1>6. SwitchComplete'
  BY SwitchesAsBefore DEF Install, IInv, flash
<1> QED
  BY <1>1, <1>4, <1>5, <1>6 DEF IInv

-----------------------------------------------------------------------------
(* Steps of a daemon. *)

(* While a daemon runs no installer works. *)
LEMMA DaemonAlone ==
    ASSUME IInv, NEW v \in Versions, switch[v] # "none", UNCHANGED process
    PROVE  Locked' /\ Apart' /\ \A q \in Procs : Plan(q)'
<1>1. \A q \in Procs : pc[q] \in {"idle", "reboot"}
  BY DEF IInv, Apart, Working
<1>2. UNCHANGED <<pc, lock>>
  BY DEF process
<1> QED
  BY <1>1, <1>2 DEF IInv, Locked, Apart, Plan, Working, Idle

LEMMA DaemonKeeps ==
    ASSUME IInv, FirmwareTypeOK', NEW v \in Versions, Daemon(v) \/ KillSwitch(v)
    PROVE  IInv'
<1>1. switch[v] # "none" /\ UNCHANGED <<process, tree>>
  BY DEF Daemon, CheckSwitch, RemoveLink, MakeLink, KillSwitch, flash
<1>2. Complete(v)
  BY <1>1 DEF IInv, SwitchComplete
<1>3. Locked' /\ Apart' /\ \A q \in Procs : Plan(q)'
  BY <1>1, DaemonAlone
<1>4. SwitchComplete'
  <2>1. \A w \in Versions : switch'[w] # "none" => switch[w] # "none"
    BY <1>1 DEF Daemon, CheckSwitch, RemoveLink, MakeLink, KillSwitch, IInv, FirmwareTypeOK
  <2> QED
    BY <1>1, <2>1, SwitchesAsBefore DEF IInv
<1>5. SomeComplete'
  BY <1>1 DEF IInv, SomeComplete, Complete
<1>6. LinkComplete'
  <2>1. link' \in {link, None, v}
    BY DEF Daemon, CheckSwitch, RemoveLink, MakeLink, KillSwitch, flash
  <2> QED
    BY <1>1, <1>2, <2>1 DEF IInv, LinkComplete, Complete
<1> QED
  BY <1>3, <1>4, <1>5, <1>6 DEF IInv

-----------------------------------------------------------------------------
(* The theorems. *)

LEMMA InitIInv == FirmwareInit => IInv
<1> SUFFICES ASSUME FirmwareInit PROVE IInv
  OBVIOUS
<1>1. FirmwareTypeOK
  BY InitType
<1>2. Complete(Factory) /\ link = Factory
  BY FirmwareAssumption DEF FirmwareInit, Complete
<1>3. LinkComplete /\ SomeComplete
  BY <1>2, FirmwareAssumption DEF LinkComplete, SomeComplete
<1>4. Locked /\ Apart /\ SwitchComplete /\ \A p \in Procs : Plan(p)
  BY DEF FirmwareInit, Locked, Apart, SwitchComplete, Plan, Idle, Working
<1> QED
  BY <1>1, <1>3, <1>4 DEF IInv

LEMMA NextIInv ==
    ASSUME NextAfterSwitch, IInv, [FirmwareNext]_firmwareVars
    PROVE  IInv'
<1>1. ASSUME NEW p \in Procs, Installer(p) PROVE IInv'
  BY <1>1, InstallerKeeps
<1>2. ASSUME NEW p \in Procs, Kill(p) PROVE IInv'
  BY <1>2, KillKeeps, OtherType, FirmwareAssumption DEF IInv
<1>3. ASSUME NEW p \in Procs, NEW v \in Versions, Install(p, v) PROVE IInv'
  BY <1>3, InstallKeeps, OtherType DEF IInv
<1>4. ASSUME NEW v \in Versions, Daemon(v) \/ KillSwitch(v) PROVE IInv'
  BY <1>4, DaemonKeeps, OtherStepType DEF IInv
<1>5. CASE PowerFails
  BY <1>5, RestartKeeps, OtherStepType, FirmwareAssumption DEF IInv, PowerFails
<1>6. CASE UNCHANGED firmwareVars
  BY <1>6 DEF firmwareVars, flash, process, IInv, FirmwareTypeOK, LinkComplete, SomeComplete, Complete,
              Locked, Apart, SwitchComplete, Plan, Idle, Working
<1> QED
  BY <1>1, <1>2, <1>3, <1>4, <1>5, <1>6 DEF FirmwareNext

\* The variables keep their types, and the install lock (lock, unlock of the app
\* module) is held by a process that runs or by none, whatever fails and whether
\* or not users wait for a switch.
THEOREM TypeCorrect == FirmwareSpec => []FirmwareTypeOK
<1>1. FirmwareInit => FirmwareTypeOK
  BY InitType
<1>2. FirmwareTypeOK /\ [FirmwareNext]_firmwareVars => FirmwareTypeOK'
  <2> SUFFICES ASSUME FirmwareTypeOK, [FirmwareNext]_firmwareVars PROVE FirmwareTypeOK'
    OBVIOUS
  <2>1. CASE FirmwareNext
    BY <2>1, InstallerType, OtherType, OtherStepType, FirmwareAssumption DEF FirmwareNext
  <2>2. CASE UNCHANGED firmwareVars
    BY <2>2 DEF firmwareVars, flash, process, FirmwareTypeOK, Idle
  <2> QED
    BY <2>1, <2>2
<1> QED
  BY <1>1, <1>2, PTL DEF FirmwareSpec

\* The inductive invariant, for users who wait for a switch to end before they
\* install again: no installer touches the linked version or one being switched to.
THEOREM Invariance == ASSUME NextAfterSwitch PROVE FirmwareSpec => []IInv
<1>1. FirmwareInit => IInv
  BY InitIInv
<1>2. IInv /\ [FirmwareNext]_firmwareVars => IInv'
  BY NextIInv
<1> QED
  BY <1>1, <1>2, PTL DEF FirmwareSpec

\* The device can lose power at any moment of install() and of the switch: the
\* link, when there is one, leads to a complete version.
THEOREM AlwaysLinksComplete == ASSUME NextAfterSwitch PROVE FirmwareSpec => []LinkComplete
<1>1. IInv => LinkComplete
  BY DEF IInv
<1> QED
  BY <1>1, Invariance, PTL

\* Whatever is interrupted, cleanFirmwareFile and the update of files leave a
\* complete version on the flash.
THEOREM NeverWithoutVersion == ASSUME NextAfterSwitch PROVE FirmwareSpec => []SomeComplete
<1>1. IInv => SomeComplete
  BY DEF IInv
<1> QED
  BY <1>1, Invariance, PTL
=============================================================================
