-------------------------- MODULE DkmsDeployProofs --------------------------
(***************************************************************************)
(* Theorems about DkmsDeploy, for any kernels, revisions and versions, any *)
(* plans, and any number of failures, kills and kernel changes.            *)
(***************************************************************************)
EXTENDS DkmsDeploy, TLAPS

USE DEF host, script, Works, Fails, Goto, Abort

LEMMA RevsAre ==
  /\ Revs \subseteq Nat /\ None \notin Revs /\ 1 \in Revs
  /\ \A r \in Revs : 0 < r
BY DeployAssumption DEF None

LEMMA VersionOf == \A r \in Revs : Releases[r] \in Versions
BY DEF Versions

(***************************************************************************)
(* Type correctness, with the run's own variables.                         *)
(***************************************************************************)
Pcs == {"idle", "stage", "move", "remove", "add", "build", "versions", "sources",
        "absent", "files", "verify", "config", "stamp"}

KernOK   == kern \in [Kernels -> {"absent", "leftover", "bare", "devel"}]
SourceOK == src \in [Versions -> Revs \cup {None}] /\ added \subseteq Versions
StatusOK == status \in [Versions -> [Kernels -> {"absent", "built", "installed"}]]
FileOK   == /\ file \in [Kernels -> Revs \cup {None}]
            /\ \A k \in Kernels : kern[k] = "absent" => file[k] = None
RunOK ==
  /\ pc \in Pcs /\ clean \in BOOLEAN
  /\ head \in Revs /\ stamp \in 0 .. head
  /\ job.rev \in Revs /\ job.target \in Kernels
  /\ job.rev <= head /\ (pc # "idle" => job.rev = head)
KernelsOK == unconv \subseteq checked /\ todo \cup checked \cup keep \subseteq Kernels

TypeInv == KernOK /\ SourceOK /\ StatusOK /\ FileOK /\ RunOK /\ KernelsOK

LEMMA TypeParts == TypeInv => DeployTypeOK
BY DEF TypeInv, DeployTypeOK, KernOK, SourceOK, StatusOK, FileOK, RunOK, KernelsOK

LEMMA CurType == ASSUME RunOK PROVE cur \in Versions /\ job.rev # None
BY VersionOf, RevsAre DEF RunOK, cur

LEMMA RunNumbers ==
  ASSUME RunOK
  PROVE  /\ head \in Nat /\ job.rev \in Nat /\ stamp \in 0 .. head
         /\ job.rev <= head /\ job.rev \in 0 .. head
<1>1. head \in Nat
  BY RevsAre DEF RunOK
<1>2. job.rev \in Nat
  BY RevsAre DEF RunOK
<1>3. stamp \in 0 .. head /\ job.rev <= head
  BY DEF RunOK
<1> QED BY <1>1, <1>2, <1>3

(* What dkms remove leaves.                                                *)
LEMMA ForgetLeaves ==
  ASSUME StatusOK, FileOK, NEW pairs, Forget(pairs), UNCHANGED kern
  PROVE  /\ StatusOK' /\ FileOK'
         /\ \A v \in Versions, k \in Kernels :
              status'[v][k] = IF <<v, k>> \in pairs THEN "absent" ELSE status[v][k]
         /\ \A k \in Kernels : file'[k] \in {file[k], None}
         /\ \A k \in Kernels :
              (\A v \in Versions : <<v, k>> \in pairs => k \notin Installed(v))
                                 => file'[k] = file[k]
<1>1. StatusOK' /\ \A v \in Versions, k \in Kernels :
        status'[v][k] = IF <<v, k>> \in pairs THEN "absent" ELSE status[v][k]
  BY DEF Forget, StatusOK
<1>2. /\ file' \in [Kernels -> Revs \cup {None}]
      /\ \A k \in Kernels : file'[k] \in {file[k], None}
      /\ \A k \in Kernels :
           (\A v \in Versions : <<v, k>> \in pairs => k \notin Installed(v))
                              => file'[k] = file[k]
  BY DEF Forget, FileOK
<1>3. FileOK'
  BY <1>2 DEF FileOK
<1> QED BY <1>1, <1>2, <1>3

(* The same of some versions on some kernels.                              *)
LEMMA ForgetAll ==
  ASSUME StatusOK, FileOK, NEW vs, NEW ks, Forget(Records(vs, ks)), UNCHANGED kern
  PROVE  /\ StatusOK' /\ FileOK'
         /\ \A v \in Versions, k \in Kernels :
              status'[v][k] = IF v \in vs /\ k \in ks THEN "absent" ELSE status[v][k]
         /\ \A k \in Kernels : file'[k] \in {file[k], None}
         /\ \A k \in Kernels : k \notin ks \/ (\A v \in vs : k \notin Installed(v))
                                 => file'[k] = file[k]
<1> DEFINE pairs == Records(vs, ks)
<1>1. \A v, k : <<v, k>> \in pairs <=> v \in vs /\ k \in ks
  BY DEF Records
<1>2. Forget(pairs)
  OBVIOUS
<1> HIDE DEF pairs
<1>3. /\ StatusOK' /\ FileOK'
      /\ \A v \in Versions, k \in Kernels :
           status'[v][k] = IF <<v, k>> \in pairs THEN "absent" ELSE status[v][k]
      /\ \A k \in Kernels : file'[k] \in {file[k], None}
      /\ \A k \in Kernels :
           (\A v \in Versions : <<v, k>> \in pairs => k \notin Installed(v))
              => file'[k] = file[k]
  BY <1>2, ForgetLeaves
<1> QED BY <1>1, <1>3

(* The two lists of kernels a check can come to.                           *)
LEMMA CompareLeaves ==
  ASSUME CompareStatus
  PROVE  /\ checked' = Bootable /\ unconv' \in {Unconverged, Bootable}
         /\ unconv' \subseteq Bootable /\ (unconv' = {} => Unconverged = {})
         /\ faults' \in {faults, faults + 1} /\ clean' \in {clean, FALSE}
BY DEF CompareStatus, Unconverged

(* What a build does to the kernel it is for.                              *)
Rebuilt(k, s) ==
  \A v \in Versions, j \in Kernels :
    /\ j # k => status'[v][j] = status[v][j]
    /\ v = cur => status'[v][k] = s
    /\ v # cur => \/ status'[v][k] = status[v][k]
                  \/ status[v][k] = "installed" /\ status'[v][k] \in {"built", "installed"}

LEMMA BuildLeaves ==
  ASSUME TypeInv, NEW k \in Kernels, BuildInstall(k)
  PROVE  /\ StatusOK' /\ FileOK' /\ cur' = cur
         /\ \/ UNCHANGED <<status, file>>
            \/ /\ Rebuilt(k, "built") /\ UNCHANGED file
            \/ /\ Rebuilt(k, "installed") /\ kern[k] = "devel"
               /\ file' = [file EXCEPT ![k] = src[cur]]
<1> DEFINE Record(s, others) ==
      [v \in Versions |-> [status[v] EXCEPT ![k] =
         IF v = cur THEN s ELSE IF @ = "installed" THEN others ELSE @]]
<1>1. UNCHANGED <<kern, job>> /\ cur' = cur
  BY DEF BuildInstall, cur
<1>2. ASSUME NEW s \in {"built", "installed"}, NEW others \in {"built", "installed"},
             status' = Record(s, others)
      PROVE  StatusOK' /\ Rebuilt(k, s)
  <2>1. StatusOK'
    BY <1>2 DEF TypeInv, StatusOK
  <2>2. Rebuilt(k, s)
    BY <1>2 DEF TypeInv, StatusOK, Rebuilt
  <2> QED BY <2>1, <2>2
<1>3. CASE UNCHANGED <<status, file>>
  BY <1>1, <1>3 DEF TypeInv, StatusOK, FileOK
<1>4. CASE status' = Record("built", "installed") /\ UNCHANGED file
  <2>1. FileOK'
    BY <1>1, <1>4 DEF TypeInv, FileOK
  <2>2. StatusOK' /\ Rebuilt(k, "built")
    BY <1>2, <1>4
  <2> HIDE DEF Record
  <2> QED BY <1>1, <1>4, <2>1, <2>2
<1>5. ASSUME kern[k] = "devel", file' = [file EXCEPT ![k] = src[cur]],
             NEW others \in {"built", "installed"}, status' = Record("installed", others)
      PROVE  /\ StatusOK' /\ FileOK'
             /\ Rebuilt(k, "installed") /\ kern[k] = "devel"
             /\ file' = [file EXCEPT ![k] = src[cur]]
  <2>1. src[cur] \in Revs \cup {None}
    BY CurType DEF TypeInv, SourceOK
  <2>2. FileOK'
    BY <1>1, <1>5, <2>1 DEF TypeInv, FileOK
  <2>3. StatusOK' /\ Rebuilt(k, "installed")
    BY <1>2, <1>5
  <2> HIDE DEF Record
  <2> QED BY <1>5, <2>2, <2>3
<1>6. \/ UNCHANGED <<status, file>>
      \/ status' = Record("built", "installed") /\ UNCHANGED file
      \/ /\ kern[k] = "devel" /\ file' = [file EXCEPT ![k] = src[cur]]
         /\ \E others \in {"built", "installed"} : status' = Record("installed", others)
  BY DEF BuildInstall
<1> HIDE DEF Record
<1> QED BY <1>1, <1>3, <1>4, <1>5, <1>6

(***************************************************************************)
(* Every step keeps the types.                                             *)
(***************************************************************************)
LEMMA TypeInit == Init => TypeInv
<1> SUFFICES ASSUME Init PROVE TypeInv
  OBVIOUS
<1>1. KernOK
  BY DEF Init, KernOK
<1>2. SourceOK /\ StatusOK
  BY DEF Init, SourceOK, StatusOK
<1>3. FileOK
  BY DEF Init, FileOK
<1>4. job.rev = 1 /\ job.target \in Kernels
  BY DEF Init
<1>5. RunOK
  <2>1. /\ pc = "idle" /\ clean = FALSE /\ head = 1 /\ stamp = 0
        /\ stamp \in 0 .. head /\ job.rev <= head
    BY <1>4 DEF Init, None
  <2>2. head \in Revs /\ job.rev \in Revs
    BY <1>4, <2>1, RevsAre
  <2> QED BY <1>4, <2>1, <2>2 DEF RunOK, Pcs
<1>6. KernelsOK
  BY DEF Init, KernelsOK
<1> QED BY <1>1, <1>2, <1>3, <1>5, <1>6 DEF TypeInv

LEMMA KernStep == ASSUME TypeInv, [Next]_vars PROVE KernOK'
<1>1. ASSUME NEW k \in Kernels, KernelArrives(k) PROVE KernOK'
  BY <1>1 DEF KernelArrives, KernOK, TypeInv
<1>2. ASSUME NEW k \in Kernels, KernelLeaves(k) PROVE KernOK'
  BY <1>2 DEF KernelLeaves, KernOK, TypeInv
<1>3. ASSUME NEW k \in Kernels, DevelArrives(k) PROVE KernOK'
  BY <1>3 DEF DevelArrives, KernOK, TypeInv
<1>4. CASE StageClear \/ StageMove \/ RemoveCurrent \/ Add \/ Check \/
           PruneVersions \/ PruneSources \/ PruneAbsent \/ PruneFiles \/ Verify \/
           Finish \/ WriteStamp \/ Killed \/ Push \/ (\E p \in Plans, t \in Kernels
           : Start(p, t)) \/ (\E k \in Kernels : BuildInstall(k)) \/ UNCHANGED vars
  BY <1>4 DEF Start, StageClear, StageMove, RemoveCurrent, Add, Check,
         BuildInstall, PruneVersions, PruneSources, PruneAbsent, PruneFiles,
         Verify, Finish, WriteStamp, Killed, Push, vars, KernOK, TypeInv
<1> QED BY <1>1, <1>2, <1>3, <1>4 DEF Next, Helper

LEMMA SourceStep == ASSUME TypeInv, [Next]_vars PROVE SourceOK'
<1>1. CASE StageClear
  BY <1>1 DEF StageClear, SourceOK, TypeInv
<1>2. CASE StageMove
  BY <1>2, CurType DEF StageMove, SourceOK, RunOK, TypeInv
<1>3. CASE RemoveCurrent
  BY <1>3 DEF RemoveCurrent, SourceOK, TypeInv
<1>4. CASE Add
  BY <1>4, CurType DEF Add, SourceOK, TypeInv
<1>5. CASE PruneVersions
  BY <1>5 DEF PruneVersions, SourceOK, TypeInv
<1>6. CASE PruneSources
  BY <1>6 DEF PruneSources, SourceOK, TypeInv
<1>7. CASE Check \/ PruneAbsent \/ PruneFiles \/ Verify \/ Finish \/ WriteStamp \/
           Killed \/ Push \/ (\E p \in Plans, t \in Kernels : Start(p, t)) \/ (\E k
           \in Kernels : BuildInstall(k)) \/ (\E k \in Kernels : KernelArrives(k))
           \/ (\E k \in Kernels : KernelLeaves(k)) \/ (\E k \in Kernels :
           DevelArrives(k)) \/ UNCHANGED vars
  BY <1>7 DEF Start, Check, BuildInstall, PruneAbsent, PruneFiles, Verify, Finish,
         WriteStamp, Killed, Push, KernelArrives, KernelLeaves, DevelArrives, vars,
         SourceOK, TypeInv
<1> QED BY <1>1, <1>2, <1>3, <1>4, <1>5, <1>6, <1>7 DEF Next, Helper

LEMMA StatusStep == ASSUME TypeInv, [Next]_vars PROVE StatusOK' /\ FileOK'
<1>1. CASE RemoveCurrent
  <2>1. \/ (\E ks : Forget(Records({cur}, ks))) /\ UNCHANGED kern
        \/ UNCHANGED <<status, file, kern>>
    BY <1>1 DEF RemoveCurrent
  <2>2. CASE UNCHANGED <<status, file, kern>>
    BY <2>2 DEF StatusOK, FileOK, TypeInv
  <2> QED BY <2>1, <2>2, ForgetLeaves DEF TypeInv
<1>2. ASSUME NEW k \in Kernels, BuildInstall(k) PROVE StatusOK' /\ FileOK'
  BY <1>2, BuildLeaves
<1>3. CASE PruneVersions
  <2>1. PICK gone : Forget(gone) /\ UNCHANGED kern
    BY <1>3 DEF PruneVersions
  <2> QED BY <2>1, ForgetLeaves DEF TypeInv
<1>4. CASE PruneAbsent
  <2>1. \/ Forget(Records(Versions, Kernels \ HasDir)) /\ UNCHANGED kern
        \/ UNCHANGED <<status, file, kern>>
    BY <1>4 DEF PruneAbsent
  <2>2. CASE UNCHANGED <<status, file, kern>>
    BY <2>2 DEF StatusOK, FileOK, TypeInv
  <2> QED BY <2>1, <2>2, ForgetLeaves DEF TypeInv
<1>5. CASE PruneFiles
  BY <1>5 DEF PruneFiles, StatusOK, FileOK, TypeInv
<1>6. ASSUME NEW k \in Kernels, KernelArrives(k) PROVE StatusOK' /\ FileOK'
  <2>1. \A j \in Kernels : kern'[j] = "absent" => kern[j] = "absent" /\ j # k
    BY <1>6 DEF KernelArrives, KernOK, TypeInv
  <2>2. CASE UNCHANGED <<status, file>>
    BY <2>1, <2>2 DEF StatusOK, FileOK, TypeInv
  <2>3. ASSUME NEW v \in added, src[v] # None,
               status' = [status EXCEPT ![v][k] = "installed"],
               file' = [file EXCEPT ![k] = src[v]]
        PROVE  StatusOK' /\ FileOK'
    <3>1. v \in Versions /\ src[v] \in Revs \cup {None}
      BY <2>3 DEF SourceOK, TypeInv
    <3>2. StatusOK'
      BY <2>3, <3>1 DEF StatusOK, TypeInv
    <3>3. FileOK'
      BY <2>1, <2>3, <3>1 DEF FileOK, TypeInv
    <3> QED BY <3>2, <3>3
  <2> QED BY <1>6, <2>2, <2>3 DEF KernelArrives
<1>7. ASSUME NEW k \in Kernels, KernelLeaves(k) PROVE StatusOK' /\ FileOK'
  BY <1>7 DEF KernelLeaves, KernOK, StatusOK, FileOK, TypeInv
<1>8. ASSUME NEW k \in Kernels, DevelArrives(k) PROVE StatusOK' /\ FileOK'
  BY <1>8 DEF DevelArrives, KernOK, StatusOK, FileOK, TypeInv
<1>9. CASE StageClear \/ StageMove \/ Add \/ Check \/ PruneSources \/ Verify \/
           Finish \/ WriteStamp \/ Killed \/ Push \/ (\E p \in Plans, t \in Kernels
           : Start(p, t)) \/ UNCHANGED vars
  BY <1>9 DEF Start, StageClear, StageMove, Add, Check, PruneSources, Verify,
         Finish, WriteStamp, Killed, Push, vars, StatusOK, FileOK, TypeInv
<1> QED BY <1>1, <1>2, <1>3, <1>4, <1>5, <1>6, <1>7, <1>8, <1>9 DEF Next, Helper

LEMMA RunStep == ASSUME TypeInv, [Next]_vars PROVE RunOK'
<1>1. ASSUME NEW p \in Plans, NEW t \in Kernels, Start(p, t) PROVE RunOK'
  <2>1. /\ pc = "idle" /\ pc' = "stage" /\ clean' = TRUE
        /\ job'.rev = head /\ job'.target = t /\ UNCHANGED <<head, stamp>>
    BY <1>1 DEF Start
  <2> QED BY <1>1, <2>1, RevsAre DEF RunOK, Pcs, TypeInv
<1>2. CASE StageClear
  BY <1>2 DEF StageClear, RunOK, Pcs, TypeInv
<1>3. CASE StageMove
  BY <1>3 DEF StageMove, RunOK, Pcs, TypeInv
<1>4. CASE RemoveCurrent
  BY <1>4 DEF RemoveCurrent, RunOK, Pcs, TypeInv
<1>5. CASE Add
  BY <1>5 DEF Add, RunOK, Pcs, TypeInv
<1>6. CASE Check
  BY <1>6, CompareLeaves DEF Check, RunOK, Pcs, TypeInv
<1>7. ASSUME NEW k \in Kernels, BuildInstall(k) PROVE RunOK'
  BY <1>7 DEF BuildInstall, RunOK, Pcs, TypeInv
<1>8. CASE PruneVersions
  BY <1>8 DEF PruneVersions, RunOK, Pcs, TypeInv
<1>9. CASE PruneSources
  BY <1>9 DEF PruneSources, RunOK, Pcs, TypeInv
<1>10. CASE PruneAbsent
  BY <1>10 DEF PruneAbsent, RunOK, Pcs, TypeInv
<1>11. CASE PruneFiles
  BY <1>11 DEF PruneFiles, RunOK, Pcs, TypeInv
<1>12. CASE Verify
  BY <1>12 DEF Verify, RunOK, Pcs, TypeInv
<1>13. CASE Finish
  BY <1>13 DEF Finish, RunOK, Pcs, TypeInv
<1>14. CASE WriteStamp
  <2>1. /\ pc' = "idle" /\ clean' \in {clean, FALSE} /\ stamp' \in {stamp, job.rev}
        /\ UNCHANGED <<head, job>>
    BY <1>14 DEF WriteStamp
  <2>2. job.rev \in 0 .. head
    BY RunNumbers DEF TypeInv
  <2> QED BY <2>1, <2>2 DEF RunOK, Pcs, TypeInv
<1>15. CASE Killed
  BY <1>15 DEF Killed, RunOK, Pcs, TypeInv
<1>16. CASE Push
  <2>1. /\ pc = "idle" /\ head + 1 \in Revs /\ head' = head + 1
        /\ UNCHANGED <<stamp, pc, job, clean>>
    BY <1>16 DEF Push
  <2>2. head \in Nat /\ job.rev \in Nat /\ stamp \in 0 .. head /\ job.rev <= head
    BY RunNumbers DEF TypeInv
  <2>3. stamp \in 0 .. head + 1 /\ job.rev <= head + 1
    BY <2>2
  <2> QED BY <2>1, <2>3 DEF RunOK, TypeInv
<1>17. CASE (\E k \in Kernels : KernelArrives(k)) \/ (\E k \in Kernels :
           KernelLeaves(k)) \/ (\E k \in Kernels : DevelArrives(k)) \/ UNCHANGED
           vars
  BY <1>17 DEF KernelArrives, KernelLeaves, DevelArrives, vars, RunOK, Pcs, TypeInv
<1> QED BY <1>1, <1>2, <1>3, <1>4, <1>5, <1>6, <1>7, <1>8, <1>9, <1>10, <1>11,
        <1>12, <1>13, <1>14, <1>15, <1>16, <1>17 DEF Next, Helper

LEMMA KernelsStep == ASSUME TypeInv, [Next]_vars PROVE KernelsOK'
<1>1. ASSUME NEW p \in Plans, NEW t \in Kernels, Start(p, t) PROVE KernelsOK'
  BY <1>1 DEF Start, Bootable, KernelsOK, TypeInv
<1>2. CASE Add
  BY <1>2 DEF Add, HasDir, RunOK, KernelsOK, TypeInv
<1>3. CASE Check
  BY <1>3, CompareLeaves DEF Check, Bootable, KernelsOK, TypeInv
<1>4. ASSUME NEW k \in Kernels, BuildInstall(k) PROVE KernelsOK'
  BY <1>4 DEF BuildInstall, KernelsOK, TypeInv
<1>5. CASE Verify
  BY <1>5 DEF Verify, Unconverged, Bootable, KernelsOK, TypeInv
<1>6. ASSUME NEW k \in Kernels, KernelLeaves(k) PROVE KernelsOK'
  BY <1>6 DEF KernelLeaves, KernelsOK, TypeInv
<1>7. CASE StageClear \/ StageMove \/ RemoveCurrent \/ PruneVersions \/
           PruneSources \/ PruneAbsent \/ PruneFiles \/ Finish \/ WriteStamp \/
           Killed \/ Push \/ (\E k \in Kernels : KernelArrives(k)) \/ (\E k \in
           Kernels : DevelArrives(k)) \/ UNCHANGED vars
  BY <1>7 DEF StageClear, StageMove, RemoveCurrent, PruneVersions, PruneSources,
         PruneAbsent, PruneFiles, Finish, WriteStamp, Killed, Push, KernelArrives,
         DevelArrives, vars, KernelsOK, TypeInv
<1> QED BY <1>1, <1>2, <1>3, <1>4, <1>5, <1>6, <1>7 DEF Next, Helper

LEMMA TypeStep == TypeInv /\ [Next]_vars => TypeInv'
BY KernStep, SourceStep, StatusStep, RunStep, KernelsStep DEF TypeInv

(* Every reachable state of a host and of its deployment is well typed, and*)
(* a stamp never names a revision the checkout has not had (DeployTypeOK). *)
THEOREM DeployTypeCorrect == Spec => []DeployTypeOK
<1>1. Spec => []TypeInv
  BY TypeInit, TypeStep, PTL DEF Spec
<1> QED BY <1>1, TypeParts, PTL

(***************************************************************************)
(* The host while a run is on.  DKMS has no record of a version it does not*)
(* know; the new source stands from the move on; the kernels a run keeps an*)
(* eye on are bootable, since kernels leave between runs only; and from the*)
(* add on, what is installed of the current version was built by this run, *)
(* though a prune may take its file with an old record.                    *)
(***************************************************************************)
Pruning == {"versions", "sources", "absent", "files", "verify"}

Registered == \A v \in Versions \ added, k \in Kernels : status[v][k] = "absent"

Staged ==
  pc \notin {"idle", "stage", "move"} \/ (pc = "idle" /\ clean) => src[cur] = job.rev

Tracked == keep \cup checked \subseteq Bootable

Built ==
  pc \in {"build"} \cup Pruning =>
    /\ cur \in added
    /\ \A k \in Installed(cur) : k \in Bootable /\ file[k] \in {job.rev, None}
    /\ pc = "build" => \A k \in Installed(cur) : file[k] = job.rev

HostInv == TypeInv /\ Registered /\ Staged /\ Tracked /\ Built

LEMMA HostInit == Init => HostInv
<1> SUFFICES ASSUME Init PROVE HostInv
  OBVIOUS
<1>1. TypeInv
  BY TypeInit
<1>2. Registered
  BY DEF Init, Registered
<1>3. Staged /\ Tracked /\ Built
  BY DEF Init, Staged, Tracked, Built, Pruning
<1> QED BY <1>1, <1>2, <1>3 DEF HostInv

(* Only the start of a run gives it another version.                       *)
LEMMA CurStays == [Next]_vars => cur' = cur \/ pc' = "stage"
BY DEF Next, Helper, Start, StageClear, StageMove, RemoveCurrent, Add, Check,
   BuildInstall,
       PruneVersions, PruneSources, PruneAbsent, PruneFiles, Verify, Finish, WriteStamp,
       Killed, Push, KernelArrives, KernelLeaves, DevelArrives, vars, cur

LEMMA RegisteredStep == ASSUME HostInv, [Next]_vars PROVE Registered'
<1>1. CASE RemoveCurrent
  <2>1. CASE UNCHANGED <<added, status>>
    BY <2>1 DEF Registered, HostInv
  <2>2. CASE Forget(Records({cur}, Kernels)) /\ added' = added \ {cur} /\ UNCHANGED kern
    BY <2>2, ForgetAll DEF Registered, HostInv, TypeInv
  <2>3. ASSUME NEW ks, Forget(Records({cur}, ks)), UNCHANGED <<added, kern>>
        PROVE  Registered'
    BY <2>3, ForgetAll DEF Registered, HostInv, TypeInv
  <2> QED BY <1>1, <2>1, <2>2, <2>3 DEF RemoveCurrent
<1>2. CASE Add
  BY <1>2 DEF Add, Registered, HostInv
<1>3. ASSUME NEW k \in Kernels, BuildInstall(k) PROVE Registered'
  <2>1. cur \in added /\ UNCHANGED added
    BY <1>3 DEF BuildInstall, Built, HostInv
  <2>2. \A v \in Versions \ added, j \in Kernels : status'[v][j] = status[v][j]
    BY <1>3, <2>1, BuildLeaves DEF Rebuilt, Registered, HostInv
  <2> QED BY <2>1, <2>2 DEF Registered, HostInv
<1>4. CASE PruneVersions
  <2>1. PICK gone : /\ Forget(gone) /\ UNCHANGED kern
                    /\ \A v \in added \ added' : Records({v}, Kernels) \subseteq gone
    BY <1>4 DEF PruneVersions
  <2>2. ASSUME NEW v \in Versions \ added', NEW k \in Kernels PROVE status'[v][k] = "absent"
    <3>1. status'[v][k] = IF <<v, k>> \in gone THEN "absent" ELSE status[v][k]
      BY <2>1, ForgetLeaves DEF HostInv, TypeInv
    <3>2. v \in added => <<v, k>> \in gone
      BY <2>1, <2>2 DEF Records
    <3> QED BY <3>1, <3>2 DEF Registered, HostInv
  <2> QED BY <2>2 DEF Registered
<1>5. CASE PruneAbsent
  <2>1. CASE UNCHANGED <<added, status>>
    BY <2>1 DEF Registered, HostInv
  <2>2. CASE Forget(Records(Versions, Kernels \ HasDir)) /\ UNCHANGED added /\ UNCHANGED kern
    BY <2>2, ForgetAll DEF Registered, HostInv, TypeInv
  <2> QED BY <1>5, <2>1, <2>2 DEF PruneAbsent
<1>6. ASSUME NEW k \in Kernels, KernelArrives(k) PROVE Registered'
  BY <1>6 DEF KernelArrives, Registered, HostInv, TypeInv, SourceOK, StatusOK
<1>7. CASE StageClear \/ StageMove \/ Check \/ PruneSources \/ PruneFiles \/ Verify
           \/ Finish \/ WriteStamp \/ Killed \/ Push \/ (\E p \in Plans, t \in
           Kernels : Start(p, t)) \/ (\E k \in Kernels : KernelLeaves(k)) \/ (\E k
           \in Kernels : DevelArrives(k)) \/ UNCHANGED vars
  BY <1>7 DEF Start, StageClear, StageMove, Check, PruneSources, PruneFiles,
         Verify, Finish, WriteStamp, Killed, Push, KernelLeaves, DevelArrives,
         vars, Registered, HostInv
<1> QED BY <1>1, <1>2, <1>3, <1>4, <1>5, <1>6, <1>7 DEF Next, Helper

LEMMA StagedStep == ASSUME HostInv, [Next]_vars PROVE Staged'
<1>1. ASSUME NEW p \in Plans, NEW t \in Kernels, Start(p, t) PROVE Staged'
  BY <1>1 DEF Start, Staged
<1>2. CASE StageClear
  BY <1>2, CurStays, CurType DEF StageClear, Staged, HostInv, TypeInv, SourceOK
<1>3. CASE StageMove
  BY <1>3, CurStays, CurType DEF StageMove, Staged, HostInv, TypeInv, SourceOK
<1>4. CASE RemoveCurrent
  BY <1>4, CurStays, CurType DEF RemoveCurrent, Staged, HostInv, TypeInv, SourceOK
<1>5. CASE Add
  BY <1>5, CurStays, CurType DEF Add, Staged, HostInv, TypeInv, SourceOK
<1>6. CASE Check
  BY <1>6, CurStays, CurType DEF Check, Staged, HostInv, TypeInv, SourceOK
<1>7. ASSUME NEW k \in Kernels, BuildInstall(k) PROVE Staged'
  BY <1>7, CurStays, CurType DEF BuildInstall, Staged, HostInv, TypeInv, SourceOK
<1>8. CASE PruneVersions
  BY <1>8, CurStays, CurType DEF PruneVersions, Staged, HostInv, TypeInv, SourceOK
<1>9. CASE PruneSources
  BY <1>9, CurStays, CurType DEF PruneSources, Staged, HostInv, TypeInv, SourceOK
<1>10. CASE PruneAbsent
  BY <1>10, CurStays, CurType DEF PruneAbsent, Staged, HostInv, TypeInv, SourceOK
<1>11. CASE PruneFiles
  BY <1>11, CurStays, CurType DEF PruneFiles, Staged, HostInv, TypeInv, SourceOK
<1>12. CASE Verify
  BY <1>12, CurStays, CurType DEF Verify, Staged, HostInv, TypeInv, SourceOK
<1>13. CASE Finish
  BY <1>13, CurStays, CurType DEF Finish, Staged, HostInv, TypeInv, SourceOK
<1>14. CASE WriteStamp
  BY <1>14, CurStays, CurType DEF WriteStamp, Staged, HostInv, TypeInv, SourceOK
<1>15. CASE Killed
  BY <1>15, CurStays, CurType DEF Killed, Staged, HostInv, TypeInv, SourceOK
<1>16. CASE Push
  BY <1>16, CurStays, CurType DEF Push, Staged, HostInv, TypeInv, SourceOK
<1>17. ASSUME NEW k \in Kernels, KernelArrives(k) PROVE Staged'
  BY <1>17, CurStays, CurType DEF KernelArrives, Staged, HostInv, TypeInv, SourceOK
<1>18. ASSUME NEW k \in Kernels, KernelLeaves(k) PROVE Staged'
  BY <1>18, CurStays, CurType DEF KernelLeaves, Staged, HostInv, TypeInv, SourceOK
<1>19. ASSUME NEW k \in Kernels, DevelArrives(k) PROVE Staged'
  BY <1>19, CurStays, CurType DEF DevelArrives, Staged, HostInv, TypeInv, SourceOK
<1>20. CASE UNCHANGED vars
  BY <1>20 DEF vars, Staged, HostInv, cur
<1> QED BY <1>1, <1>2, <1>3, <1>4, <1>5, <1>6, <1>7, <1>8, <1>9, <1>10, <1>11,
        <1>12, <1>13, <1>14, <1>15, <1>16, <1>17, <1>18, <1>19, <1>20 DEF Next,
        Helper

LEMMA TrackedStep == ASSUME HostInv, [Next]_vars PROVE Tracked'
<1>1. ASSUME NEW p \in Plans, NEW t \in Kernels, Start(p, t) PROVE Tracked'
  BY <1>1 DEF Start, Tracked, Bootable, HostInv
<1>2. CASE Check
  BY <1>2, CompareLeaves DEF Check, Tracked, Bootable, HostInv
<1>3. CASE Verify
  BY <1>3 DEF Verify, Tracked, Bootable, HostInv
<1>4. ASSUME NEW k \in Kernels, KernelArrives(k) PROVE Tracked'
  BY <1>4 DEF KernelArrives, Tracked, Bootable, HostInv, TypeInv, KernOK
<1>5. ASSUME NEW k \in Kernels, KernelLeaves(k) PROVE Tracked'
  BY <1>5 DEF KernelLeaves, Tracked, Bootable, HostInv, TypeInv, KernOK
<1>6. ASSUME NEW k \in Kernels, DevelArrives(k) PROVE Tracked'
  BY <1>6 DEF DevelArrives, Tracked, Bootable, HostInv, TypeInv, KernOK
<1>7. CASE StageClear \/ StageMove \/ RemoveCurrent \/ Add \/ PruneVersions \/
           PruneSources \/ PruneAbsent \/ PruneFiles \/ Finish \/ WriteStamp \/
           Killed \/ Push \/ (\E k \in Kernels : BuildInstall(k)) \/ UNCHANGED vars
  BY <1>7 DEF StageClear, StageMove, RemoveCurrent, Add, BuildInstall,
         PruneVersions, PruneSources, PruneAbsent, PruneFiles, Finish, WriteStamp,
         Killed, Push, vars, Tracked, Bootable, HostInv
<1> QED BY <1>1, <1>2, <1>3, <1>4, <1>5, <1>6, <1>7 DEF Next, Helper

LEMMA BuiltStep == ASSUME HostInv, [Next]_vars PROVE Built'
<1>1. ASSUME NEW p \in Plans, NEW t \in Kernels, Start(p, t) PROVE Built'
  BY <1>1 DEF Start, Built, Pruning, HostInv
<1>2. CASE StageClear
  BY <1>2 DEF StageClear, Built, Pruning, HostInv
<1>3. CASE StageMove
  BY <1>3 DEF StageMove, Built, Pruning, HostInv
<1>4. CASE RemoveCurrent
  BY <1>4 DEF RemoveCurrent, Built, Pruning, HostInv
<1>5. CASE Add
  <2>1. CASE cur \in added
    BY <1>5, <2>1 DEF Add, Built, Pruning
  <2>2. CASE cur \notin added
    <3>1. /\ pc' = "build" /\ added' = added \cup {cur}
          /\ UNCHANGED <<kern, status, file, job>>
      BY <1>5, <2>2 DEF Add
    <3>2. cur' = cur /\ cur \in Versions
      BY <3>1, CurType DEF cur, HostInv, TypeInv
    <3>3. Installed(cur) = {}
      BY <2>2, <3>2 DEF Installed, Registered, HostInv
    <3>4. Installed(cur)' = {}
      BY <3>1, <3>2, <3>3 DEF Installed
    <3> QED BY <3>1, <3>2, <3>4 DEF Built
  <2> QED BY <2>1, <2>2
<1>6. CASE Check
  BY <1>6, CurStays DEF Check, Installed, Bootable, Built, Pruning, HostInv
<1>7. ASSUME NEW k \in Kernels, BuildInstall(k) PROVE Built'
  <2>1. /\ pc = "build" /\ pc' = "build" /\ cur \in added
        /\ UNCHANGED <<kern, src, added, job>>
    BY <1>7 DEF BuildInstall, Built, HostInv
  <2>2. cur' = cur /\ cur \in Versions /\ src[cur] = job.rev /\ Bootable' = Bootable
    BY <2>1, CurType DEF cur, Bootable, Staged, HostInv, TypeInv
  <2>3. \A j \in Installed(cur) : j \in Bootable /\ file[j] = job.rev
    BY <2>1 DEF Built, HostInv
  <2>4. ASSUME NEW j \in Kernels, status'[cur][j] = "installed"
        PROVE  j \in Bootable /\ file'[j] = job.rev
    <3>1. CASE UNCHANGED <<status, file>>
      BY <2>3, <2>4, <3>1 DEF Installed
    <3>2. CASE Rebuilt(k, "built") /\ UNCHANGED file
      BY <2>2, <2>3, <2>4, <3>2 DEF Installed, Rebuilt
    <3>3. CASE /\ Rebuilt(k, "installed") /\ kern[k] = "devel"
               /\ file' = [file EXCEPT ![k] = src[cur]]
      <4>1. CASE j = k
        BY <2>2, <3>3, <4>1 DEF Bootable, HostInv, TypeInv, FileOK
      <4>2. CASE j # k
        BY <2>2, <2>3, <2>4, <3>3, <4>2 DEF Installed, Rebuilt, HostInv, TypeInv, FileOK
      <4> QED BY <4>1, <4>2
    <3> QED BY <1>7, <3>1, <3>2, <3>3, BuildLeaves DEF HostInv
  <2>5. \A j \in Installed(cur)' : j \in Bootable' /\ file'[j] = job'.rev
    BY <2>1, <2>2, <2>4 DEF Installed
  <2> QED BY <2>1, <2>2, <2>5 DEF Built
<1>8. CASE PruneVersions
  <2>1. PICK gone \in SUBSET ((added \ {cur}) \X Kernels) : Forget(gone)
    BY <1>8 DEF PruneVersions, Records
  <2>2. /\ pc = "versions" /\ pc' = "sources" /\ UNCHANGED <<kern, job>>
        /\ cur \in added => cur \in added'
    BY <1>8 DEF PruneVersions
  <2>3. cur' = cur /\ cur \in Versions /\ Bootable' = Bootable
    BY <2>2, CurType DEF cur, Bootable, HostInv, TypeInv
  <2>4. /\ \A v \in Versions, j \in Kernels :
             status'[v][j] = IF <<v, j>> \in gone THEN "absent" ELSE status[v][j]
        /\ \A j \in Kernels : file'[j] \in {file[j], None}
    <3>1. StatusOK /\ FileOK /\ Forget(gone) /\ UNCHANGED kern
      BY <2>1, <2>2 DEF HostInv, TypeInv
    <3> QED BY <3>1, ForgetLeaves
  <2>5. \A j \in Kernels : status'[cur][j] = status[cur][j] /\ file'[j] \in {file[j], None}
    BY <2>1, <2>3, <2>4
  <2> QED BY <2>2, <2>3, <2>5 DEF Built, Pruning, Installed, HostInv
<1>9. CASE PruneSources
  BY <1>9, CurStays DEF PruneSources, Installed, Bootable, Built, Pruning, HostInv
<1>10. CASE PruneAbsent
  <2>1. pc = "absent" /\ pc' = "files" /\ UNCHANGED <<kern, added, job>>
    BY <1>10 DEF PruneAbsent
  <2>2. cur' = cur /\ cur \in Versions /\ Bootable' = Bootable
    BY <2>1, CurType DEF cur, Bootable, HostInv, TypeInv
  <2>3. \A j \in Kernels : /\ status'[cur][j] \in {status[cur][j], "absent"}
                           /\ file'[j] \in {file[j], None}
    <3>1. CASE UNCHANGED <<status, file>>
      BY <3>1
    <3>2. CASE Forget(Records(Versions, Kernels \ HasDir))
      BY <2>1, <2>2, <3>2, ForgetAll DEF HostInv, TypeInv
    <3> QED BY <1>10, <3>1, <3>2 DEF PruneAbsent
  <2> QED BY <2>1, <2>2, <2>3 DEF Built, Pruning, Installed, HostInv
<1>11. CASE PruneFiles
  BY <1>11, CurStays DEF PruneFiles, Installed, Bootable, Built, Pruning, HostInv
<1>12. CASE Verify
  BY <1>12 DEF Verify, Built, Pruning, HostInv
<1>13. CASE Finish
  BY <1>13 DEF Finish, Built, Pruning, HostInv
<1>14. CASE WriteStamp
  BY <1>14 DEF WriteStamp, Built, Pruning, HostInv
<1>15. CASE Killed
  BY <1>15 DEF Killed, Built, Pruning, HostInv
<1>16. CASE Push
  BY <1>16 DEF Push, Built, Pruning, HostInv
<1>17. ASSUME NEW k \in Kernels, KernelArrives(k) PROVE Built'
  <2>1. /\ UNCHANGED <<src, added, pc, job>> /\ k \notin Bootable
        /\ kern' \in {[kern EXCEPT ![k] = "bare"], [kern EXCEPT ![k] = "devel"]}
    BY <1>17 DEF KernelArrives, Bootable
  <2>2. cur' = cur /\ cur \in Versions /\ Bootable' = Bootable \cup {k}
    BY <2>1, CurType DEF cur, Bootable, HostInv, TypeInv, KernOK
  <2> SUFFICES ASSUME pc \in {"build"} \cup Pruning PROVE Built'
    BY <2>1 DEF Built, Pruning
  <2>3. k \notin Installed(cur) /\ src[cur] = job.rev
    BY <2>1 DEF Built, Staged, Pruning, HostInv
  <2>4. CASE UNCHANGED <<status, file>>
    BY <2>1, <2>2, <2>4 DEF Built, Installed, HostInv
  <2>5. ASSUME NEW v \in added, status' = [status EXCEPT ![v][k] = "installed"],
               file' = [file EXCEPT ![k] = src[v]]
        PROVE  Built'
    <3>1. v \in Versions
      BY <2>5 DEF HostInv, TypeInv, SourceOK
    <3>2. \A j \in Kernels \ {k} : status'[cur][j] = status[cur][j] /\ file'[j] = file[j]
      BY <2>2, <2>5, <3>1 DEF HostInv, TypeInv, StatusOK, FileOK
    <3>3. status'[cur][k] = "installed" => v = cur
      BY <2>2, <2>3, <2>5, <3>1 DEF Installed, HostInv, TypeInv, StatusOK
    <3>4. file'[k] = src[v]
      BY <2>5 DEF HostInv, TypeInv, FileOK
    <3>5. \A j \in Installed(cur)' : j = k \/ j \in Installed(cur)
      BY <2>2, <3>2 DEF Installed
    <3> QED BY <2>1, <2>2, <2>3, <3>2, <3>3, <3>4, <3>5 DEF Built, Installed, HostInv
  <2> QED BY <1>17, <2>4, <2>5 DEF KernelArrives
<1>18. ASSUME NEW k \in Kernels, KernelLeaves(k) PROVE Built'
  BY <1>18 DEF KernelLeaves, Built, Pruning
<1>19. ASSUME NEW k \in Kernels, DevelArrives(k) PROVE Built'
  <2>1. UNCHANGED <<status, file, added, pc, job>> /\ cur' = cur
    BY <1>19 DEF DevelArrives, cur
  <2>2. Bootable' = Bootable
    BY <1>19 DEF DevelArrives, Bootable, HostInv, TypeInv, KernOK
  <2> QED BY <2>1, <2>2 DEF Built, Installed, HostInv
<1>20. CASE UNCHANGED vars
  BY <1>20 DEF vars, cur, Installed, Bootable, Built, Pruning, HostInv
<1> QED BY <1>1, <1>2, <1>3, <1>4, <1>5, <1>6, <1>7, <1>8, <1>9, <1>10, <1>11,
        <1>12, <1>13, <1>14, <1>15, <1>16, <1>17, <1>18, <1>19, <1>20 DEF Next,
        Helper

LEMMA HostStep == HostInv /\ [Next]_vars => HostInv'
BY TypeStep, RegisteredStep, StagedStep, TrackedStep, BuiltStep DEF HostInv

(***************************************************************************)
(* The fallback kernels.  Until the prune every kernel in keep has a file; *)
(* the removal spares it because the current version is not installed      *)
(* there, and the prune starts only with all of them installed.            *)
(***************************************************************************)
Fresh == {"stage", "move", "remove"}

Kept ==
  /\ pc \in Fresh => \A k \in keep : file[k] # None /\ k \notin Installed(cur)
  /\ pc \in {"add", "build"} => \A k \in keep : file[k] # None
  /\ pc \in Pruning => keep \subseteq Installed(cur)
  /\ OldDriverKept

KeptInv == HostInv /\ Kept

LEMMA KeptInit == Init => Kept
BY DEF Init, Kept, OldDriverKept, Fresh, Pruning

LEMMA KeptStep == ASSUME KeptInv, [Next]_vars PROVE Kept'
<1>1. ASSUME NEW p \in Plans, NEW t \in Kernels, Start(p, t) PROVE Kept'
  BY <1>1 DEF Start, Kept, OldDriverKept, Fresh, Pruning, Installed, cur
<1>2. CASE StageClear
  BY <1>2, CurStays DEF StageClear, Installed, Kept, OldDriverKept, Fresh, Pruning,
     KeptInv
<1>3. CASE StageMove
  BY <1>3, CurStays DEF StageMove, Installed, Kept, OldDriverKept, Fresh, Pruning, KeptInv
<1>4. CASE RemoveCurrent
  <2>1. pc = "remove" /\ pc' = "add" /\ UNCHANGED <<kern, keep, job>>
    BY <1>4 DEF RemoveCurrent
  <2>2. CASE UNCHANGED <<status, file>>
    BY <2>1, <2>2 DEF Kept, OldDriverKept, Fresh, Pruning, KeptInv
  <2>3. ASSUME NEW ks, Forget(Records({cur}, ks)) PROVE Kept'
    <3>1. \A k \in keep : k \in Kernels /\ file[k] # None /\ k \notin Installed(cur)
      BY <2>1 DEF KernelsOK, Kept, Fresh, KeptInv, HostInv, TypeInv
    <3>2. \A k \in keep : file'[k] # None
      BY <2>1, <2>3, <3>1, ForgetAll DEF KeptInv, HostInv, TypeInv
    <3> QED BY <2>1, <3>2 DEF Kept, OldDriverKept, Fresh, Pruning
  <2> QED BY <1>4, <2>2, <2>3 DEF RemoveCurrent
<1>5. CASE Add
  BY <1>5 DEF Add, Kept, OldDriverKept, Fresh, Pruning, KeptInv
<1>6. CASE Check
  <2>1. /\ pc = "build" /\ pc' \in {"versions", "config"}
        /\ pc' = "versions" => Unconverged = {}
        /\ UNCHANGED <<kern, status, file, keep, job>>
    BY <1>6, CompareLeaves DEF Check
  <2>2. keep \subseteq Bootable /\ Installed(cur)' = Installed(cur)
    BY <2>1 DEF Tracked, Installed, cur, KeptInv, HostInv
  <2>3. pc' = "versions" => keep \subseteq Installed(cur)
    BY <2>1, <2>2 DEF Unconverged
  <2> QED BY <2>1, <2>2, <2>3 DEF Kept, OldDriverKept, Fresh, Pruning, KeptInv
<1>7. ASSUME NEW k \in Kernels, BuildInstall(k) PROVE Kept'
  <2>1. pc = "build" /\ pc' = "build" /\ UNCHANGED keep
    BY <1>7 DEF BuildInstall
  <2>2. src[cur] # None /\ keep \subseteq Kernels
    BY <2>1, CurType DEF Staged, KernelsOK, KeptInv, HostInv, TypeInv
  <2>3. file' = file \/ file' = [file EXCEPT ![k] = src[cur]]
    BY <1>7, BuildLeaves DEF KeptInv, HostInv, TypeInv
  <2>4. \A j \in keep : file'[j] # None
    BY <2>1, <2>2, <2>3 DEF Kept, FileOK, KeptInv, HostInv, TypeInv
  <2> QED BY <2>1, <2>4 DEF Kept, OldDriverKept, Fresh, Pruning
<1>8. CASE PruneVersions
  <2>1. PICK gone \in SUBSET ((added \ {cur}) \X Kernels) : Forget(gone)
    BY <1>8 DEF PruneVersions, Records
  <2>2. pc = "versions" /\ pc' = "sources" /\ UNCHANGED <<kern, keep, job>>
    BY <1>8 DEF PruneVersions
  <2>3. cur' = cur /\ cur \in Versions /\ \A j \in Kernels : <<cur, j>> \notin gone
    BY <2>1, <2>2, CurType DEF cur, KeptInv, HostInv, TypeInv
  <2>4. Installed(cur)' = Installed(cur)
    <3>1. \A v \in Versions, j \in Kernels :
            status'[v][j] = IF <<v, j>> \in gone THEN "absent" ELSE status[v][j]
      BY <2>1, <2>2, ForgetLeaves DEF KeptInv, HostInv, TypeInv
    <3> QED BY <2>3, <3>1 DEF Installed
  <2> QED BY <2>2, <2>3, <2>4 DEF Kept, OldDriverKept, Fresh, Pruning, KeptInv
<1>9. CASE PruneSources
  BY <1>9, CurStays DEF PruneSources, Installed, Kept, OldDriverKept, Fresh, Pruning,
     KeptInv
<1>10. CASE PruneAbsent
  <2>1. pc = "absent" /\ pc' = "files" /\ UNCHANGED <<kern, keep, job>>
    BY <1>10 DEF PruneAbsent
  <2>2. cur' = cur /\ cur \in Versions /\ keep \subseteq Installed(cur)
    BY <2>1, CurType DEF cur, Kept, Pruning, KeptInv, HostInv, TypeInv
  <2>3. keep \subseteq HasDir
    BY DEF Tracked, Bootable, HasDir, KeptInv, HostInv
  <2>4. keep \subseteq Installed(cur)'
    <3>1. CASE UNCHANGED <<status, file>>
      BY <2>2, <3>1 DEF Installed
    <3>2. CASE Forget(Records(Versions, Kernels \ HasDir))
      BY <2>1, <2>2, <2>3, <3>2, ForgetAll DEF Installed, KeptInv, HostInv, TypeInv
    <3> QED BY <1>10, <3>1, <3>2 DEF PruneAbsent
  <2> QED BY <2>1, <2>4 DEF Kept, OldDriverKept, Fresh, Pruning
<1>11. CASE PruneFiles
  BY <1>11, CurStays DEF PruneFiles, Installed, Kept, OldDriverKept, Fresh, Pruning,
     KeptInv
<1>12. CASE Verify
  BY <1>12, CurStays DEF Verify, Installed, Kept, OldDriverKept, Fresh, Pruning, KeptInv
<1>13. CASE Finish
  BY <1>13, CurStays DEF Finish, Installed, Kept, OldDriverKept, Fresh, Pruning, KeptInv
<1>14. CASE WriteStamp
  BY <1>14, CurStays DEF WriteStamp, Installed, Kept, OldDriverKept, Fresh, Pruning,
     KeptInv
<1>15. CASE Killed
  BY <1>15, CurStays DEF Killed, Installed, Kept, OldDriverKept, Fresh, Pruning, KeptInv
<1>16. CASE Push
  BY <1>16, CurStays DEF Push, Installed, Kept, OldDriverKept, Fresh, Pruning, KeptInv
<1>17. ASSUME NEW k \in Kernels, KernelArrives(k) PROVE Kept'
  <2>1. UNCHANGED <<pc, keep, job>> /\ cur' = cur /\ k \notin Bootable
    BY <1>17 DEF KernelArrives, Bootable, cur
  <2>2. k \notin keep /\ keep \subseteq Kernels
    BY <2>1 DEF Tracked, KernelsOK, KeptInv, HostInv, TypeInv
  <2>3. \A j \in keep : file'[j] = file[j] /\ status'[cur][j] = status[cur][j]
    BY <1>17, <2>2, CurType DEF KernelArrives, StatusOK, FileOK, SourceOK, KeptInv,
       HostInv, TypeInv
  <2>4. \A j \in keep : j \in Installed(cur)' <=> j \in Installed(cur)
    BY <2>1, <2>2, <2>3 DEF Installed
  <2> QED BY <2>1, <2>3, <2>4 DEF Kept, OldDriverKept, Fresh, Pruning, KeptInv
<1>18. ASSUME NEW k \in Kernels, KernelLeaves(k) PROVE Kept'
  <2>1. /\ pc = "idle" /\ pc' = "idle" /\ keep' = keep \ {k}
        /\ UNCHANGED <<status, file, job>>
    BY <1>18 DEF KernelLeaves
  <2> QED BY <2>1 DEF Kept, OldDriverKept, Fresh, Pruning, Installed, cur, KeptInv
<1>19. ASSUME NEW k \in Kernels, DevelArrives(k) PROVE Kept'
  BY <1>19, CurStays DEF DevelArrives, Installed, cur, Kept, OldDriverKept, Fresh,
     Pruning, KeptInv
<1>20. CASE UNCHANGED vars
  BY <1>20 DEF vars, Installed, cur, Kept, OldDriverKept, Fresh, Pruning, KeptInv
<1> QED BY <1>1, <1>2, <1>3, <1>4, <1>5, <1>6, <1>7, <1>8, <1>9, <1>10, <1>11,
        <1>12, <1>13, <1>14, <1>15, <1>16, <1>17, <1>18, <1>19, <1>20 DEF Next,
        Helper

(* A run never takes the module another version left on a kernel unless    *)
(* DKMS reports the new one installed there, whatever failed (OldDriverKept).*)
THEOREM DriverIsKept == Spec => []OldDriverKept
<1>1. Init => KeptInv
  BY HostInit, KeptInit DEF KeptInv
<1>2. KeptInv /\ [Next]_vars => KeptInv'
  BY HostStep, KeptStep DEF KeptInv
<1>3. KeptInv => OldDriverKept
  BY DEF KeptInv, Kept
<1> QED BY <1>1, <1>2, <1>3, PTL DEF Spec

(***************************************************************************)
(* The stamp.  A run only starts on a checkout without its stamp; from the *)
(* last convergence check to the end the kernels it looked at have this    *)
(* revision's file, and the stamp is written by runs that met all of them. *)
(***************************************************************************)
Ending == {"config", "stamp"}

Stamped ==
  /\ pc # "idle" => stamp # head
  /\ job.ci => job.all
  /\ pc \in Ending /\ unconv = {} => \A k \in checked : file[k] = job.rev
  /\ pc = "stamp" => job.ci /\ unconv = {}
  /\ StampIsTrue

StampInv == HostInv /\ Stamped

(* Deployments leave out what is stamped, and are of every kernel.         *)
Careful == Redeploys = FALSE /\ \A p \in Plans : p.ci => p.all

LEMMA StampInit == Init => Stamped
BY DEF Init, Stamped, StampIsTrue, Ending, None

LEMMA StampStep == ASSUME Careful, StampInv, [Next]_vars PROVE Stamped'
<1>1. ASSUME NEW p \in Plans, NEW t \in Kernels, Start(p, t) PROVE Stamped'
  BY <1>1 DEF Start, Careful, Stamped, StampIsTrue, Ending
<1>2. CASE StageClear
  BY <1>2 DEF StageClear, Stamped, StampIsTrue, Ending, StampInv
<1>3. CASE StageMove
  BY <1>3 DEF StageMove, Stamped, StampIsTrue, Ending, StampInv
<1>4. CASE RemoveCurrent
  BY <1>4 DEF RemoveCurrent, Stamped, StampIsTrue, Ending, StampInv
<1>5. CASE Add
  BY <1>5 DEF Add, Stamped, StampIsTrue, Ending, StampInv
<1>6. CASE Check
  <2>1. /\ pc = "build" /\ pc' \in {"versions", "config"}
        /\ (unconv' = {} => Unconverged = {}) /\ checked' = Bootable
        /\ UNCHANGED <<file, head, stamp, job>>
    BY <1>6, CompareLeaves DEF Check
  <2>2. unconv' = {} => \A k \in checked' : file'[k] = job'.rev
    BY <2>1 DEF Unconverged, Built, StampInv, HostInv, TypeInv
  <2> QED BY <2>1, <2>2 DEF Stamped, StampIsTrue, Ending, StampInv
<1>7. ASSUME NEW k \in Kernels, BuildInstall(k) PROVE Stamped'
  BY <1>7 DEF BuildInstall, Stamped, StampIsTrue, Ending, StampInv
<1>8. CASE PruneVersions
  BY <1>8 DEF PruneVersions, Stamped, StampIsTrue, Ending, StampInv
<1>9. CASE PruneSources
  BY <1>9 DEF PruneSources, Stamped, StampIsTrue, Ending, StampInv
<1>10. CASE PruneAbsent
  BY <1>10 DEF PruneAbsent, Stamped, StampIsTrue, Ending, StampInv
<1>11. CASE PruneFiles
  BY <1>11 DEF PruneFiles, Stamped, StampIsTrue, Ending, StampInv
<1>12. CASE Verify
  <2>1. /\ pc = "verify" /\ pc' \in {"config", "idle"}
        /\ (unconv' = {} => Unconverged = {}) /\ checked' = Bootable
        /\ pc' = "config" => \A k \in Bootable : file[k] # None
        /\ UNCHANGED <<file, head, stamp, job>>
    BY <1>12 DEF Verify, Unconverged
  <2>2. pc' = "config" /\ unconv' = {} => \A k \in checked' : file'[k] = job'.rev
    BY <2>1 DEF Unconverged, Built, Pruning, StampInv, HostInv, TypeInv
  <2> QED BY <2>1, <2>2 DEF Stamped, StampIsTrue, Ending, StampInv
<1>13. CASE Finish
  BY <1>13 DEF Finish, Stamped, StampIsTrue, Ending, StampInv
<1>14. CASE WriteStamp
  <2>1. /\ pc = "stamp" /\ pc' = "idle" /\ UNCHANGED <<file, checked, head, job>>
        /\ stamp' \in {stamp, head}
    BY <1>14 DEF WriteStamp, RunOK, StampInv, HostInv, TypeInv
  <2>2. \A k \in checked : file[k] = head
    BY <2>1 DEF Stamped, Ending, RunOK, StampInv, HostInv, TypeInv
  <2> QED BY <2>1, <2>2 DEF Stamped, StampIsTrue, Ending, StampInv
<1>15. CASE Killed
  BY <1>15 DEF Killed, Stamped, StampIsTrue, Ending, StampInv
<1>16. CASE Push
  <2>1. /\ pc = "idle" /\ pc' = "idle" /\ head' = head + 1 /\ UNCHANGED <<stamp, job>>
    BY <1>16 DEF Push
  <2>2. stamp # head + 1
    BY RunNumbers DEF StampInv, HostInv, TypeInv
  <2> QED BY <2>1, <2>2 DEF Stamped, StampIsTrue, Ending, StampInv
<1>17. ASSUME NEW k \in Kernels, KernelArrives(k) PROVE Stamped'
  <2>1. UNCHANGED <<pc, head, stamp, job, unconv, checked>> /\ k \notin Bootable
    BY <1>17 DEF KernelArrives, Bootable
  <2>2. k \notin checked /\ checked \subseteq Kernels
    BY <2>1 DEF Tracked, KernelsOK, StampInv, HostInv, TypeInv
  <2>3. \A j \in checked : file'[j] = file[j]
    BY <1>17, <2>2 DEF KernelArrives, FileOK, StampInv, HostInv, TypeInv
  <2> QED BY <2>1, <2>3 DEF Stamped, StampIsTrue, Ending, StampInv
<1>18. ASSUME NEW k \in Kernels, KernelLeaves(k) PROVE Stamped'
  <2>1. /\ pc = "idle" /\ pc' = "idle" /\ checked' = checked \ {k}
        /\ UNCHANGED <<file, head, stamp, job>>
    BY <1>18 DEF KernelLeaves
  <2> QED BY <2>1 DEF Stamped, StampIsTrue, Ending, StampInv
<1>19. ASSUME NEW k \in Kernels, DevelArrives(k) PROVE Stamped'
  BY <1>19 DEF DevelArrives, Stamped, StampIsTrue, Ending, StampInv
<1>20. CASE UNCHANGED vars
  BY <1>20 DEF vars, Stamped, StampIsTrue, Ending, StampInv
<1> QED BY <1>1, <1>2, <1>3, <1>4, <1>5, <1>6, <1>7, <1>8, <1>9, <1>10, <1>11,
        <1>12, <1>13, <1>14, <1>15, <1>16, <1>17, <1>18, <1>19, <1>20 DEF Next,
        Helper

(* A host that carries the stamp of the checkout has that revision's module*)
(* on every kernel the deployment checked (StampIsTrue), as long as no     *)
(* deployment is forced over a stamp or told to build for one kernel only. *)
THEOREM StampTells == ASSUME Careful PROVE Spec => []StampIsTrue
<1>1. Init => StampInv
  BY HostInit, StampInit DEF StampInv
<1>2. StampInv /\ [Next]_vars => StampInv'
  BY HostStep, StampStep DEF StampInv
<1>3. StampInv => StampIsTrue
  BY DEF StampInv, Stamped
<1> QED BY <1>1, <1>2, <1>3, PTL DEF Spec

(***************************************************************************)
(* The prune.  Each of its steps leaves one thing for good: no record of   *)
(* another version but on a kernel that has come since, which the safety   *)
(* net finds unconverged; one source tree; one revision's files.           *)
(***************************************************************************)
FullRun == job.all /\ job.prune /\ ~job.dry

NoRecord(v, k) == status[v][k] = "absent" \/ (k \in Bootable /\ k \notin Installed(cur))
OneSource == \A v \in Versions : src[v] # None => v = cur
OneFile == \A k \in Kernels : file[k] \in {job.rev, None}

OneLeft ==
  /\ cur \in added /\ OneSource /\ OneFile
  /\ \A v \in Versions \ {cur}, k \in Kernels : status[v][k] = "absent"

Pruned ==
  /\ pc \in Pruning => job.prune /\ ~job.dry
  /\ pc \in Pruning \ {"versions"} /\ clean =>
       \A v \in Versions \ {cur}, k \in Kernels : NoRecord(v, k)
  /\ pc \in Pruning \ {"versions", "sources"} => OneSource
  /\ pc = "verify" => OneFile
  /\ pc = "config" /\ clean /\ FullRun /\ unconv = {} => OneLeft
  /\ pc \in {"stamp", "idle"} /\ clean /\ FullRun => OneLeft

PrunedInv == HostInv /\ Pruned

LEMMA PrunedInit == Init => Pruned
BY DEF Init, Pruned, Pruning

(* What a step that leaves the host's records, trees and files alone keeps.*)
LEMMA LeftAlone ==
  ASSUME UNCHANGED <<src, added, status, file, job>>
  PROVE  /\ cur' = cur /\ OneLeft' = OneLeft /\ OneSource' = OneSource
         /\ OneFile' = OneFile /\ FullRun' = FullRun
         /\ \A v \in Versions : Installed(v)' = Installed(v)
BY DEF OneLeft, OneSource, OneFile, FullRun, Installed, cur

(* An AUTOINSTALL builds from a tree that is there: with one tree left it  *)
(* is the run's own, and one version stays one version.                    *)
LEMMA ArrivalKeepsOne ==
  ASSUME HostInv, NEW k \in Kernels, KernelArrives(k), OneSource, src[cur] = job.rev
  PROVE  /\ OneSource' /\ (OneFile => OneFile') /\ (OneLeft => OneLeft')
<1>1. UNCHANGED <<src, added, job>> /\ cur' = cur
  BY DEF KernelArrives, cur
<1>2. CASE UNCHANGED <<status, file>>
  BY <1>1, <1>2, LeftAlone
<1>3. ASSUME NEW v \in added, src[v] # None,
             status' = [status EXCEPT ![v][k] = "installed"],
             file' = [file EXCEPT ![k] = src[v]]
      PROVE  OneSource' /\ (OneFile => OneFile') /\ (OneLeft => OneLeft')
  <2>1. v = cur /\ v \in Versions /\ src[v] = job.rev
    BY <1>3 DEF OneSource, HostInv, TypeInv, SourceOK
  <2>2. OneSource' /\ (OneFile => OneFile')
    BY <1>1, <1>3, <2>1 DEF OneSource, OneFile, HostInv, TypeInv, FileOK
  <2>3. \A w \in Versions \ {cur}, j \in Kernels : status'[w][j] = status[w][j]
    BY <1>3, <2>1 DEF HostInv, TypeInv, StatusOK
  <2> QED BY <1>1, <2>2, <2>3 DEF OneLeft
<1> QED BY <1>2, <1>3 DEF KernelArrives

LEMMA PrunedStep == ASSUME PrunedInv, [Next]_vars PROVE Pruned'
<1>1. ASSUME NEW p \in Plans, NEW t \in Kernels, Start(p, t) PROVE Pruned'
  BY <1>1 DEF Start, Pruned, Pruning
<1>2. CASE StageClear
  BY <1>2 DEF StageClear, Pruned, Pruning
<1>3. CASE StageMove
  BY <1>3 DEF StageMove, Pruned, Pruning
<1>4. CASE RemoveCurrent
  BY <1>4 DEF RemoveCurrent, Pruned, Pruning
<1>5. CASE Add
  BY <1>5 DEF Add, Pruned, Pruning
<1>6. CASE Check
  BY <1>6 DEF Check, Pruned, Pruning, FullRun
<1>7. ASSUME NEW k \in Kernels, BuildInstall(k) PROVE Pruned'
  BY <1>7 DEF BuildInstall, Pruned, Pruning
<1>8. CASE PruneVersions
  <2> DEFINE stale == {v \in added \ {cur} : \E k \in Kernels : status[v][k] # "absent"}
  <2>1. PICK gone \in SUBSET Records(stale, Kernels) :
          Forget(gone) /\ (clean' => gone = Records(stale, Kernels))
    BY <1>8 DEF PruneVersions, OnlyAdded
  <2>2. pc = "versions" /\ pc' = "sources" /\ UNCHANGED <<kern, job>> /\ cur' = cur
    BY <1>8 DEF PruneVersions, cur
  <2>3. ASSUME clean', NEW v \in Versions \ {cur}, NEW k \in Kernels
        PROVE  status'[v][k] = "absent"
    <3>1. status'[v][k] = IF v \in stale THEN "absent" ELSE status[v][k]
      BY <2>1, <2>2, <2>3, ForgetAll DEF PrunedInv, HostInv, TypeInv
    <3>2. CASE v \in added
      BY <2>3, <3>1, <3>2
    <3>3. CASE v \notin added
      BY <2>3, <3>1, <3>3 DEF Registered, PrunedInv, HostInv
    <3> QED BY <3>2, <3>3
  <2> HIDE DEF stale
  <2> QED BY <2>2, <2>3 DEF Pruned, Pruning, PrunedInv, NoRecord
<1>9. CASE PruneSources
  <2>1. /\ pc = "sources" /\ pc' = "absent" /\ UNCHANGED <<kern, status, clean, job>>
        /\ src' = [v \in Versions |-> IF v = cur THEN src[v] ELSE None]
    BY <1>9 DEF PruneSources
  <2>2. cur' = cur /\ \A v \in Versions, k \in Kernels : NoRecord(v, k)' = NoRecord(v, k)
    BY <2>1 DEF NoRecord, Bootable, Installed, cur
  <2>3. OneSource'
    BY <2>1, <2>2 DEF OneSource
  <2> QED BY <2>1, <2>2, <2>3 DEF Pruned, Pruning, PrunedInv
<1>10. CASE PruneAbsent
  <2>1. /\ pc = "absent" /\ pc' = "files" /\ UNCHANGED <<kern, src, job>>
        /\ clean' => clean
    BY <1>10 DEF PruneAbsent
  <2>2. cur' = cur /\ cur \in Versions /\ OneSource' = OneSource /\ Bootable' = Bootable
    BY <2>1, CurType DEF OneSource, Bootable, cur, PrunedInv, HostInv, TypeInv
  <2>3. \A v \in Versions, k \in Kernels : status'[v][k] \in {status[v][k], "absent"}
    <3>1. CASE UNCHANGED status
      BY <3>1
    <3>2. CASE Forget(Records(Versions, Kernels \ HasDir))
      BY <2>1, <3>2, ForgetAll DEF PrunedInv, HostInv, TypeInv
    <3> QED BY <1>10, <3>1, <3>2 DEF PruneAbsent
  <2>4. \A v \in Versions, k \in Kernels : NoRecord(v, k) => NoRecord(v, k)'
    BY <2>2, <2>3 DEF NoRecord, Installed
  <2> QED BY <2>1, <2>2, <2>4 DEF Pruned, Pruning, PrunedInv
<1>11. CASE PruneFiles
  <2>1. /\ pc = "files" /\ pc' = "verify" /\ UNCHANGED <<kern, src, status, job>>
        /\ \A k \in Kernels : file'[k] = None \/ (k \in Installed(cur) /\ file'[k] = file[k])
    <3>1. PICK owned \in {Installed(cur), {}} :
            file' = [k \in Kernels |-> IF k \in owned THEN file[k] ELSE None]
      BY <1>11 DEF PruneFiles
    <3>2. pc = "files" /\ pc' = "verify" /\ UNCHANGED <<kern, src, status, job>>
      BY <1>11 DEF PruneFiles
    <3>3. \A k \in Kernels : file'[k] = IF k \in owned THEN file[k] ELSE None
      BY <3>1, Zenon
    <3>4. owned \subseteq Installed(cur)
      BY <3>1
    <3> QED BY <3>2, <3>3, <3>4
  <2>2. /\ cur' = cur /\ OneSource' = OneSource
        /\ \A v \in Versions, k \in Kernels : NoRecord(v, k)' = NoRecord(v, k)
    BY <2>1 DEF NoRecord, OneSource, Bootable, Installed, cur
  <2>3. OneFile'
    BY <2>1 DEF OneFile, Built, Pruning, PrunedInv, HostInv, TypeInv
  <2>4. clean' => clean
    BY <1>11 DEF PruneFiles
  <2> QED BY <2>1, <2>2, <2>3, <2>4 DEF Pruned, Pruning, PrunedInv
<1>12. CASE Verify
  <2>1. /\ pc = "verify" /\ pc' \in {"config", "idle"}
        /\ pc' = "config" => unconv' = {} /\ Unconverged = {} /\ clean' = clean
        /\ pc' = "idle" => clean' = FALSE
        /\ UNCHANGED <<src, added, status, file, job>>
    BY <1>12 DEF Verify
  <2>2. CASE clean /\ Unconverged = {}
    <3>1. \A v \in Versions \ {cur}, k \in Kernels : status[v][k] = "absent"
      BY <2>1, <2>2 DEF NoRecord, Unconverged, Pruned, Pruning, PrunedInv
    <3>2. OneLeft
      BY <2>1, <3>1 DEF OneLeft, Built, Pruned, Pruning, PrunedInv, HostInv
    <3> QED BY <2>1, <3>2, LeftAlone DEF Pruned, Pruning
  <2>3. CASE ~(clean /\ Unconverged = {})
    BY <2>1, <2>3 DEF Pruned, Pruning
  <2> QED BY <2>2, <2>3
<1>13. CASE Finish
  <2>1. /\ pc = "config" /\ pc' \in {"idle", "stamp"}
        /\ clean' => clean /\ (unconv = {} \/ ~job.all)
        /\ UNCHANGED <<src, added, status, file, job>>
    BY <1>13 DEF Finish
  <2>2. clean' /\ FullRun => OneLeft
    BY <2>1 DEF Pruned, FullRun, PrunedInv
  <2> QED BY <2>1, <2>2, LeftAlone DEF Pruned, Pruning
<1>14. CASE WriteStamp
  <2>1. /\ pc = "stamp" /\ pc' = "idle" /\ (clean' => clean)
        /\ UNCHANGED <<src, added, status, file, job>>
    BY <1>14 DEF WriteStamp
  <2> QED BY <2>1, LeftAlone DEF Pruned, Pruning, PrunedInv
<1>15. CASE Killed
  BY <1>15 DEF Killed, Pruned, Pruning
<1>16. CASE Push
  <2>1. pc = "idle" /\ UNCHANGED <<pc, src, added, status, file, job, clean>>
    BY <1>16 DEF Push
  <2> QED BY <2>1, LeftAlone DEF Pruned, Pruning, PrunedInv
<1>17. ASSUME NEW k \in Kernels, KernelArrives(k) PROVE Pruned'
  <2>1. UNCHANGED <<pc, src, added, job, clean, unconv>> /\ cur' = cur
    BY <1>17 DEF KernelArrives, cur
  <2>2. pc \in {"absent", "files", "verify"} => OneSource /\ src[cur] = job.rev
    BY DEF Staged, Pruned, Pruning, PrunedInv, HostInv
  <2>3. OneLeft /\ src[cur] = job.rev => OneLeft'
    BY <1>17, ArrivalKeepsOne DEF OneLeft, PrunedInv
  <2>4. pc \notin {"idle", "stage", "move"} \/ (pc = "idle" /\ clean) => src[cur] = job.rev
    BY DEF Staged, PrunedInv, HostInv
  <2>5. ASSUME pc \in Pruning, NEW v \in Versions \ {cur}, NEW j \in Kernels, NoRecord(v, j)
        PROVE  NoRecord(v, j)'
    <3>1. /\ k \notin Bootable /\ k \notin Installed(cur) /\ cur \in Versions
          /\ Bootable' = Bootable \cup {k}
      BY <1>17, <2>5, CurType DEF KernelArrives, Bootable, Built, KernOK, PrunedInv,
         HostInv, TypeInv
    <3>2. CASE UNCHANGED status
      BY <2>1, <2>5, <3>1, <3>2 DEF NoRecord, Installed
    <3>3. ASSUME NEW w \in added, status' = [status EXCEPT ![w][k] = "installed"]
          PROVE  NoRecord(v, j)'
      <4>1. w \in Versions /\ status'[w][k] = "installed"
        BY <3>3 DEF SourceOK, StatusOK, PrunedInv, HostInv, TypeInv
      <4>2. \A u \in Versions, i \in Kernels : u # w \/ i # k => status'[u][i] = status[u][i]
        BY <3>3 DEF StatusOK, PrunedInv, HostInv, TypeInv
      <4>3. CASE j # k
        BY <2>1, <2>5, <3>1, <4>2, <4>3 DEF NoRecord, Installed
      <4>4. CASE j = k /\ v # w
        BY <2>1, <2>5, <3>1, <4>2, <4>4 DEF NoRecord
      <4>5. CASE j = k /\ v = w
        BY <2>1, <2>5, <3>1, <4>2, <4>5 DEF NoRecord, Installed
      <4> QED BY <4>3, <4>4, <4>5
    <3> QED BY <1>17, <3>2, <3>3 DEF KernelArrives
  <2>6. pc \in {"absent", "files", "verify"} => OneSource' /\ (OneFile => OneFile')
    BY <1>17, <2>2, ArrivalKeepsOne DEF PrunedInv
  <2>7. FullRun' = FullRun
    BY <2>1 DEF FullRun
  <2> QED BY <2>1, <2>3, <2>4, <2>5, <2>6, <2>7 DEF Pruned, Pruning, PrunedInv
<1>18. ASSUME NEW k \in Kernels, KernelLeaves(k) PROVE Pruned'
  <2>1. pc = "idle" /\ UNCHANGED <<pc, src, added, status, file, job, clean>>
    BY <1>18 DEF KernelLeaves
  <2> QED BY <2>1, LeftAlone DEF Pruned, Pruning, PrunedInv
<1>19. ASSUME NEW k \in Kernels, DevelArrives(k) PROVE Pruned'
  <2>1. UNCHANGED <<pc, src, added, status, file, job, clean, unconv>>
    BY <1>19 DEF DevelArrives
  <2>2. Bootable' = Bootable
    BY <1>19 DEF DevelArrives, Bootable, KernOK, PrunedInv, HostInv, TypeInv
  <2>3. \A v \in Versions, j \in Kernels : NoRecord(v, j)' = NoRecord(v, j)
    BY <2>1, <2>2 DEF NoRecord, Installed, cur
  <2> QED BY <2>1, <2>3, LeftAlone DEF Pruned, Pruning, PrunedInv
<1>20. CASE UNCHANGED vars
  BY <1>20 DEF vars, cur, NoRecord, Bootable, Installed, OneLeft, OneSource,
         OneFile, FullRun, Pruned, Pruning, PrunedInv
<1> QED BY <1>1, <1>2, <1>3, <1>4, <1>5, <1>6, <1>7, <1>8, <1>9, <1>10, <1>11,
        <1>12, <1>13, <1>14, <1>15, <1>16, <1>17, <1>18, <1>19, <1>20 DEF Next,
        Helper

(* A full run that exits 0 with no command failed leaves one source tree,  *)
(* and of every other version no build, no module and, unless it was never *)
(* built, no registration (OneVersionLeft).                                *)
THEOREM PruneIsComplete == Spec => []OneVersionLeft
<1>1. Init => PrunedInv
  BY HostInit, PrunedInit DEF PrunedInv
<1>2. PrunedInv /\ [Next]_vars => PrunedInv'
  BY HostStep, PrunedStep DEF PrunedInv
<1>3. PrunedInv => OneVersionLeft
  <2> SUFFICES ASSUME PrunedInv, pc = "idle" /\ clean /\ FullRun
               PROVE  /\ OneLeft
                      /\ {v \in Versions : src[v] # None} = {cur}
    BY DEF OneVersionLeft, OneLeft, OneFile, FullRun, OnlyAdded
  <2>1. OneLeft /\ src[cur] = job.rev
    BY DEF Pruned, Staged, PrunedInv, HostInv
  <2>2. cur \in Versions /\ src[cur] # None
    BY <2>1, CurType DEF PrunedInv, HostInv, TypeInv
  <2> QED BY <2>1, <2>2 DEF OneLeft, OneSource
<1> QED BY <1>1, <1>2, <1>3, PTL DEF Spec

=============================================================================
