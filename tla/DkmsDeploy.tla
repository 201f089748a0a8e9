----------------------------- MODULE DkmsDeploy -----------------------------
(***************************************************************************)
(* The deployment of the driver on a capture host: the root helper         *)
(* deploy_dkms_install.sh, run again and again by deploy.yml or by hand,   *)
(* against the state DKMS, /usr/src and /lib/modules keep between runs.    *)
(* Any step may fail, the run may be killed between two steps, and the     *)
(* package manager adds and removes kernels meanwhile.  Tools, udev and    *)
(* modprobe files are copied unconditionally and left out.                 *)
(***************************************************************************)
EXTENDS Integers, FiniteSets

CONSTANTS Kernels,      \* kernel releases this host may have
          Releases,     \* the DKMS version of each revision, oldest first
          MaxFaults,    \* bound: failed commands and kills
          MaxChanges,   \* bound: kernels added or removed
          Redeploys,    \* are revisions that carry the stamp deployed again?
          Plans         \* the [ci, all, prune, dry] options runs are made with

Revs == DOMAIN Releases
Versions == {Releases[r] : r \in Revs}
None == 0

ASSUME DeployAssumption ==
  /\ Kernels # {} /\ Cardinality(Revs) \in Nat \ {0} /\ Revs = 1 .. Cardinality(Revs)
  /\ MaxFaults \in Nat /\ MaxChanges \in Nat /\ Redeploys \in BOOLEAN
  /\ Plans \subseteq [ci : BOOLEAN, all : BOOLEAN, prune : BOOLEAN, dry : BOOLEAN]

VARIABLES
  kern,     \* /lib/modules/<k>: absent, leftover (no modules.dep), bare (no build tree), devel
  src,      \* the revision /usr/src/<name>-<version> holds, or None
  added,    \* versions DKMS has registered
  status,   \* dkms status of each version and kernel
  file,     \* the revision cxadc.ko of each kernel was built from, or None
  head,     \* the revision of the checkout
  stamp,    \* deploy.yml's stamp file
  pc, job,  \* the run: its next step, its options and revision
  todo,     \* kernels the build loop has still to visit
  unconv,   \* unconverged_kernels
  checked,  \* history: the bootable kernels of the last convergence check
  keep,     \* history: kernels that had another version's driver at the start
  clean,    \* history: no command of this run has failed
  faults, changes

host   == <<kern, src, added, status, file>>
script == <<job, todo, unconv, checked, keep>>
vars   == <<host, head, stamp, pc, script, clean, faults, changes>>

cur      == Releases[job.rev]
Bootable == {k \in Kernels : kern[k] \in {"bare", "devel"}}
HasDir   == {k \in Kernels : kern[k] # "absent"}

\* Kernels for which dkms status reports version v as installed.
Installed(v) == {k \in Kernels : status[v][k] = "installed"}

\* Mutant: a leftover directory counts as a kernel that lacks the driver.
UnconvergedDirs == HasDir \ Installed(cur)

Unconverged == Bootable \ Installed(cur)

Init ==
  /\ kern \in [Kernels -> {"absent", "devel"}] /\ \E k \in Kernels : kern[k] = "devel"
  /\ src = [v \in Versions |-> None] /\ added = {}
  /\ status = [v \in Versions |-> [k \in Kernels |-> "absent"]]
  /\ file = [k \in Kernels |-> None]
  /\ head = 1 /\ stamp = None /\ pc = "idle"
  /\ job = [rev |-> 1, target |-> CHOOSE k \in Kernels : TRUE,
            ci |-> FALSE, all |-> TRUE, prune |-> TRUE, dry |-> FALSE]
  /\ todo = {} /\ unconv = {} /\ checked = {} /\ keep = {}
  /\ clean = FALSE /\ faults = 0 /\ changes = 0

-----------------------------------------------------------------------------
\* One command of the run fails, within the bound.
Fails == faults < MaxFaults /\ faults' = faults + 1 /\ clean' = FALSE
Works == UNCHANGED <<faults, clean>>

Goto(l) == pc' = l
\* exit with an error: the run is over and has not succeeded.
Abort == pc' = "idle" /\ clean' = FALSE

Records(vs, ks) == vs \X ks

\* dkms remove takes these records, and with the record of an installed module
\* the one file of that kernel, whichever version wrote it last.
Forget(pairs) ==
  /\ status' = [v \in Versions |-> [k \in Kernels |->
                  IF <<v, k>> \in pairs THEN "absent" ELSE status[v][k]]]
  /\ file' = [k \in Kernels |->
                IF \E v \in Versions : <<v, k>> \in pairs /\ k \in Installed(v)
                THEN None ELSE file[k]]

\* Registered, and never built for any kernel.
OnlyAdded(v) == v \in added /\ \A k \in Kernels : status[v][k] = "absent"

-----------------------------------------------------------------------------
(* The helper.                                                             *)

\* deploy.yml skips a revision that is stamped unless it is forced to; a root
\* shell runs the helper as it likes.
Start(p, t) ==
  /\ pc = "idle" /\ (Redeploys \/ stamp # head) /\ t \in Bootable
  /\ job' = [rev |-> head, target |-> t,
             ci |-> p.ci, all |-> p.all, prune |-> p.prune, dry |-> p.dry]
  /\ keep' = {k \in Bootable : file[k] # None /\ k \notin Installed(Releases[head])}
  /\ clean' = TRUE /\ Goto("stage")
  /\ UNCHANGED <<host, head, stamp, todo, unconv, checked, faults, changes>>

StageClear == \* rm -rf of the old source root, the new one being staged aside
  /\ pc = "stage" /\ Goto("move")
  /\ src' = [src EXCEPT ![cur] = None]
  /\ UNCHANGED <<kern, added, status, file, head, stamp, script, clean, faults, changes>>

StageMove ==
  /\ pc = "move" /\ Goto("remove")
  /\ src' = [src EXCEPT ![cur] = job.rev]
  /\ UNCHANGED <<kern, added, status, file, head, stamp, script, clean, faults, changes>>

\* Mutant: the removal before the rebuild is dropped.
RemoveNothing ==
  /\ pc = "remove" /\ Goto("add")
  /\ UNCHANGED <<host, head, stamp, script, clean, faults, changes>>

RemoveCurrent == \* dkms remove --all || true, which may fail after some kernels
  /\ pc = "remove" /\ Goto("add")
  /\ IF cur \in added
     THEN \/ Works /\ Forget(Records({cur}, Kernels)) /\ added' = added \ {cur}
          \/ Fails /\ UNCHANGED added /\ \E ks \in SUBSET Kernels : Forget(Records({cur}, ks))
     ELSE Works /\ UNCHANGED <<added, status, file>>
  /\ UNCHANGED <<kern, src, head, stamp, script, changes>>

Add == \* dkms add refuses a version it knows, and set -e ends the run
  /\ pc = "add"
  /\ IF cur \in added THEN Abort /\ UNCHANGED <<added, todo>>
     ELSE /\ added' = added \cup {cur} /\ Goto("build") /\ UNCHANGED clean
          /\ todo' = IF job.all THEN HasDir ELSE {job.target}
  /\ UNCHANGED <<kern, src, status, file, head, stamp, job, unconv, checked, keep, faults, changes>>

\* build_install_for_kernel: a missing build tree, a failed build and a failed
\* install are warnings.  Whether DKMS goes on reporting another version as
\* installed for this kernel is left open: it is the file that is shared.
BuildInstall(k) ==
  LET Record(s, others) ==
        [v \in Versions |-> [status[v] EXCEPT ![k] =
           IF v = cur THEN s ELSE IF @ = "installed" THEN others ELSE @]]
  IN /\ pc = "build" /\ k \in todo /\ (job.target \in todo => k = job.target)
     /\ todo' = todo \ {k}
     /\ \/ kern[k] # "devel" /\ Works /\ UNCHANGED <<status, file>>
        \/ kern[k] = "devel" /\ Fails /\ UNCHANGED <<status, file>>
        \/ kern[k] = "devel" /\ Fails /\ status' = Record("built", "installed") /\ UNCHANGED file
        \/ /\ kern[k] = "devel" /\ Works /\ file' = [file EXCEPT ![k] = src[cur]]
           /\ \E others \in {"built", "installed"} : status' = Record("installed", others)
     /\ UNCHANGED <<kern, src, added, head, stamp, pc, job, unconv, checked, keep, changes>>

\* Mutant: the prune is not gated on convergence.
CheckUngated ==
  /\ pc = "build" /\ todo = {}
  /\ unconv' = Unconverged /\ checked' = Bootable
  /\ Goto(IF job.prune /\ ~job.dry THEN "versions" ELSE "config")
  /\ UNCHANGED <<host, head, stamp, job, todo, keep, clean, faults, changes>>

\* compute_unconverged_kernels.  A dkms status that fails lists nothing.
CompareStatus ==
  /\ checked' = Bootable
  /\ \/ Works /\ unconv' = Unconverged
     \/ Fails /\ unconv' = Bootable

Check == \* and the gate before the prune
  /\ pc = "build" /\ todo = {} /\ CompareStatus
  /\ Goto(IF job.prune /\ unconv' = {} /\ ~job.dry THEN "versions" ELSE "config")
  /\ UNCHANGED <<host, head, stamp, job, todo, keep, changes>>

\* a. dkms remove --all || true for every superseded version that has a record:
\* of a version that is only registered, dkms status prints a line whose second
\* field is not the version alone, and the removal of that name does nothing.
\* A removal may fail after some kernels.
PruneVersions ==
  /\ pc = "versions" /\ Goto("sources")
  /\ LET stale == {v \in added \ {cur} : ~OnlyAdded(v)}
     IN \E gone \in SUBSET Records(stale, Kernels) :
          /\ IF gone = Records(stale, Kernels) THEN Works ELSE Fails
          /\ Forget(gone)
          /\ added' = added \ {v \in stale : Records({v}, Kernels) \subseteq gone}
  /\ UNCHANGED <<kern, src, head, stamp, script, changes>>

\* Mutant: the source trees of superseded versions stay.
PruneNoSources ==
  /\ pc = "sources" /\ Goto("absent")
  /\ UNCHANGED <<host, head, stamp, script, clean, faults, changes>>

PruneSources == \* b.
  /\ pc = "sources" /\ Goto("absent")
  /\ src' = [v \in Versions |-> IF v = cur THEN src[v] ELSE None]
  /\ UNCHANGED <<kern, added, status, file, head, stamp, script, clean, faults, changes>>

PruneAbsent == \* c. records of kernels that have no directory any more
  /\ pc = "absent" /\ Goto("files")
  /\ \/ Works /\ Forget(Records(Versions, Kernels \ HasDir))
     \/ Fails /\ UNCHANGED <<status, file>>
  /\ UNCHANGED <<kern, src, added, head, stamp, script, changes>>

\* d. module files of kernels the current version is not installed for: of all
\* kernels when this dkms status fails.
PruneFiles ==
  /\ pc = "files" /\ Goto("verify")
  /\ \E owned \in {Installed(cur), {}} :
       /\ IF owned = Installed(cur) THEN Works ELSE Fails
       /\ file' = [k \in Kernels |-> IF k \in owned THEN file[k] ELSE None]
  /\ UNCHANGED <<kern, src, added, status, head, stamp, script, changes>>

\* Mutant: the safety net believes dkms status and does not look for the files.
VerifyStatus ==
  /\ pc = "verify"
  /\ unconv' = Unconverged /\ checked' = Bootable
  /\ IF unconv' = {} THEN Goto("config") /\ UNCHANGED clean ELSE Abort
  /\ UNCHANGED <<host, head, stamp, job, todo, keep, faults, changes>>

Verify == \* the post-prune safety net
  /\ pc = "verify" /\ checked' = Bootable
  /\ \/ /\ unconv' = Unconverged /\ UNCHANGED faults
        /\ IF unconv' = {} /\ \A k \in Bootable : file[k] # None
           THEN Goto("config") /\ UNCHANGED clean
           ELSE Abort
     \/ unconv' = Bootable /\ Fails /\ Goto("idle")
  /\ UNCHANGED <<host, head, stamp, job, todo, keep, changes>>

Finish == \* depmod, configuration, and the exit code
  /\ pc = "config"
  /\ IF unconv # {} /\ job.all THEN Abort
     ELSE Goto(IF job.ci THEN "stamp" ELSE "idle") /\ UNCHANGED clean
  /\ UNCHANGED <<host, head, stamp, script, faults, changes>>

\* deploy.yml reloads the module, which may fail, checks, and writes the stamp.
\* What it is running was built by this run, so that a module of another
\* revision is what DKMS calls a difference.
WriteStamp ==
  /\ pc = "stamp"
  /\ \/ /\ Installed(cur) # {}
        /\ \A k \in Kernels : status[cur][k] # "built"
        /\ \A k \in Installed(cur) : file[k] \in {job.rev, None}
        /\ file[job.target] # None
        /\ stamp' = job.rev /\ Goto("idle") /\ Works
     \/ /\ \/ Installed(cur) = {}
           \/ \E k \in Kernels : status[cur][k] = "built"
           \/ \E k \in Installed(cur) : file[k] \notin {job.rev, None}
           \/ file[job.target] = None
        /\ Abort /\ UNCHANGED <<stamp, faults>>
     \/ Fails /\ Goto("idle") /\ UNCHANGED stamp
  /\ UNCHANGED <<host, head, script, changes>>

Killed ==
  /\ pc # "idle" /\ Goto("idle") /\ Fails
  /\ UNCHANGED <<host, head, stamp, script, changes>>

-----------------------------------------------------------------------------
(* The host around it.                                                     *)

Push ==
  /\ pc = "idle" /\ head + 1 \in Revs /\ head' = head + 1
  /\ UNCHANGED <<host, stamp, pc, script, clean, faults, changes>>

\* A kernel package is installed; AUTOINSTALL may build a registered version.
KernelArrives(k) ==
  /\ changes < MaxChanges /\ changes' = changes + 1
  /\ kern[k] \in {"absent", "leftover"}
  /\ \E kind \in {"bare", "devel"} :
       /\ kern' = [kern EXCEPT ![k] = kind]
       /\ \/ UNCHANGED <<status, file>>
          \/ kind = "devel" /\ \E v \in added : /\ src[v] # None
                               /\ status' = [status EXCEPT ![v][k] = "installed"]
                               /\ file' = [file EXCEPT ![k] = src[v]]
  /\ UNCHANGED <<src, added, head, stamp, pc, script, clean, faults>>

\* A kernel package is removed, between runs; DKMS is not told, and a module
\* file the package does not own keeps the directory.
KernelLeaves(k) ==
  /\ pc = "idle" /\ changes < MaxChanges /\ changes' = changes + 1
  /\ k \in Bootable /\ Bootable # {k}
  /\ kern' = [kern EXCEPT ![k] = IF file[k] = None THEN "absent" ELSE "leftover"]
  /\ checked' = checked \ {k} /\ unconv' = unconv \ {k} /\ keep' = keep \ {k}
  /\ UNCHANGED <<src, added, status, file, head, stamp, pc, job, todo, clean, faults>>

DevelArrives(k) ==
  /\ kern[k] = "bare" /\ kern' = [kern EXCEPT ![k] = "devel"]
  /\ UNCHANGED <<src, added, status, file, head, stamp, pc, script, clean, faults, changes>>

Helper ==
  \/ StageClear \/ StageMove \/ RemoveCurrent \/ Add \/ Check
  \/ \E k \in Kernels : BuildInstall(k)
  \/ PruneVersions \/ PruneSources \/ PruneAbsent \/ PruneFiles \/ Verify
  \/ Finish \/ WriteStamp

\* The deployment every successful CI run starts.
Automatic ==
  \E p \in Plans, t \in Kernels : p.ci /\ p.all /\ p.prune /\ Start(p, t)

Next ==
  \/ \E p \in Plans, t \in Kernels : Start(p, t)
  \/ Helper \/ Killed \/ Push
  \/ \E k \in Kernels : KernelArrives(k) \/ KernelLeaves(k) \/ DevelArrives(k)

Spec == Init /\ [][Next]_vars
Fairness == WF_vars(Helper) /\ SF_vars(Automatic)
FairSpec == Spec /\ Fairness

-----------------------------------------------------------------------------
DeployTypeOK ==
  /\ kern \in [Kernels -> {"absent", "leftover", "bare", "devel"}]
  /\ src \in [Versions -> Revs \cup {None}] /\ added \subseteq Versions
  /\ status \in [Versions -> [Kernels -> {"absent", "built", "installed"}]]
  /\ file \in [Kernels -> Revs \cup {None}]
  /\ \A k \in Kernels : kern[k] = "absent" => file[k] = None
  /\ head \in Revs /\ stamp \in 0 .. head /\ job.rev \in Revs
  /\ unconv \subseteq checked /\ todo \cup checked \cup keep \subseteq Kernels

\* A run never takes the driver another version left on a kernel unless DKMS
\* reports the new one installed there: a failed build, a kill or a missing
\* build tree leaves the fallback kernels what they had.
OldDriverKept ==
  \A k \in keep : file[k] = None => k \in Installed(cur)

\* A host that carries the stamp of the checkout, which the next deployment
\* skips, has that revision's module on every kernel that was checked.
StampIsTrue ==
  pc = "idle" /\ stamp = head => \A k \in checked : file[k] = head

\* A full run that exits 0 with no command failed leaves one source tree, and of
\* every other version no build, no module and no registration; but a version
\* that was registered and never built stays registered, because the prune does
\* not read its name (deploy_dkms_install.sh:186).  Lines 42-43 and 236 of the
\* script promise one version without this exception.
OneVersionLeft ==
  pc = "idle" /\ clean /\ job.all /\ job.prune /\ ~job.dry =>
    /\ cur \in added /\ {v \in Versions : src[v] # None} = {cur}
    /\ \A v \in Versions \ {cur} :
         \/ v \notin added /\ \A k \in Kernels : status[v][k] = "absent"
         \/ OnlyAdded(v)
    /\ \A k \in Kernels : file[k] \in {job.rev, None}

\* Whatever a killed or failed run left behind, once every kernel has its build
\* tree the next automatic runs bring the host to the checkout's revision.
RetryConverges ==
  <>[](\A k \in Kernels : kern[k] # "bare") => <>[](stamp = head)
=============================================================================
