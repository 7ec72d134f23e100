---------------------------- MODULE CodexRuntime ----------------------------
(***************************************************************************)
(* enable, repair, disable and reconcile_after_release of the Codex        *)
(* companion (bridge_cli/codex_runtime.py).  Every release pins the Codex  *)
(* version its command line knows, so there is one runtime directory; what *)
(* is installed in it is known by the digest of the lock files.            *)
(***************************************************************************)
EXTENDS Host

CONSTANT Digest   \* release -> the digest of its runtime lock

ASSUME DigestAssumption == Digest \in [Releases -> Nat \ {0}]

\* A step that changes the companion only.
Changes(p, from, to, c) ==
  /\ At(p, from)
  /\ codex' = c
  /\ Goto(p, to)
  /\ UNCHANGED <<disk, up, lock, counts, torn>>

BeginEnable(p) ==
  /\ disk.link # None
  /\ BeginLocked(p, "enable",
       [Resting EXCEPT !.at = "stage.aside", !.ret = "return", !.target = disk.link])

BeginRepair(p) ==
  /\ disk.link # None
  /\ BeginLocked(p, "repair",
       [Resting EXCEPT !.at = "stage.aside", !.ret = "return", !.target = disk.link])

BeginDisable(p) == BeginLocked(p, "disable", [Resting EXCEPT !.at = "disable"])

Disable(p) ==
  Changes(p, "disable", "return",
          [codex EXCEPT !.running = 0, !.desired = FALSE, !.state = "complete"])

-----------------------------------------------------------------------------
\* reconcile_after_release: nothing to do for a companion that is disabled or
\* that already runs what the lock of the release asks for; otherwise repair.
Healthy(r) ==
  codex.runtime # 0 /\ codex.running # 0 /\ codex.digest = Digest[r] /\ codex.unit

ReconcileKeeps(p) ==
  /\ At(p, "codex.read")
  /\ codex.desired => Healthy(proc[p].target)
  /\ Looks(p, "codex.read", proc[p].ret)

ReconcileRepairs(p) ==
  /\ At(p, "codex.read")
  /\ codex.desired
  /\ ~Healthy(proc[p].target)
  /\ Looks(p, "codex.read", "stage.aside")

\* The lock of the release cannot be loaded: failed_preserved.
ReconcileRaises(p) == Looks(p, "codex.read", proc[p].ret)

-----------------------------------------------------------------------------
\* _stage_locked_runtime_and_unit.  The runtime in place is renamed aside ...
StageAside(p) ==
  /\ At(p, "stage.aside")
  /\ codex' = [codex EXCEPT !.runtime = 0]
  /\ proc' = [proc EXCEPT ![p].at = "stage.install", ![p].codex = codex]
  /\ UNCHANGED <<disk, up, lock, counts, torn>>

\* ... and what npm installed is renamed to its place, and linked.
StageInstall(p) ==
  Changes(p, "stage.install", "stage.prepare",
          [codex EXCEPT !.runtime = Digest[proc[p].target], !.link = TRUE])

StageInstallFails(p) ==
  Changes(p, "stage.install", "fail", [codex EXCEPT !.runtime = proc[p].codex.runtime])

\* _prepare_identity_and_state, the unit file and the daemon-reload.
StagePrepare(p) ==
  /\ At(p, "stage.prepare")
  /\ codex' = [codex EXCEPT !.unit = TRUE]
  /\ Goto(p, IF proc[p].op = "enable" THEN "enable.start" ELSE "repair.restart")
  /\ UNCHANGED <<disk, up, lock, counts, torn>>

\* _rollback_stage: the runtime, its link and the unit as they were.
PutBack(p) ==
  [codex EXCEPT !.runtime = proc[p].codex.runtime,
                !.link = proc[p].codex.link,
                !.unit = proc[p].codex.unit]

StagePrepareFails(p) == Changes(p, "stage.prepare", "fail", PutBack(p))

\* A failure before anything was staged: npm ci, the lock, the host runtime.
StageRaises(p) == Looks(p, "stage.aside", "fail")

\* systemctl enable --now starts a companion that does not run, and leaves
\* one that runs as it is.
EnableStart(p) ==
  Changes(p, "enable.start", "enable.refresh",
          [codex EXCEPT !.running = IF @ = 0 THEN codex.runtime ELSE @])

\* The Bridge is restarted for its membership of the socket group.
EnableRefresh(p) == Runs(p, "enable.refresh", "enable.ready", Starting)

EnableReady(p) == up # None /\ Looks(p, "enable.ready", "enable.status")

\* Mutant: the status keeps the digest of the runtime before.
EnableStatusOld(p) ==
  Changes(p, "enable.status", "return", [codex EXCEPT !.state = "complete", !.desired = TRUE])

EnableStatus(p) ==
  Changes(p, "enable.status", "return",
          [codex EXCEPT !.state = "complete", !.desired = TRUE, !.digest = Digest[proc[p].target]])

EnableRaises(p) ==
  \E label \in {"enable.start", "enable.refresh", "enable.ready", "enable.status"} :
    Looks(p, label, "enable.off")

\* The except clause of enable: stop the companion, then put the stage back.
EnableOff(p) == Changes(p, "enable.off", "enable.back", [codex EXCEPT !.running = 0])
EnableBack(p) == Changes(p, "enable.back", "enable.fail", PutBack(p))

EnableFail(p) ==
  Changes(p, "enable.fail", "return", [codex EXCEPT !.state = "failed", !.desired = FALSE])

RepairRestart(p) ==
  Changes(p, "repair.restart", "repair.status",
          [codex EXCEPT !.running = IF codex.desired THEN codex.runtime ELSE @])

RepairStatus(p) ==
  Changes(p, "repair.status", proc[p].ret,
          [codex EXCEPT !.state = "complete", !.digest = Digest[proc[p].target]])

RepairRaises(p) ==
  \E label \in {"repair.restart", "repair.status"} : Looks(p, label, "repair.back")

\* The except clause of repair: put the stage back, and restart from it.
RepairBack(p) ==
  Changes(p, "repair.back", "repair.again", PutBack(p))

RepairAgain(p) ==
  \E running \in {0, codex.runtime} :
    Changes(p, "repair.again", "repair.fail",
            [codex EXCEPT !.running = IF codex.desired THEN running ELSE @])

RepairFail(p) == Changes(p, "repair.fail", proc[p].ret, [codex EXCEPT !.state = "failed"])

\* Nothing was staged.  A failed enable still disables the companion.
StageFail(p) ==
  \/ /\ proc[p].op = "enable"
     /\ Looks(p, "fail", IF codex.unit THEN "fail.off" ELSE "enable.fail")
  \/ /\ proc[p].op # "enable"
     /\ Changes(p, "fail", proc[p].ret, [codex EXCEPT !.state = "failed"])

FailOff(p) == Changes(p, "fail.off", "enable.fail", [codex EXCEPT !.running = 0])

\* The handlers raise: a repair of a release operation is caught there.
CodexRaises(p) ==
  \E label \in {"disable", "enable.off", "enable.back", "enable.fail", "repair.back", "repair.fail"} :
    /\ At(p, label)
    /\ torn' = TRUE
    /\ IF proc[p].op \in {"enable", "repair", "disable"}
       THEN Leave(p)
       ELSE Goto(p, proc[p].ret) /\ UNCHANGED lock
    /\ UNCHANGED <<disk, codex, up, counts>>

-----------------------------------------------------------------------------
CodexBegins(p) == BeginEnable(p) \/ BeginRepair(p) \/ BeginDisable(p)

CodexStep(p) ==
  \/ Disable(p) \/ ReconcileKeeps(p) \/ ReconcileRepairs(p) \/ ReconcileRaises(p)
  \/ StageAside(p) \/ StageInstall(p) \/ StageInstallFails(p) \/ StagePrepare(p)
  \/ StagePrepareFails(p) \/ StageRaises(p) \/ StageFail(p) \/ FailOff(p)
  \/ EnableStart(p) \/ EnableRefresh(p) \/ EnableReady(p) \/ EnableStatus(p)
  \/ EnableRaises(p) \/ EnableOff(p) \/ EnableBack(p) \/ EnableFail(p)
  \/ RepairRestart(p) \/ RepairStatus(p) \/ RepairRaises(p) \/ RepairBack(p)
  \/ RepairAgain(p) \/ RepairFail(p) \/ CodexRaises(p)
=============================================================================
