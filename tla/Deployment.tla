----------------------------- MODULE Deployment -----------------------------
(***************************************************************************)
(* The key script, the router it deploys to, and the requests that the     *)
(* daemon there makes with the key within one day: KeyScript and           *)
(* Supervisor, with the script's last step, which sets and commits the     *)
(* option and restarts the daemon over an ssh connection that may break.   *)
(***************************************************************************)
EXTENDS Supervisor, KeyScript

VARIABLE billed  \* requests that the provider has answered today

deploymentVars == <<supervisorVars, scriptVars, billed>>

DeploymentInit == SupervisorInit /\ ScriptInit /\ billed = 0

-----------------------------------------------------------------------------
(* Step 7: uci set; uci commit; restart. One that fails does not stop the next. *)

SetKey ==
    /\ at = "deploy"
    /\ staged' \in {staged, [staged EXCEPT !.google_key = key]}
    /\ waived' = (waived \/ q = 0)
    /\ Goto("commit")
    /\ UNCHANGED <<key, committed, pending, instance, faults, cloud, billed>>

CommitKey ==
    /\ at = "commit"
    /\ committed' \in {committed, staged}
    /\ pending' = (pending \/ committed' # committed)
    /\ Goto("restart")
    /\ UNCHANGED <<key, staged, instance, faults, cloud, waived, billed>>

RestartDaemon ==
    /\ at = "restart"
    /\ Start /\ pending' = FALSE /\ End
    /\ UNCHANGED <<staged, committed, faults, cloud, waived, billed>>

-----------------------------------------------------------------------------

\* A request counts if the key works, and is refused once the cap is reached.
\* Requests above Cap are counted once.
Works == config.WifiProvider = "google" /\ config.GoogleKey \in keys /\ ready

Request ==
    \/ UNCHANGED billed
    \/ Works /\ billed < cap /\ billed <= Cap /\ billed' = billed + 1

Polls ==
    /\ FirstPoll \/ PollAgain
    /\ Request
    /\ UNCHANGED scriptVars

StartsUp ==
    /\ Respawn \/ Load
    /\ UNCHANGED <<scriptVars, billed>>

Disturbed ==
    /\ Edit \/ Commit \/ Reload \/ LoadFails \/ Crash
    /\ UNCHANGED <<scriptVars, billed>>

ScriptRuns == ScriptNext /\ UNCHANGED <<supervisorVars, billed>>

DeploymentNext ==
    SetKey \/ CommitKey \/ RestartDaemon \/ Polls \/ StartsUp \/ Disturbed \/ ScriptRuns

DeploymentSpec == DeploymentInit /\ [][DeploymentNext]_deploymentVars

\* procd and the daemon run; nothing is assumed of the operator and the script.
LiveSpec ==
    /\ DeploymentSpec
    /\ WF_deploymentVars(StartsUp) /\ WF_deploymentVars(Polls)

-----------------------------------------------------------------------------

\* Whatever fails and however often the script is run again, a key that gets to
\* the router is restricted to the one API, and the requests that the daemon makes
\* with it, crash loops included, stay below the cap, unless a run with -q 0
\* brought one there (script:11-12, "so a restart loop can never leave the free
\* tier").
Guarded ==
    /\ staged.google_key # "" => staged.google_key \in restricted
    /\ waived \/ billed <= Cap

\* "Idempotent: safe to re-run", the key is "reused if a key with the same display
\* name exists" (script:4 and 9-10). A listing that fails looks like an empty one,
\* and a second key is made.
OneKey == Cardinality(keys) <= 1

\* Once procd has been told of what was committed, the daemon runs on that, unless
\* it loaded something else than procd had hashed: what was not committed yet, or
\* committed but not yet told. A daemon whose `uci show' failed does not run.
UpToDate ==
    proc \in {"poll", "serve"} =>
      pending \/ astray \/ config = ParseUciShow(committed)

\* A configuration that is good is enough: however many times the daemon has exited
\* for want of one, it is started again and serves (geolocd.init:12-15).
Good(file) == HasSource(ParseUciShow(file)) /\ ParseUciShow(file).WifiInterval > 0

KeepsTrying == <>[]Good(staged) => []<>(proc = "serve")

=============================================================================
