-------------------------- MODULE DeploymentProofs --------------------------
(***************************************************************************)
(* Proofs about Deployment: the key that gets to the router is restricted  *)
(* and its requests are capped, and the daemon runs on what was committed. *)
(***************************************************************************)
EXTENDS Deployment, TLAPS

-----------------------------------------------------------------------------
(* What the daemon runs on. *)

ProcStates == {"load", "poll", "serve", "wait", "given up"}

RunsInv ==
    /\ proc \in {"poll", "serve"} => HasSource(config)
    /\ proc \in {"poll", "serve"} => astray \/ config = ParseUciShow(hashed)
    /\ pending \/ hashed = committed

\* A daemon whose `uci show' failed has no key and exits.
LEMMA NoDefaultSource == ~HasSource(Defaults)
  BY DEF HasSource, ProvKey, Defaults

LEMMA ExitStops ==
    ASSUME NEW long, Exit(long) PROVE proc' \notin {"poll", "serve"}
  BY DEF Exit

LEMMA RunsStep == RunsInv /\ [DeploymentNext]_deploymentVars => RunsInv'
<1> SUFFICES ASSUME RunsInv, [DeploymentNext]_deploymentVars PROVE RunsInv'
  OBVIOUS
<1>1. CASE UNCHANGED <<uci, instance>>
  BY <1>1 DEF RunsInv, uci, instance
<1>2. CASE Configured(ParseUciShow(staged))
  <2>1. CASE HasSource(ParseUciShow(staged))
    BY <1>2, <2>1 DEF Configured, RunsInv, uci
  <2>2. CASE ~HasSource(ParseUciShow(staged))
    BY <1>2, <2>2, ExitStops DEF Configured, RunsInv, uci
  <2> QED
    BY <2>1, <2>2
<1>3. CASE Configured(Defaults)
  BY <1>3, ExitStops, NoDefaultSource DEF Configured, RunsInv, uci
<1>4. CASE FirstPoll
  <2>1. UNCHANGED <<uci, hashed, config, astray>> /\ proc = "poll"
    BY <1>4 DEF FirstPoll
  <2> QED
    BY <2>1 DEF RunsInv, uci
<1>5. CASE Crash
  <2>1. proc' \notin {"poll", "serve"}
    BY <1>5, ExitStops DEF Crash
  <2> QED
    BY <1>5, <2>1 DEF Crash, RunsInv, uci
<1>6. CASE Respawn
  BY <1>6 DEF Respawn, RunsInv, uci
<1>7. CASE Start /\ UNCHANGED committed
  BY <1>7 DEF Start, RunsInv
<1>8. CASE Reload /\ ~Changed
  BY <1>8 DEF Reload, Changed, FileParam, RunsInv, instance
<1>9. CASE UNCHANGED instance /\ (pending' \/ ((pending => pending') /\ UNCHANGED committed))
  BY <1>9 DEF RunsInv, instance
<1> QED
  <2>1. CASE SetKey
    BY <2>1, <1>9 DEF SetKey
  <2>2. CASE CommitKey
    BY <2>2, <1>9 DEF CommitKey
  <2>3. CASE RestartDaemon
    BY <2>3, <1>7 DEF RestartDaemon
  <2>4. CASE Polls
    BY <2>4, <1>1, <1>4 DEF Polls, PollAgain, supervisorVars
  <2>5. CASE StartsUp
    BY <2>5, <1>2, <1>6 DEF StartsUp, Load
  <2>6. CASE Disturbed
    <3>1. CASE Edit
      BY <3>1, <1>9 DEF Edit
    <3>2. CASE Commit
      BY <3>2, <1>9 DEF Commit
    <3>3. CASE Reload
      BY <3>3, <1>7, <1>8 DEF Reload
    <3>4. CASE LoadFails
      BY <3>4, <1>3 DEF LoadFails
    <3> QED
      BY <2>6, <1>5, <3>1, <3>2, <3>3, <3>4 DEF Disturbed
  <2>7. CASE ScriptRuns
    BY <2>7, <1>1 DEF ScriptRuns, supervisorVars
  <2>8. CASE UNCHANGED deploymentVars
    BY <2>8, <1>1 DEF deploymentVars, supervisorVars
  <2> QED
    BY <2>1, <2>2, <2>3, <2>4, <2>5, <2>6, <2>7, <2>8 DEF DeploymentNext

\* Once procd has been told, the daemon runs on what was committed, unless it loaded
\* another file than procd had hashed (geolocd.init:17-20).
THEOREM RunsOnCommitted == DeploymentSpec => []UpToDate
<1>1. DeploymentInit => RunsInv
  BY DEF DeploymentInit, SupervisorInit, RunsInv
<1>2. RunsInv => UpToDate
  BY DEF RunsInv, UpToDate
<1> QED
  BY <1>1, <1>2, RunsStep, PTL DEF DeploymentSpec

-----------------------------------------------------------------------------
(* The key on the router. *)

AfterKey == {"cap", "wait", "deploy", "commit", "restart"}

\* Before the key is on the router: what the script holds is restricted, and its
\* cap is in force unless it was waived with -q 0.
ScriptInv ==
    /\ q \in {0, Cap} /\ wanted \in {0, Cap} /\ cap \in Nat
    /\ at \in AfterKey /\ ~dry => key \in restricted
    /\ at \in AfterKey \ {"cap"} => ~dry
    /\ at = "deploy" /\ q # 0 => cap <= Cap

\* A file keeps its options, and its key is none or a restricted one.
FileInv ==
    /\ "google_key" \in DOMAIN staged
    /\ staged.google_key # "" => staged.google_key \in restricted

\* Requests are made with a key that came with a cap.
BilledInv ==
    /\ billed \in Nat
    /\ waived \/ billed <= Cap
    /\ waived \/ cap <= Cap \/ (staged.google_key = "" /\ config.GoogleKey = "")

GuardInv == ScriptInv /\ FileInv /\ BilledInv

\* Loading takes the key as it is staged, or none.
LEMMA LoadedKey ==
    /\ ParseUciShow(staged).GoogleKey = staged.google_key
    /\ Defaults.GoogleKey = ""
  BY DEF ParseUciShow, Defaults

LEMMA GuardInit == DeploymentInit => GuardInv
<1> SUFFICES ASSUME DeploymentInit PROVE GuardInv
  OBVIOUS
<1>1. ScriptInv
  BY KeyScriptAssumption DEF DeploymentInit, ScriptInit, ScriptInv, AfterKey
<1>2. FileInv
  BY DEF DeploymentInit, SupervisorInit, FileInv, Empty
<1>3. BilledInv
  <2>1. staged.google_key = "" /\ config.GoogleKey = ""
    BY LoadedKey DEF DeploymentInit, SupervisorInit, Empty
  <2>2. billed \in Nat /\ billed <= Cap
    BY KeyScriptAssumption DEF DeploymentInit
  <2> QED
    BY <2>1, <2>2, Zenon DEF BilledInv
<1> QED
  BY <1>1, <1>2, <1>3 DEF GuardInv

\* The script's own steps, away from the router.
LEMMA ScriptStep ==
    ASSUME GuardInv, ScriptNext PROVE ScriptInv' /\ restricted \subseteq restricted' /\ UNCHANGED waived
                                      /\ (cap <= Cap => cap' <= Cap)
<1> USE KeyScriptAssumption DEF GuardInv, ScriptInv, AfterKey
<1>1. CASE Begin
  BY <1>1 DEF Begin, cloud
<1>2. CASE Fails
  BY <1>2 DEF Fails, End, cloud
<1>3. CASE Setup
  BY <1>3 DEF Setup, Goto
<1>4. CASE ReuseKey
  BY <1>4 DEF ReuseKey, Goto, run
<1>5. CASE CreateKey
  BY <1>5 DEF CreateKey, Goto, run
<1>6. CASE SkipCap
  BY <1>6 DEF SkipCap, Goto, cloud
<1>7. CASE DryEnd
  BY <1>7 DEF DryEnd, End, cloud
<1>8. CASE PatchCap
  BY <1>8 DEF PatchCap, Goto
<1>9. CASE CapGranted
  BY <1>9 DEF CapGranted, Settled, Goto, cloud
<1>10. CASE Reconcile
  BY <1>10 DEF Reconcile, script
<1> QED
  BY <1>1, <1>2, <1>3, <1>4, <1>5, <1>6, <1>7, <1>8, <1>9, <1>10 DEF ScriptNext

\* A step that neither runs the script nor polls: at most another key is loaded, or
\* an option other than the key is set.
LEMMA ElsewhereStep ==
    ASSUME GuardInv, UNCHANGED <<scriptVars, billed>>,
           "google_key" \in DOMAIN staged' /\ staged'.google_key = staged.google_key,
           config'.GoogleKey \in {"", staged.google_key, config.GoogleKey}
    PROVE  GuardInv'
<1>1. UNCHANGED <<at, dry, q, key, restricted, cap, wanted, waived>>
  BY DEF scriptVars, script, cloud
<1> QED
  BY <1>1 DEF GuardInv, ScriptInv, FileInv, BilledInv

LEMMA GuardStep == GuardInv /\ RunsInv /\ [DeploymentNext]_deploymentVars => GuardInv'
<1> SUFFICES ASSUME GuardInv, RunsInv, [DeploymentNext]_deploymentVars PROVE GuardInv'
  OBVIOUS
<1>1. CASE SetKey
  <2>1. /\ at = "deploy" /\ ~dry /\ key \in restricted
        /\ q # 0 => cap <= Cap
    BY <1>1 DEF SetKey, GuardInv, ScriptInv, AfterKey
  <2>2. ScriptInv'
    BY <1>1, <2>1 DEF SetKey, Goto, cloud, GuardInv, ScriptInv, AfterKey
  <2>3. FileInv'
    BY <1>1, <2>1 DEF SetKey, cloud, GuardInv, FileInv
  <2>4. BilledInv'
    BY <1>1, <2>1 DEF SetKey, cloud, instance, GuardInv, BilledInv
  <2> QED
    BY <2>2, <2>3, <2>4 DEF GuardInv
<1>2. CASE CommitKey
  BY <1>2 DEF CommitKey, Goto, cloud, instance, GuardInv, ScriptInv, FileInv,
     BilledInv, AfterKey
<1>3. CASE RestartDaemon
  BY <1>3 DEF RestartDaemon, Start, End, cloud, GuardInv, ScriptInv, FileInv,
     BilledInv, AfterKey
<1>4. CASE Polls
  <2>1. UNCHANGED <<scriptVars, staged, config>> /\ Request
    BY <1>4 DEF Polls, FirstPoll, PollAgain, supervisorVars, uci, instance
  <2>2. CASE UNCHANGED billed
    BY <2>1, <2>2, ElsewhereStep DEF GuardInv, FileInv
  <2>3. CASE Works /\ billed < cap /\ billed' = billed + 1
    <3>1. config.GoogleKey # ""
      BY <1>4, <2>3 DEF RunsInv, Polls, FirstPoll, PollAgain, Works, HasSource, ProvKey
    <3>2. UNCHANGED <<at, dry, q, key, restricted, cap, wanted, waived>>
      BY <2>1 DEF scriptVars, script, cloud
    <3>3. BilledInv'
      <4>1. waived \/ cap <= Cap
        BY <3>1 DEF GuardInv, BilledInv
      <4>2. billed \in Nat /\ cap \in Nat
        BY DEF GuardInv, ScriptInv, BilledInv
      <4>3. billed' \in Nat /\ (cap <= Cap => billed' <= Cap)
        BY <2>3, <4>2, KeyScriptAssumption
      <4> QED
        BY <2>1, <3>2, <4>1, <4>2, <4>3, Zenon DEF GuardInv, BilledInv
    <3> QED
      BY <2>1, <3>2, <3>3 DEF GuardInv, ScriptInv, FileInv
  <2> QED
    BY <2>1, <2>2, <2>3 DEF Request
<1>5. CASE StartsUp \/ Disturbed
  <2>1. UNCHANGED <<scriptVars, billed>>
    BY <1>5 DEF StartsUp, Disturbed
  <2>2. CASE Edit
    <3>1. PICK e \in Edits : staged' = [staged EXCEPT ![e[1]] = e[2]]
      BY <2>2 DEF Edit
    <3>2. e[1] # "google_key"
      BY SupervisorAssumption
    <3>3. "google_key" \in DOMAIN staged' /\ staged'.google_key = staged.google_key
      BY <3>1, <3>2 DEF GuardInv, FileInv
    <3> QED
      BY <2>1, <2>2, <3>3, ElsewhereStep DEF Edit, instance
  <2>3. CASE Respawn \/ Load \/ LoadFails \/ Commit \/ Reload \/ Crash
    <3>1. UNCHANGED staged
      BY <2>3 DEF Respawn, Load, LoadFails, Configured, Commit, Reload, Crash, uci
    <3>2. config'.GoogleKey \in {"", staged.google_key, config.GoogleKey}
      BY <2>3, LoadedKey
         DEF Respawn, Load, LoadFails, Configured, Commit, Reload, Start, Crash, instance
    <3> QED
      BY <2>1, <3>1, <3>2, ElsewhereStep DEF GuardInv, FileInv
  <2> QED
    BY <1>5, <2>2, <2>3 DEF StartsUp, Disturbed
<1>6. CASE ScriptRuns
  <2>1. UNCHANGED <<staged, config, billed>> /\ ScriptNext
    BY <1>6 DEF ScriptRuns, supervisorVars, uci, instance
  <2>2. ScriptInv' /\ restricted \subseteq restricted' /\ UNCHANGED waived
        /\ (cap <= Cap => cap' <= Cap)
    BY <2>1, ScriptStep
  <2> QED
    BY <2>1, <2>2 DEF GuardInv, FileInv, BilledInv
<1>7. CASE UNCHANGED deploymentVars
  BY <1>7, ElsewhereStep
     DEF deploymentVars, supervisorVars, uci, instance, GuardInv, FileInv
<1> QED
  BY <1>1, <1>2, <1>3, <1>4, <1>5, <1>6, <1>7 DEF DeploymentNext

\* A key on the router is restricted, and its requests stay below the cap unless a
\* run with -q 0 brought one there (gcloud-geolocation-key.sh:116-166).
THEOREM KeyIsGuarded == DeploymentSpec => []Guarded
<1>1. DeploymentInit => RunsInv
  BY DEF DeploymentInit, SupervisorInit, RunsInv
<1>2. GuardInv => Guarded
  BY DEF GuardInv, FileInv, BilledInv, Guarded
<1> QED
  BY <1>1, <1>2, GuardInit, GuardStep, RunsStep, PTL DEF DeploymentSpec

=============================================================================
