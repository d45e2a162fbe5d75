------------------------------ MODULE KeyScript -----------------------------
(***************************************************************************)
(* gcloud-geolocation-key.sh, which makes a Google project, its API key    *)
(* and its daily cap, waits for the cap, and brings the key to the router. *)
(* It runs under set -e, may fail at every step, and is run again. The     *)
(* last steps, on the router, are in Deployment.                           *)
(***************************************************************************)
EXTENDS Integers, FiniteSets, Sequences

CONSTANTS
    Cap,       \* the cap that -q asks for
    Unlimited, \* the cap of a new project
    Names,     \* what the cloud names the keys, in the order of their creation
    MaxRuns    \* bound: runs of the script

ASSUME KeyScriptAssumption ==
    /\ Cap \in Nat \ {0} /\ Unlimited \in Nat /\ Unlimited > Cap
    /\ MaxRuns \in Nat /\ Len(Names) > MaxRuns

VARIABLES
    at,         \* the step the script is at, "ended" if it does not run
    runs,
    dry,        \* -d
    q,          \* -q: Cap, or 0 to leave the cap as it is
    key,        \* the key it found or made, "" before
    ready,      \* cloud: the project exists, with billing and the APIs
    keys,       \* cloud: the keys with the display name
    restricted, \* cloud: those restricted to the Geolocation API
    cap,        \* cloud: the daily cap in force
    wanted,     \* cloud: the cap it is still to apply, 0 if none
    waived      \* history: a run with -q 0 brought its key to the router

script == <<at, runs, dry, q, key>>
cloud == <<ready, keys, restricted, cap, wanted>>
scriptVars == <<script, cloud, waived>>

ScriptInit ==
    /\ at = "ended" /\ runs = 0 /\ dry = FALSE /\ q = 0 /\ key = ""
    /\ \/ ready = FALSE /\ keys = {}
       \/ ready = TRUE /\ keys = {Names[1]}
    /\ restricted = {} /\ cap = Unlimited /\ wanted = 0
    /\ waived = FALSE

Begin ==
    /\ at = "ended" /\ runs < MaxRuns
    /\ at' = "setup" /\ runs' = runs + 1
    /\ dry' \in BOOLEAN /\ q' \in {0, Cap}
    /\ UNCHANGED <<key, cloud, waived>>

Goto(step) == at' = step /\ UNCHANGED <<runs, dry, q>>
End == at' = "ended" /\ dry' = FALSE /\ q' = 0 /\ key' = "" /\ UNCHANGED runs

\* Any command may fail, and set -e ends the script; so does a cap that is not
\* applied, or not within two minutes.
Fails ==
    /\ at # "ended"
    /\ End
    /\ UNCHANGED <<cloud, waived>>

\* run: only reports in a dry run.
run(change, otherwise) == IF dry THEN otherwise ELSE change

\* Steps 2 to 4: the project, its billing, the APIs, each if it is not there.
Setup ==
    /\ at = "setup"
    /\ ready' = run(TRUE, ready)
    /\ Goto("key")
    /\ UNCHANGED <<key, keys, restricted, cap, wanted, waived>>

\* The listing prints the keys in any order; the first is taken.
ReuseKey ==
    /\ at = "key" /\ key' \in keys
    /\ restricted' = run(restricted \cup {key'}, restricted)
    /\ Goto("cap")
    /\ UNCHANGED <<ready, keys, cap, wanted, waived>>

\* There is none, or the listing failed, which looks the same (|| true).
CreateKey ==
    /\ at = "key"
    /\ key' = Names[Cardinality(keys) + 1]
    /\ keys' = run(keys \cup {key'}, keys)
    /\ restricted' = run(restricted \cup {key'}, restricted)
    /\ Goto("cap")
    /\ UNCHANGED <<ready, cap, wanted, waived>>

\* Step 6: the cap is asked for, unless -q 0 or in a dry run, which ends here.
SkipCap ==
    /\ at = "cap" /\ q = 0 /\ ~dry
    /\ Goto("deploy")
    /\ UNCHANGED <<key, cloud, waived>>

DryEnd ==
    /\ at = "cap" /\ dry
    /\ End
    /\ UNCHANGED <<cloud, waived>>

PatchCap ==
    /\ at = "cap" /\ q > 0 /\ ~dry
    /\ wanted' = q
    /\ Goto("wait")
    /\ UNCHANGED <<key, ready, keys, restricted, cap, waived>>

\* Whether the answer lets the script go on. Mutant: it goes on without one after
\* two minutes.
SettledOrTired == wanted = 0 => cap <= q
Settled == wanted = 0 /\ cap <= q

CapGranted ==
    /\ at = "wait" /\ Settled
    /\ Goto("deploy")
    /\ UNCHANGED <<key, cloud, waived>>

\* Cloud Quotas applies what is wanted, or leaves the cap as it was.
Reconcile ==
    /\ wanted # 0 /\ wanted' = 0
    /\ cap' \in {cap, wanted}
    /\ UNCHANGED <<script, ready, keys, restricted, waived>>

ScriptNext ==
    \/ Begin \/ Fails \/ Setup \/ ReuseKey \/ CreateKey
    \/ SkipCap \/ DryEnd \/ PatchCap \/ CapGranted \/ Reconcile
=============================================================================
