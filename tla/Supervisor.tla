----------------------------- MODULE Supervisor -----------------------------
(***************************************************************************)
(* geolocd as procd runs it: the init script's parameters, uci's staged    *)
(* and committed configuration, reloads, and a daemon that exits when it   *)
(* has no source, panics in time.NewTicker, or dies of something else, and *)
(* is started again.                                                       *)
(***************************************************************************)
EXTENDS UciConf

CONSTANTS
    Edits,      \* the <<option, value>> an operator may set
    MaxFaults   \* bound: failing loads and crashes

ASSUME SupervisorAssumption ==
    /\ \A e \in Edits : e[1] \in {"wifi_enable", "wifi_provider", "wifi_interval"}
    /\ MaxFaults \in Nat

VARIABLES
    staged,     \* what `uci show' prints: committed, and `uci set' since
    committed,  \* /etc/config/geolocd
    pending,    \* it was committed and procd has not been told yet
    proc,       \* "load", "poll" (the first), "serve", "wait" (respawn timer) or
                \* "given up"
    hashed,     \* the file as procd hashed it into the instance
    config,     \* the daemon's Config
    count,      \* procd's respawn count, up to Retry + 1
    faults,
    astray      \* history: the daemon loaded another file than procd had hashed

uci == <<staged, committed, pending>>
instance == <<proc, hashed, config, count, astray>>
supervisorVars == <<uci, instance, faults>>

\* procd_set_param respawn 3600 5 0. Mutant: the defaults of a bare respawn.
BareRespawn == 5
Retry == 0

\* procd_set_param file: what of the file is part of the instance. Mutant: the
\* parameter is missing.
NoFileParam(file) == "command"
FileParam(file) == file

Empty == [key |-> "", google_key |-> "", wifi_enable |-> "1", wifi_provider |-> "google",
          wifi_interval |-> DefaultSeconds]

SupervisorInit ==
    /\ staged = Empty /\ committed = Empty /\ pending = FALSE
    /\ proc = "load" /\ hashed = Empty /\ config = Defaults
    /\ count = 0 /\ faults = 0 /\ astray = FALSE

-----------------------------------------------------------------------------
(* The operator and procd. *)

Edit ==
    /\ \E e \in Edits : staged' = [staged EXCEPT ![e[1]] = e[2]]
    /\ UNCHANGED <<committed, pending, instance, faults>>

Commit ==
    /\ staged # committed
    /\ committed' = staged /\ pending' = TRUE
    /\ UNCHANGED <<staged, instance, faults>>

\* start_service for a new instance.
Start ==
    /\ proc' = "load" /\ hashed' = committed /\ count' = 0
    /\ UNCHANGED <<config, astray>>

\* reload_config. procd restarts an instance that has changed, and starts one that
\* it no longer respawns.
Changed == proc = "given up" \/ FileParam(hashed) # FileParam(committed)

Reload ==
    /\ pending /\ pending' = FALSE
    /\ IF Changed THEN Start ELSE UNCHANGED instance
    /\ UNCHANGED <<staged, committed, faults>>

Respawn ==
    /\ proc = "wait" /\ proc' = "load"
    /\ UNCHANGED <<uci, hashed, config, count, faults, astray>>

\* procd sees the process exit, after its threshold (long) or before. It is counted
\* up to the first one too many.
Exit(long) ==
    /\ count' = IF long THEN 0 ELSE IF count > Retry THEN count ELSE count + 1
    /\ proc' = IF Retry # 0 /\ count' > Retry THEN "given up" ELSE "wait"

-----------------------------------------------------------------------------
(* geolocd: run. *)

Configured(cfg) ==
    /\ proc = "load"
    /\ config' = cfg /\ astray' = (staged # hashed)
    /\ IF HasSource(cfg) THEN proc' = "poll" /\ UNCHANGED count ELSE Exit(FALSE)
    /\ UNCHANGED <<uci, hashed>>

Load == Configured(ParseUciShow(staged)) /\ UNCHANGED faults

LoadFails ==
    /\ faults < MaxFaults /\ faults' = faults + 1
    /\ Configured(Defaults)

\* pollLoop polls, and then creates a ticker, which panics unless the interval is
\* positive.
FirstPoll ==
    /\ proc = "poll"
    /\ IF config.WifiInterval > 0 THEN proc' = "serve" /\ UNCHANGED count ELSE Exit(FALSE)
    /\ UNCHANGED <<uci, hashed, config, faults, astray>>

PollAgain == proc = "serve" /\ UNCHANGED supervisorVars

\* Listen or Accept fails, or the process is killed.
Crash ==
    /\ proc \in {"poll", "serve"}
    /\ faults < MaxFaults /\ faults' = faults + 1
    /\ \E long \in BOOLEAN : Exit(long)
    /\ UNCHANGED <<uci, hashed, config, astray>>
=============================================================================
