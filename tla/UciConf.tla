------------------------------ MODULE UciConf -------------------------------
(***************************************************************************)
(* What geolocd makes of /etc/config/geolocd, and whether it has a source  *)
(* of positions then. A file is what `uci show' prints of the options that *)
(* decide that; "" is an option without a value or without a line. A text  *)
(* that is not a positive number is 0. The options for the listener, the   *)
(* modem, the interfaces and the endpoint are overlaid as wifi_provider,   *)
(* and wifi_min_aps as wifi_interval is.                                   *)
(***************************************************************************)
EXTENDS Integers

CONSTANTS
    Second,          \* nanoseconds in a second, scaled
    Int64,           \* half of the numbers a time.Duration has, scaled
    DefaultSeconds   \* of wifi_interval, scaled

ASSUME UciConfAssumption ==
    /\ Second \in Nat \ {0} /\ Int64 \in Nat \ {0}
    /\ DefaultSeconds \in Nat \ {0} /\ DefaultSeconds * Second < Int64

\* Signed multiplication wraps around.
Wrap(x) == ((x + Int64) % (2 * Int64)) - Int64

Duration(n) == Wrap(n * Second)

Defaults ==
    [Key |-> "", GoogleKey |-> "", WifiEnable |-> TRUE, WifiProvider |-> "google",
     WifiInterval |-> Duration(DefaultSeconds)]

ParseUciShow(file) ==
    [Key |-> file.key, GoogleKey |-> file.google_key,
     WifiEnable |-> CASE file.wifi_enable = "1" -> TRUE
                      [] file.wifi_enable = "0" -> FALSE
                      [] OTHER -> Defaults.WifiEnable,
     WifiProvider |-> IF file.wifi_provider = "" THEN Defaults.WifiProvider
                                                 ELSE file.wifi_provider,
     WifiInterval |-> IF file.wifi_interval > 0 THEN Duration(file.wifi_interval)
                                                ELSE Defaults.WifiInterval]

\* run: errNoSource unless wifi is enabled and the provider, a known one, has a key.
ProvKey(cfg) ==
    CASE cfg.WifiProvider = "google" -> cfg.GoogleKey
      [] cfg.WifiProvider = "unwiredlabs" -> cfg.Key
      [] OTHER -> ""

HasSource(cfg) == cfg.WifiEnable /\ ProvKey(cfg) # ""
=============================================================================
