----------------------------- MODULE AppConfig -----------------------------
(***************************************************************************)
(* internal/config/config.go: how a process comes by its settings, from    *)
(* config.toml, the environment and the defaults of validate, before main  *)
(* does anything else.  A setting is told by its class: texts that must be *)
(* given, texts with a default or without, ports, limits (timeouts and the *)
(* sizes of the pool) and the switch of the metrics, which also chooses    *)
(* the transaction manager (TxInContext of CreateBooking).                 *)
(***************************************************************************)
EXTENDS Integers

CONSTANTS
    Files,           \* what config.toml may hold, NoFile if it cannot be read
    NoFile,
    Environments,    \* what the environment may hold
    Unset,           \* a variable that is not set, or empty
    Malformed        \* a value that strconv does not parse

RequiredTexts == {"db_host", "db_user", "db_name", "userservice_url", "sellerservice_url"}
FreeTexts == {"db_password", "db_sslmode"}
DefaultedTexts == {"log_level", "log_file", "metrics_path", "metrics_service_name"}
Ports == {"db_port", "http_port"}
FileOnly == {"read_timeout", "write_timeout", "idle_timeout", "shutdown_timeout",
             "max_open_conns", "max_idle_conns", "conn_max_lifetime"}
Limits == {"userservice_timeout", "sellerservice_timeout"} \cup FileOnly
Switches == {"metrics_enabled"}
Numbers == Ports \cup Limits
Texts == RequiredTexts \cup FreeTexts \cup DefaultedTexts
Settings == Texts \cup Numbers \cup Switches

\* A text is absent, given or the default.
Values(s) == IF s \in Texts THEN {"", "given", "default"}
             ELSE IF s \in Numbers THEN Int ELSE BOOLEAN

IsFile(file) == DOMAIN file = Settings /\ \A s \in Settings : file[s] \in Values(s)

\* Variables exist for all but the settings of the file alone; any text is
\* well-formed.
IsEnvironment(env) ==
    /\ DOMAIN env = Settings \ FileOnly
    /\ \A s \in DOMAIN env :
         \/ env[s] = Unset
         \/ IF s \in Texts THEN env[s] = "given" ELSE env[s] = Malformed \/ env[s] \in Values(s)

ASSUME AppConfigAssumption ==
    /\ \A file \in Files \ {NoFile} : IsFile(file)
    /\ \A env \in Environments : IsEnvironment(env)

VARIABLES
    file,            \* config.toml of this start
    env,             \* the environment of this start
    stage,           \* where Load is
    cfg              \* the settings as Load has them so far

configVars == <<file, env, stage, cfg>>

AppConfigInit ==
    /\ file \in Files
    /\ env \in Environments
    /\ stage = "decoding"
    /\ cfg = file

Decode ==
    /\ stage = "decoding"
    /\ stage' = IF file = NoFile THEN "exited" ELSE "overriding"
    /\ UNCHANGED <<file, env, cfg>>

\* A number or switch that does not parse leaves the setting as it is.
Overrides(s) == s \in DOMAIN env /\ env[s] \notin {Unset, Malformed}

OverrideFromEnv ==
    /\ stage = "overriding"
    /\ cfg' = [s \in Settings |-> IF Overrides(s) THEN env[s] ELSE cfg[s]]
    /\ stage' = "validating"
    /\ UNCHANGED <<file, env>>

Default(s) ==
    CASE s \in {"read_timeout", "write_timeout"} -> 15
      [] s = "idle_timeout" -> 60
      [] s \in {"shutdown_timeout", "userservice_timeout", "sellerservice_timeout"} -> 10
      [] s = "max_open_conns" -> 25
      [] s = "max_idle_conns" -> 5
      [] s = "conn_max_lifetime" -> 300
      [] OTHER -> "default"

MaxPort == 65535

\* Mutants: the timeouts of the clients get no default, and the last port is refused.
DefaultedServerOnly(s) ==
    \/ s \in DefaultedTexts /\ cfg[s] = ""
    \/ s \in FileOnly /\ cfg[s] = 0
AcceptablePorts ==
    /\ \A s \in RequiredTexts : cfg[s] # ""
    /\ \A s \in Ports : ~(cfg[s] <= 0 \/ cfg[s] >= MaxPort)

\* The settings validate fills in; a negative limit is none of them.
Defaulted(s) ==
    \/ s \in DefaultedTexts /\ cfg[s] = ""
    \/ s \in Limits /\ cfg[s] = 0

\* The settings validate returns an error for.
Acceptable ==
    /\ \A s \in RequiredTexts : cfg[s] # ""
    /\ \A s \in Ports : ~(cfg[s] <= 0 \/ cfg[s] > MaxPort)

\* main exits when Load returns an error.
Validate ==
    /\ stage = "validating"
    /\ \/ ~Acceptable /\ stage' = "exited" /\ UNCHANGED cfg
       \/ /\ Acceptable
          /\ stage' = "loaded"
          /\ cfg' = [s \in Settings |-> IF Defaulted(s) THEN Default(s) ELSE cfg[s]]
    /\ UNCHANGED <<file, env>>

AppConfigNext == Decode \/ OverrideFromEnv \/ Validate

AppConfigSpec == AppConfigInit /\ [][AppConfigNext]_configVars
-----------------------------------------------------------------------------
(* Properties.                                                             *)

(* Whatever file and environment hold, a process that gets past Load can   *)
(* be connected to and can connect, and none of its timeouts and pool      *)
(* sizes is zero, which net/http and database/sql take for "no limit".     *)
UsableWhenLoaded ==
    stage = "loaded" =>
        /\ IsFile(cfg)
        /\ \A s \in RequiredTexts \cup DefaultedTexts : cfg[s] # ""
        /\ \A s \in Ports : 0 < cfg[s] /\ cfg[s] <= MaxPort
        /\ \A s \in Limits : cfg[s] # 0

\* What a setting is before defaults, said in one piece.
Given(s) == IF s \in DOMAIN env /\ env[s] \notin {Unset, Malformed} THEN env[s] ELSE file[s]

(* The process refuses to start only for a setting that neither file nor   *)
(* environment gives rightly: a good variable makes up for a bad file, and *)
(* an unparsable one does not spoil a good file.                           *)
RefusedRightly ==
    stage = "exited" =>
        \/ file = NoFile
        \/ \E s \in RequiredTexts : Given(s) = ""
        \/ \E s \in Ports : Given(s) < 1 \/ Given(s) > MaxPort
=============================================================================
