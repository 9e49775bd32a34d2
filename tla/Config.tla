------------------------------- MODULE Config -------------------------------
(***************************************************************************)
(* What a config file comes to: Config in src/src/config.rs, and the       *)
(* prompts the two from_config functions build from it                     *)
(* (src/src/confirm/mod.rs, src/src/passphrase.rs).                        *)
(*                                                                         *)
(* A file is abstracted to the settings written in it, a function from     *)
(* some names of settings to values. A path is absolute, relative, or      *)
(* begins with a tilde; a number is abstracted to the sides of its bounds. *)
(***************************************************************************)
EXTENDS Integers, Sequences

CONSTANTS
    Unset,          \* of an optional setting nobody has written
    Refused,        \* of a file the agent does not start with
    Missing,        \* there is no file
    Unreadable      \* there is one, and it cannot be read or is no TOML

Platforms == {"macos", "linux", "other"}
ConfirmModes == {"osascript", "tty", "askpass", "off"}
Fallbacks == {"prompt", "error", "keychain", "secretservice"}
Stores == {"keychain", "secretservice"}
Paths == {"absolute", "relative", "tilde", Unset}

\* Ids are abstracted to their form: "n1" and "n2" are two numbers.
KeyConfigs == [id : {"n1", "n2", "name"}, confirm : BOOLEAN \cup {Unset},
               passphrase_fallback : Fallbacks \cup {Unset}]

\* What a file that parses can hold for the settings that say whom to ask.
Parses(settings) ==
    /\ "confirm" \in DOMAIN settings => settings["confirm"] \in ConfirmModes
    /\ "passphrase_fallback" \in DOMAIN settings => settings["passphrase_fallback"] \in Fallbacks
    /\ "keys" \in DOMAIN settings => settings["keys"] \in Seq(KeyConfigs)

\* What an empty file parses to. The screen's lock is watched where it can be read.
Defaults(platform) ==
    [socket |-> Unset, lpass_path |-> Unset, askpass |-> Unset,
     confirm |-> IF platform = "macos" THEN "osascript" ELSE "tty",
     confirm_timeout_secs |-> "fits",
     passphrase_fallback |-> "prompt",
     master_password_idle_secs |-> Unset,
     master_password |-> "prompt",
     lock_on_screen_lock |-> platform \in {"macos", "linux"},
     remember_approvals |-> FALSE,
     keys |-> <<>>]

Parsed(platform, settings) ==
    [name \in DOMAIN Defaults(platform) |->
        IF name \in DOMAIN settings THEN settings[name] ELSE Defaults(platform)[name]]

\* expand_tilde: without a home directory the path stays as it is written.
Expanded(path, home) == IF path = "tilde" THEN IF home THEN "absolute" ELSE "relative" ELSE path

Expand(config, home) ==
    [config EXCEPT !.socket = Expanded(@, home), !.lpass_path = Expanded(@, home),
                   !.askpass = Expanded(@, home)]

FallbackOf(config, key) ==
    IF key.passphrase_fallback = Unset THEN config.passphrase_fallback ELSE key.passphrase_fallback

\* A key may ask for less confirming than the global setting, never for more.
ConfirmRequired(config, key) ==
    /\ config.confirm # "off"
    /\ key.confirm = Unset \/ key.confirm

\* A variant that must fail: the global setting decides, whatever the keys say.
UsesGlobalFallback(config, wanted) == config.passphrase_fallback = wanted

\* What a key would reach for: a global value every key overrides is never used.
UsesFallback(config, wanted) ==
    \/ config.keys = <<>> /\ config.passphrase_fallback = wanted
    \/ \E i \in DOMAIN config.keys : FallbackOf(config, config.keys[i]) = wanted

Distinct(keys) == \A i, j \in DOMAIN keys : keys[i].id = keys[j].id => i = j

\* validate, the checks in its order.
Valid(platform, config) ==
    /\ \A i \in DOMAIN config.keys : config.keys[i].id \in {"n1", "n2"}
    /\ Distinct(config.keys)
    /\ "relative" \notin {config.socket, config.lpass_path, config.askpass}
    /\ config.confirm = "askpass" => config.askpass # Unset
    /\ config.confirm_timeout_secs = "fits"
    /\ platform # "macos" => ~UsesFallback(config, "keychain")
    /\ platform # "linux" => ~UsesFallback(config, "secretservice")
    /\ platform # "macos" => config.master_password # "touchid"
    /\ platform = "other" => ~config.lock_on_screen_lock

\* refuse_misnamed, and deny_unknown_fields: the idle time under the name of the vault's own
\* timeout, or anything else that is no setting.
Misnamed(platform, settings) == ~(DOMAIN settings \subseteq DOMAIN Defaults(platform))

\* load_or_default: a missing file is not validated, an unreadable or garbled one refused.
Load(platform, home, file) ==
    IF file = Missing THEN Defaults(platform)
    ELSE IF file = Unreadable THEN Refused
    ELSE LET config == Expand(Parsed(platform, file), home)
         IN  IF ~Misnamed(platform, file) /\ Valid(platform, config)
             THEN config ELSE Refused

-----------------------------------------------------------------------------
(* What is built from it.                                                  *)

HelperOf(config) == IF config.askpass = Unset THEN "nothing" ELSE "helper"

\* from_config of confirm/mod.rs.
Confirmer(config) ==
    CASE config.confirm = "off" -> "none"
      [] config.confirm = "osascript" -> "dialog"
      [] config.confirm = "tty" -> "terminal"
      [] config.confirm = "askpass" -> HelperOf(config)

\* from_config of passphrase.rs: where nobody is to be asked for approval, somebody still
\* can be for a passphrase.
Prompter(platform, config) ==
    IF config.confirm # "off" THEN Confirmer(config)
    ELSE IF platform = "macos" THEN "dialog" ELSE "terminal"

\* default_store.
StoreOf(platform) ==
    CASE platform = "macos" -> "keychain"
      [] platform = "linux" -> "secretservice"
      [] platform = "other" -> "none"

\* Identities::from_config and discovered: what is served of a pinned and of a found key.
Entries(config) ==
    IF config.keys = <<>>
    THEN {[confirm |-> config.confirm # "off", fallback |-> config.passphrase_fallback]}
    ELSE {[confirm |-> ConfirmRequired(config, config.keys[i]),
           fallback |-> FallbackOf(config, config.keys[i])] : i \in DOMAIN config.keys}

\* The agent that comes of it, as far as a request can tell.
Served(platform, config) ==
    [entries |-> Entries(config), confirmer |-> Confirmer(config),
     prompter |-> Prompter(platform, config), store |-> StoreOf(platform)]
=============================================================================
