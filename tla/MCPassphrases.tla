--------------------------- MODULE MCPassphrases ----------------------------
(* Config files that reach every way of asking, and ones that must be refused. *)
EXTENDS Passphrases, TLC

Key(fallback) == [id |-> "n1", confirm |-> Unset, passphrase_fallback |-> fallback]

MCFiles == {
    Missing, Unreadable,
    "confirm" :> "off" @@ "remember_approvals" :> TRUE @@ "master_password_idle_secs" :> "zero",
    "confirm" :> "off" @@ "vault_unlock_timeout_secs" :> "zero",
    "confirm" :> "off" @@ "passphrase_fallback" :> "keychain",
    "confirm" :> "askpass" @@ "passphrase_fallback" :> "error",
    "confirm" :> "askpass" @@ "askpass" :> "tilde"
        @@ "keys" :> <<Key("secretservice")>>,
    "passphrase_fallback" :> "keychain" @@ "keys" :> <<Key("prompt")>>,
    "passphrase_fallback" :> "prompt" @@ "keys" :> <<Key("keychain")>>,
    "passphrase_fallback" :> "secretservice"}

MCHomes == BOOLEAN
=============================================================================
