---------------------------- MODULE Configuration ----------------------------
(***************************************************************************)
(* KafkaConfig (config.rs, config/): from_toml, from_env and the builder,  *)
(* each from the defaults to validate.  A value is named for what the code *)
(* tells apart in it (a blank secret is an empty one); a list of brokers   *)
(* stands for the kinds of its addresses, and an address with user         *)
(* information for every malformed one; the three time limits, which are   *)
(* treated alike, are one.                                                 *)
(***************************************************************************)
EXTENDS Naturals

CONSTANT MaxSettings      \* bound: values the application sets

ASSUME SettingsAssumption == MaxSettings \in Nat

VARIABLES layer,          \* the values in the TOML text or in the environment
          settings,       \* how many values have been set
          phase,          \* "open", "building", "accepted" or "rejected"
          config          \* the configuration, or the builder's inner one

configVars == <<layer, settings, phase, config>>

Unset    == "unset"
Secrets  == {"sasl_username", "sasl_password"}

\* The values tried for each field.
Values(f) ==
  CASE f = "brokers" -> {"blank", "separators", "loopback", "remote", "both", "userinfo"}
    [] f = "client_id"      -> {"blank", "named"}
    [] f = "sasl_mechanism" -> {"blank", "none", "plain", "scram"}
    [] f \in Secrets        -> {"blank", "secret"}
    [] f = "tls"            -> {"true", "false", "garbled"}
    [] f = "tls_ca_file"    -> {"blank", "path"}
    [] f = "timeout"        -> {"zero", "some", "garbled"}
    [] f = "stranger"       -> {"any"}

Default ==
  [brokers |-> "loopback", client_id |-> "named", sasl_mechanism |-> Unset,
   sasl_username |-> Unset, sasl_password |-> Unset, tls |-> "false", tls_ca_file |-> Unset,
   timeout |-> "some"]

Fields  == DOMAIN Default
\* What a program can write to after the configuration was made: all that is pub.
Public  == Fields \ Secrets
Garbled == \E f \in DOMAIN layer : layer[f] = "garbled"

\* The kinds of address left when a list is split at commas and blanks dropped.
Addresses(brokers) == CASE brokers \in {"blank", "separators"} -> {}
                        [] brokers = "both"                    -> {"loopback", "remote"}
                        [] OTHER                               -> {brokers}

(***************************************************************************)
(* validate.                                                               *)
(***************************************************************************)
SafeBrokers(c) ==
  /\ Addresses(c.brokers) # {} /\ Addresses(c.brokers) \subseteq {"loopback", "remote"}
  /\ c.tls = "true" \/ Addresses(c.brokers) \subseteq {"loopback"}

\* Mutated form of CredentialsFit: credentials without a mechanism are let through.
CredentialsLoose(c) ==
  \/ c.sasl_mechanism = Unset
  \/ c.sasl_mechanism = "plain" /\ \A f \in Secrets : c[f] \notin {Unset, "blank"}

CredentialsFit(c) ==
  IF c.sasl_mechanism = Unset
    THEN \A f \in Secrets : c[f] = Unset
    ELSE c.sasl_mechanism = "plain" /\ \A f \in Secrets : c[f] \notin {Unset, "blank"}

Valid(c) == /\ c.timeout # "zero"
            /\ c.tls_ca_file # Unset => c.tls = "true"
            /\ SafeBrokers(c) /\ CredentialsFit(c)
            /\ c.client_id # "blank"

(***************************************************************************)
(* The application sets values.                                            *)
(***************************************************************************)
\* The values of one layer over those of another.
Over(upper, lower) ==
  [f \in DOMAIN upper \cup DOMAIN lower |-> IF f \in DOMAIN upper THEN upper[f] ELSE lower[f]]

Setting == settings < MaxSettings /\ settings' = settings + 1

Write(f, v) ==
  /\ phase = "open" /\ Setting
  /\ layer' = Over([g \in {f} |-> v], layer)
  /\ UNCHANGED <<phase, config>>

\* What no one can read any more is dropped, to merge states.
Adopt(readable, c) ==
  /\ phase' = (IF readable /\ Valid(c) THEN "accepted" ELSE "rejected")
  /\ config' = (IF phase' = "accepted" THEN c ELSE Default)
  /\ layer' = <<>>
  /\ UNCHANGED settings

\* Credentials are refused, unknown fields as well.
TomlReadable == DOMAIN layer \subseteq Public /\ ~Garbled

\* A blank value is a value here.
FromToml == phase = "open" /\ Adopt(TomlReadable, Over(layer, Default))

\* apply_env_overlay: most blank values are no values, a blank secret deletes it;
\* a mechanism that is switched off takes the credentials with it, before they
\* are looked at themselves.  Other names are not read.
Overlay(c) ==
  LET off   == "sasl_mechanism" \in DOMAIN layer /\ layer["sasl_mechanism"] \in {"blank", "none"}
      below == [f \in Fields |->
                  IF off /\ f \in Secrets \cup {"sasl_mechanism"} THEN Unset ELSE c[f]]
      used  == {f \in DOMAIN layer \cap Fields :
                  /\ layer[f] = "blank" => f \in Secrets
                  /\ f = "sasl_mechanism" => ~off}
  IN  Over([f \in used |-> IF layer[f] = "blank" THEN Unset ELSE layer[f]], below)

\* Mutated form of FromEnv: a value that cannot be parsed is no error.
FromEnvUnparsed == phase = "open" /\ Adopt(TRUE, Overlay(Default))

FromEnv == phase = "open" /\ Adopt(~Garbled, Overlay(Default))

(***************************************************************************)
(* KafkaConfigBuilder.                                                     *)
(***************************************************************************)
NewBuilder ==
  /\ phase = "open" /\ layer = <<>>
  /\ phase' = "building" /\ config' = Default
  /\ UNCHANGED <<layer, settings>>

Setter(c) == /\ phase = "building" /\ Setting
             /\ config' = c
             /\ UNCHANGED <<layer, phase>>

SetField(f, v) == f # "sasl_mechanism" /\ Setter([config EXCEPT ![f] = v])

SaslPlain(user, password) ==
  Setter([config EXCEPT !.sasl_mechanism = "plain", !.sasl_username = user,
                        !.sasl_password = password])

NoSasl == Setter([f \in Fields |-> IF f \in Secrets \cup {"sasl_mechanism"} THEN Unset
                                                                           ELSE config[f]])

Build == phase = "building" /\ Adopt(TRUE, config)

\* The program writes to a public field of its configuration; validate is not
\* called by that.
Edit(f, v) ==
  /\ phase = "accepted" /\ Setting
  /\ config' = [config EXCEPT ![f] = v]
  /\ UNCHANGED <<layer, phase>>

InitConfig == layer = <<>> /\ settings = 0 /\ phase = "open" /\ config = Default

\* What a value is when it has its Rust type; an Option can be taken away.
Typed(f) == Values(f) \ {"garbled"}
Editable(f) == Typed(f) \cup (IF Default[f] = Unset THEN {Unset} ELSE {})

ConfigStep ==
  \/ FromToml \/ FromEnv \/ NewBuilder \/ NoSasl \/ Build
  \/ \E f \in Fields \cup {"stranger"} : \E v \in Values(f) : Write(f, v)
  \/ \E f \in Public : \E v \in Typed(f) : SetField(f, v)
  \/ \E f \in Public : \E v \in Editable(f) : Edit(f, v)
  \/ \E u \in Typed("sasl_username"), p \in Typed("sasl_password") : SaslPlain(u, p)

\* Every variable of the configuration keeps its type.
ConfigTypeOK ==
  /\ settings \in 0..MaxSettings
  /\ phase \in {"open", "building", "accepted", "rejected"}
  /\ DOMAIN config = Fields /\ \A f \in Fields : config[f] \in Typed(f) \cup {Unset}
  /\ DOMAIN layer \subseteq Fields \cup {"stranger"}
=============================================================================
