------------------------------- MODULE Connect -------------------------------
(***************************************************************************)
(* KafkaPool::connect, connect_from_env and new (connection/connect.rs):   *)
(* concurrent calls of one process, each with the configuration as it is   *)
(* when the call is made.  The TLS part of a call is a blocking task of    *)
(* its own, which goes on when its call has timed out or was dropped.      *)
(***************************************************************************)
EXTENDS Configuration, KafkaErrors

CONSTANT Calls            \* one for each call of connect or new

VARIABLES provider,       \* who installed the process's crypto provider
          caFile,         \* what is at the path tls_ca_file
          replaced,       \* caFile has been replaced once (bound)
          call,           \* where a call is, and the configuration it was given
          job,            \* where its blocking task is
          result          \* what the call returned, and the client in it

callVars == <<call, job, result>>
world    == <<configVars, provider, caFile, replaced>>
vars     == <<world, callVars>>

\* No regular file, one above 1 MiB, one without a valid certificate, a good one.
CaFiles  == {"missing", "huge", "garbage", "good"}
NoClient == [tls |-> FALSE, sasl |-> FALSE, brokers |-> {}, roots |-> "none"]

\* What the driver's build can end with: no broker answers, or one refuses.
BuildErrors == {Driver("Connection"), Driver("RetryFailed"), Driver("InvalidResponse"),
                Server("SaslAuthenticationFailed"), Server("RequestTimedOut")}

End(c, outcome, client) ==
  /\ call' = [call EXCEPT ![c].at = "ended"]
  /\ result' = [result EXCEPT ![c] = [outcome |-> outcome, client |-> client]]

Inside(c) == call[c].at \in {"tls", "dialing"}

(***************************************************************************)
(* A call.  What is asked of the driver is settled when the dialling       *)
(* begins: whether there are credentials says whether SASL is used.        *)
(***************************************************************************)
Dial(c, given, roots) ==
  LET sasl == \A f \in Secrets : given[f] # Unset
  IN  IF ~sasl /\ given.sasl_mechanism # Unset
        THEN End(c, "config", NoClient)
        ELSE /\ call' = [call EXCEPT ![c] = [at |-> "dialing", given |-> given]]
             /\ result' = [result EXCEPT ![c] =
                  [outcome |-> "none",
                   client  |-> [tls |-> given.tls = "true", sasl |-> sasl,
                                brokers |-> Addresses(given.brokers), roots |-> roots]]]

Admit(c) == call[c].at = "idle" /\ phase = "accepted"

\* Mutated form of Connect: it relies on the validation of the constructor.
ConnectUnchecked(c) ==
  /\ Admit(c)
  /\ IF config.tls = "true"
       THEN /\ call' = [call EXCEPT ![c] = [at |-> "tls", given |-> config]]
            /\ job' = [job EXCEPT ![c] = "install"]
            /\ UNCHANGED result
     ELSE Dial(c, config, "none") /\ UNCHANGED job
  /\ UNCHANGED world

\* connect validates again: the fields may have been written to since.
Connect(c) ==
  /\ Admit(c)
  /\ IF ~Valid(config)
       THEN End(c, "config", NoClient) /\ UNCHANGED job
     ELSE IF config.tls = "true"
       THEN /\ call' = [call EXCEPT ![c] = [at |-> "tls", given |-> config]]
            /\ job' = [job EXCEPT ![c] = "install"]
            /\ UNCHANGED result
     ELSE Dial(c, config, "none") /\ UNCHANGED job
  /\ UNCHANGED world

\* KafkaPool::new makes a pool that has no client.
New(c) ==
  /\ Admit(c)
  /\ End(c, IF Valid(config) THEN "offline" ELSE "config", NoClient)
  /\ UNCHANGED <<world, job>>

\* The call awaits its task.
Join(c) ==
  /\ call[c].at = "tls"
  /\ CASE job[c] = "refused"  -> End(c, "config", NoClient)
       [] job[c] = "provider" -> End(c, "provider", NoClient)
       [] job[c] = "lost"     -> End(c, "connection", NoClient)
       [] OTHER -> job[c] \in {"public", "withFile"} /\ Dial(c, call[c].given, job[c])
  /\ UNCHANGED <<world, job>>

Built(c) ==
  /\ call[c].at = "dialing"
  /\ \/ End(c, "ok", result[c].client)
     \/ \E e \in BuildErrors : End(c, ClassifyRskafka(e), NoClient)
  /\ UNCHANGED <<world, job>>

\* Mutated form of TimedOut: the time limit is around the driver's build only.
TimedOutDialing(c) ==
  /\ call[c].at = "dialing"
  /\ End(c, "timeout", NoClient)
  /\ UNCHANGED <<world, job>>

\* connect_timeout, around all of it.
TimedOut(c) ==
  /\ Inside(c)
  /\ End(c, "timeout", NoClient)
  /\ UNCHANGED <<world, job>>

\* The caller drops the call.
Dropped(c) ==
  /\ Inside(c)
  /\ End(c, "dropped", NoClient)
  /\ UNCHANGED <<world, job>>

(***************************************************************************)
(* The blocking task (build_tls_config).                                   *)
(***************************************************************************)
JobStep(c, from, to) ==
  /\ job[c] = from
  /\ job' = [job EXCEPT ![c] = to]
  /\ UNCHANGED <<configVars, replaced, caFile, call, result>>

\* Mutated form of Install: whoever does not install it fails.
InstallOrFail(c) ==
  /\ JobStep(c, "install", IF provider = "none" THEN "roots" ELSE "provider")
  /\ provider' = (IF provider = "none" THEN "kafkax" ELSE provider)

\* install_default succeeds for one caller in the life of the process.
Install(c) ==
  /\ JobStep(c, "install", IF provider = "none" THEN "roots" ELSE "check")
  /\ provider' = (IF provider = "none" THEN "kafkax" ELSE provider)

\* get_default: only a process without any provider is an error.
Check(c) ==
  /\ JobStep(c, "check", IF provider = "none" THEN "provider" ELSE "roots")
  /\ UNCHANGED provider

\* What metadata finds at the path; an empty path is no file.
Roots(c) ==
  /\ JobStep(c, "roots",
       IF call[c].given.tls_ca_file = Unset THEN "public"
       ELSE IF call[c].given.tls_ca_file = "blank" \/ caFile \in {"missing", "huge"} THEN "refused"
       ELSE "read")
  /\ UNCHANGED provider

\* The file is opened and read later, whatever is there by then: a large file is
\* read to its end.
Read(c) ==
  /\ \E to \in {"withFile", "refused"} :
       /\ JobStep(c, "read", to)
       /\ to = "withFile" => caFile \in {"good", "huge"}
       /\ to = "refused"  => caFile # "good"
  /\ UNCHANGED provider

\* The task panics.
Lost(c) ==
  /\ \E from \in {"install", "check", "roots", "read"} : JobStep(c, from, "lost")
  /\ UNCHANGED provider

(***************************************************************************)
(* What others do.                                                         *)
(***************************************************************************)
\* Another library of the process installs its provider.
OtherInstalls ==
  /\ provider = "none"
  /\ provider' = "other"
  /\ UNCHANGED <<configVars, caFile, replaced, callVars>>

ReplaceCa(file) ==
  /\ ~replaced /\ file # caFile
  /\ replaced' = TRUE /\ caFile' = file
  /\ UNCHANGED <<configVars, provider, callVars>>

\* Bound: not once every call has been made.
Configure ==
  /\ ConfigStep /\ \E c \in Calls : call[c].at = "idle"
  /\ UNCHANGED <<provider, caFile, replaced, callVars>>

Init ==
  /\ InitConfig
  /\ provider = "none" /\ caFile \in CaFiles /\ replaced = FALSE
  /\ call = [c \in Calls |-> [at |-> "idle", given |-> Default]]
  /\ job = [c \in Calls |-> "none"]
  /\ result = [c \in Calls |-> [outcome |-> "none", client |-> NoClient]]

JobNext(c)  == Install(c) \/ Check(c) \/ Roots(c) \/ Read(c) \/ Lost(c)
CallNext(c) == Connect(c) \/ New(c) \/ Join(c) \/ Built(c) \/ TimedOut(c) \/ Dropped(c)

Next ==
  \/ Configure \/ OtherInstalls
  \/ \E file \in CaFiles : ReplaceCa(file)
  \/ \E c \in Calls : CallNext(c) \/ JobNext(c)

\* The timer of a call fires; a file system or a broker may never answer.
Spec     == Init /\ [][Next]_vars
FairSpec == Spec /\ \A c \in Calls : WF_vars(TimedOut(c))

-----------------------------------------------------------------------------
\* Every variable keeps its type, and only a call in the making or an open pool
\* has a client.
TypeOK ==
  /\ ConfigTypeOK
  /\ provider \in {"none", "kafkax", "other"} /\ caFile \in CaFiles /\ replaced \in BOOLEAN
  /\ \A c \in Calls :
       /\ call[c].at \in {"idle", "tls", "dialing", "ended"}
       /\ job[c] \in {"none", "install", "check", "roots", "read", "public", "withFile",
                      "refused", "provider", "lost"}
       /\ (result[c].client # NoClient) = (call[c].at = "dialing" \/ result[c].outcome = "ok")

\* Whatever a program does to its configuration, no broker but a local one is
\* ever dialled in clear (validate.rs:39-46, README's fail-closed rule).
NothingInClear ==
  \A c \in Calls : result[c].client.tls \/ result[c].client.brokers \subseteq {"loopback"}

\* security_protocol() of a pool, read off its configuration, is what its client
\* does: SASL exactly if a mechanism is named, TLS exactly if it is on, and then
\* with the CA that was asked for (config.rs:123-130, connect.rs:65-77).
ClientMatchesConfig ==
  \A c \in Calls : result[c].client # NoClient =>
    LET client == result[c].client
        given  == call[c].given
    IN  /\ client.sasl = (given.sasl_mechanism # Unset)
        /\ client.tls = (given.tls = "true")
        /\ (client.roots = "withFile") = (given.tls_ca_file # Unset)

\* Calls that race for the provider all get past it, whoever installs it, even if
\* the winner has timed out since (connect.rs:110-123), and no TLS configuration
\* is made in a process that has none.
ProviderRaceIsBenign ==
  \A c \in Calls : /\ job[c] # "provider"
                   /\ job[c] \in {"roots", "read", "public", "withFile"} => provider # "none"

\* A call returns, even if its task or the broker never does.
ConnectReturns == \A c \in Calls : Inside(c) ~> ~Inside(c)
=============================================================================
