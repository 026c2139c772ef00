---------------------------- MODULE ConnectProofs ----------------------------
(***************************************************************************)
(* Proofs about Connect, for every set of calls and every number of values *)
(* that the application sets.                                              *)
(***************************************************************************)
EXTENDS Connect, TLAPS

\* The values that a field can have, of any field; what is at a place in a call
\* has its type.
Words == {Unset, "blank", "separators", "loopback", "remote", "both", "userinfo", "named",
          "none", "plain", "scram", "secret", "true", "false", "path", "zero", "some"}

Configs == [Fields -> Words]

ConfigShape == /\ config \in Configs
               /\ \A f \in DOMAIN layer : f \in Fields => layer[f] \in Words \cup {"garbled"}

Places  == {"idle", "tls", "dialing", "ended"}
Tasks   == {"none", "install", "check", "roots", "read", "public", "withFile", "refused",
            "provider", "lost"}
Answers == {"none", "ok", "offline", "config", "provider", "connection", "timeout",
            "transient", "backend", "dropped"}
Clients == [tls : BOOLEAN, sasl : BOOLEAN,
            brokers : SUBSET {"loopback", "remote", "userinfo"},
            roots : {"none", "public", "withFile"}]

CallsTyped ==
  /\ call \in [Calls -> [at : Places, given : Configs]]
  /\ job \in [Calls -> Tasks]
  /\ result \in [Calls -> [outcome : Answers, client : Clients]]

\* What is dialled is what the call was given.
Fits(client, given) ==
  /\ client.sasl = (\A f \in Secrets : given[f] # Unset)
  /\ client.tls = (given.tls = "true")
  /\ client.brokers = Addresses(given.brokers)
  /\ (client.roots = "withFile") = (given.tls_ca_file # Unset)

\* A call at a place, with the configuration it was given, its task and client.
\* - A task that has got past the provider is in a process that has one.
\* - A call that went on was given a configuration that passes validate, whatever
\*   the program has written to its own copy since.
\* - What the task looks for, and what is dialled, is what the call was given.
Sound(at, given, task, client, installed) ==
  /\ at = "idle" => task = "none" /\ client = NoClient
  /\ task # "provider"
  /\ task \in {"check", "roots", "read", "public", "withFile"} => installed
  /\ at \in {"tls", "dialing"} \/ client # NoClient => Valid(given)
  /\ at = "tls" => given.tls = "true"
  /\ task = "public" => given.tls_ca_file = Unset
  /\ task \in {"read", "withFile"} => given.tls_ca_file # Unset
  /\ client # NoClient => Fits(client, given)

SoundNow(c) == Sound(call[c].at, call[c].given, job[c], result[c].client, provider # "none")

IndInv == ConfigShape /\ CallsTyped /\ \A c \in Calls : SoundNow(c)

-----------------------------------------------------------------------------
LEMMA DefaultShape == Default \in Configs
BY DEF Default, Fields, Words, Unset, Configs

LEMMA NoClientTyped == NoClient \in Clients
BY DEF NoClient, Clients

\* Initially no call has begun.
LEMMA InitInv == Init => IndInv
<1>. SUFFICES ASSUME Init PROVE IndInv
  OBVIOUS
<1>. USE DEF Init, InitConfig
<1>1. ConfigShape
  BY DefaultShape DEF ConfigShape
<1>3. CallsTyped
  BY NoClientTyped, DefaultShape DEF CallsTyped, Places, Tasks, Answers
<1>4. \A c \in Calls : SoundNow(c)
  BY DEF SoundNow, Sound
<1>. QED
  BY <1>1, <1>3, <1>4 DEF IndInv

\* A call that has not moved stays sound if the provider stays.
LEMMA StaysSound ==
  ASSUME NEW at, NEW given, NEW task, NEW client,
         Sound(at, given, task, client, provider # "none"),
         provider # "none" => provider' # "none"
  PROVE  Sound(at, given, task, client, provider' # "none")
BY DEF Sound

\* One call moves to a place, with its task at another: it is enough that the new
\* record is sound.  Every step of a call or of its task is of this form
\* (connect.rs:14-20, 57-81, 109-155).
LEMMA Moved ==
  ASSUME IndInv, NEW c \in Calls, NEW at \in Places, NEW given \in Configs,
         NEW o \in Answers, NEW client \in Clients, NEW j \in Tasks,
         call' = [call EXCEPT ![c] = [at |-> at, given |-> given]],
         result' = [result EXCEPT ![c] = [outcome |-> o, client |-> client]],
         job' = [job EXCEPT ![c] = j],
         ConfigShape', provider # "none" => provider' # "none",
         Sound(at, given, j, client, provider' # "none")
  PROVE  IndInv'
<1>1. CallsTyped'
  BY DEF IndInv, CallsTyped
<1>2. ASSUME NEW d \in Calls PROVE SoundNow(d)'
  <2>1. CASE d = c
    <3>1. /\ call'[c].at = at /\ call'[c].given = given
          /\ result'[c].client = client /\ job'[c] = j
      BY DEF IndInv, CallsTyped
    <3>. QED
      BY <2>1, <3>1 DEF SoundNow
  <2>2. CASE d # c
    <3>1. call'[d] = call[d] /\ result'[d] = result[d] /\ job'[d] = job[d]
      BY <2>2 DEF IndInv, CallsTyped
    <3>. QED
      BY <3>1, StaysSound DEF IndInv, SoundNow
  <2>. QED
    BY <2>1, <2>2
<1>. QED
  BY <1>1, <1>2 DEF IndInv

\* A call that ends, with the client it was dialling or with none.
LEMMA Ended ==
  ASSUME IndInv, NEW c \in Calls, NEW o \in Answers, NEW client \in {NoClient, result[c].client},
         UNCHANGED <<configVars, job, provider>>, End(c, o, client)
  PROVE  IndInv'
<1>1. /\ call[c] \in [at : Places, given : Configs]
      /\ call[c].given \in Configs /\ job[c] \in Tasks
      /\ result[c].client \in Clients /\ client \in Clients
  BY NoClientTyped DEF IndInv, CallsTyped
<1>2. call' = [call EXCEPT ![c] = [at |-> "ended", given |-> call[c].given]]
  <2>1. [call[c] EXCEPT !.at = "ended"] = [at |-> "ended", given |-> call[c].given]
    BY <1>1
  <2>. QED
    BY <2>1 DEF End
<1>3. job' = [job EXCEPT ![c] = job[c]]
  BY DEF IndInv, CallsTyped
<1>4. ConfigShape'
  BY DEF IndInv, ConfigShape, configVars
<1>5. provider' = provider
  OBVIOUS
<1>6. Sound("ended", call[c].given, job[c], client, provider' # "none")
  BY <1>5 DEF IndInv, SoundNow, Sound
<1>7. result' = [result EXCEPT ![c] = [outcome |-> o, client |-> client]]
  BY DEF End
<1>8. "ended" \in Places
  BY DEF Places
<1>. QED
  BY <1>1, <1>2, <1>3, <1>4, <1>5, <1>6, <1>7, <1>8, Moved

\* A call that begins to dial (connect.rs:64-78).
LEMMA Dialled ==
  ASSUME IndInv, NEW c \in Calls, NEW given \in Configs, Valid(given),
         \/ call[c].at = "idle"
         \/ given = call[c].given,
         NEW roots \in {"none", "public", "withFile"},
         (roots = "withFile") = (given.tls_ca_file # Unset),
         UNCHANGED <<configVars, job, provider>>, Dial(c, given, roots)
  PROVE  IndInv'
<1>. DEFINE sasl   == \A f \in Secrets : given[f] # Unset
            client == [tls |-> given.tls = "true", sasl |-> sasl,
                       brokers |-> Addresses(given.brokers), roots |-> roots]
<1>1. CASE ~sasl /\ given.sasl_mechanism # Unset
  <2>1. End(c, "config", NoClient) /\ "config" \in Answers
    BY <1>1 DEF Dial, Answers
  <2>. QED
    BY <2>1, Ended
<1>2. CASE ~(~sasl /\ given.sasl_mechanism # Unset)
  <2>1. /\ call' = [call EXCEPT ![c] = [at |-> "dialing", given |-> given]]
        /\ result' = [result EXCEPT ![c] = [outcome |-> "none", client |-> client]]
    BY <1>2 DEF Dial
  <2>2. client \in Clients
    <3>1. Addresses(given.brokers) \in SUBSET {"loopback", "remote", "userinfo"}
      BY DEF Valid, SafeBrokers
    <3>2. (given.tls = "true") \in BOOLEAN
      BY Zenon
    <3>3. sasl \in BOOLEAN
      BY Zenon
    <3>. HIDE DEF sasl
    <3>. QED
      BY <3>1, <3>2, <3>3 DEF Clients
  <2>3. job' = [job EXCEPT ![c] = job[c]] /\ job[c] \in Tasks
    BY DEF IndInv, CallsTyped
  <2>4. ConfigShape' /\ provider' = provider
    BY DEF IndInv, ConfigShape, configVars
  <2>5. Fits(client, given)
    BY DEF Fits
  <2>6. Sound("dialing", given, job[c], client, provider' # "none")
    <3>. HIDE DEF client
    <3>. QED
      BY <2>4, <2>5 DEF IndInv, SoundNow, Sound
  <2>7. "dialing" \in Places /\ "none" \in Answers
    BY DEF Places, Answers
  <2>8. provider # "none" => provider' # "none"
    BY <2>4
  <2>. HIDE DEF client
  <2>. QED
    BY <2>1, <2>2, <2>3, <2>4, <2>6, <2>7, <2>8, Moved, ZenonT(30)
<1>. QED
  BY <1>1, <1>2

\* A task moves, and its call does not.
LEMMA JobMoved ==
  ASSUME IndInv, NEW c \in Calls, NEW from, NEW to \in Tasks, from # "none",
         JobStep(c, from, to), provider # "none" => provider' # "none",
         Sound(call[c].at, call[c].given, to, result[c].client, provider' # "none")
  PROVE  IndInv'
<1>1. /\ call[c] \in [at : Places, given : Configs]
      /\ call[c].at \in Places /\ call[c].given \in Configs
      /\ result[c] \in [outcome : Answers, client : Clients]
      /\ result[c].outcome \in Answers /\ result[c].client \in Clients
  BY DEF IndInv, CallsTyped
<1>2. call' = [call EXCEPT ![c] = [at |-> call[c].at, given |-> call[c].given]]
  BY <1>1 DEF IndInv, CallsTyped, JobStep
<1>3. result' = [result EXCEPT ![c] = [outcome |-> result[c].outcome, client |-> result[c].client]]
  BY <1>1 DEF IndInv, CallsTyped, JobStep
<1>4. job' = [job EXCEPT ![c] = to]
  BY DEF JobStep
<1>5. ConfigShape'
  BY DEF IndInv, ConfigShape, JobStep, configVars
<1>. QED
  BY <1>1, <1>2, <1>3, <1>4, <1>5, Moved

\* One value over others of a layer, and a layer over a configuration.
LEMMA OverTyped ==
  ASSUME NEW upper, NEW below \in Configs, DOMAIN upper \subseteq Fields,
         \A f \in DOMAIN upper : upper[f] \in Words
  PROVE  Over(upper, below) \in Configs
<1>1. DOMAIN below = Fields
  BY DEF Configs
<1>. QED
  BY <1>1 DEF Over, Configs

LEMMA ValuesTyped == \A f \in Fields : Values(f) \subseteq Words \cup {"garbled"}
BY DEF Values, Fields, Default, Secrets, Words, Unset

\* Whatever is set, loaded or built, a configuration has its shape (config/).
LEMMA ConfigStays == ASSUME ConfigShape, ConfigStep PROVE ConfigShape'
<1>1. ASSUME NEW readable, NEW c, readable = TRUE => c \in Configs, readable \in BOOLEAN,
             Adopt(readable, c)
      PROVE  ConfigShape'
  BY <1>1, DefaultShape DEF Adopt, ConfigShape
<1>2. CASE FromToml
  <2>1. TomlReadable => Over(layer, Default) \in Configs
    BY DefaultShape, OverTyped DEF ConfigShape, Public, TomlReadable, Garbled
  <2>2. TomlReadable \in BOOLEAN
    BY Zenon DEF TomlReadable
  <2>. QED
    BY <1>1, <1>2, <2>1, <2>2 DEF FromToml
<1>3. CASE FromEnv
  <2>1. ASSUME ~Garbled PROVE Overlay(Default) \in Configs
    <3>. DEFINE off == "sasl_mechanism" \in DOMAIN layer
                         /\ layer["sasl_mechanism"] \in {"blank", "none"}
                below == [f \in Fields |-> IF off /\ f \in Secrets \cup {"sasl_mechanism"}
                                             THEN Unset ELSE Default[f]]
                used == {f \in DOMAIN layer \cap Fields :
                           /\ layer[f] = "blank" => f \in Secrets
                           /\ f = "sasl_mechanism" => ~off}
                upper == [f \in used |-> IF layer[f] = "blank" THEN Unset ELSE layer[f]]
    <3>0. Unset \in Words
      BY DEF Words
    <3>1. below \in Configs
      BY <3>0, DefaultShape DEF Configs
    <3>2. /\ DOMAIN upper \subseteq Fields
          /\ \A f \in DOMAIN upper : upper[f] \in Words
      BY <2>1, <3>0 DEF ConfigShape, Garbled
    <3>3. Overlay(Default) = Over(upper, below)
      BY Zenon DEF Overlay
    <3>. HIDE DEF upper, below
    <3>. QED
      BY <3>1, <3>2, <3>3, OverTyped
  <2>2. (~Garbled) \in BOOLEAN
    BY Zenon
  <2>. QED
    BY <1>1, <1>3, <2>1, <2>2 DEF FromEnv
<1>4. CASE NewBuilder
  BY <1>4, DefaultShape DEF NewBuilder, ConfigShape
<1>5. ASSUME NEW c \in Configs, Setter(c) PROVE ConfigShape'
  BY <1>5 DEF Setter, ConfigShape
<1>6. CASE NoSasl
  <2>1. [f \in Fields |-> IF f \in Secrets \cup {"sasl_mechanism"} THEN Unset ELSE config[f]]
          \in Configs
    BY DEF ConfigShape, Configs, Words
  <2>. QED
    BY <1>5, <1>6, <2>1 DEF NoSasl
<1>7. CASE Build
  <2>1. config \in Configs
    BY DEF ConfigShape
  <2>. QED
    BY <1>1, <1>7, <2>1 DEF Build
<1>8. ASSUME NEW f \in Fields \cup {"stranger"}, NEW v \in Values(f), Write(f, v)
      PROVE  ConfigShape'
  <2>1. f \in Fields => v \in Words \cup {"garbled"}
    BY ValuesTyped
  <2>2. \A g \in DOMAIN layer' : /\ g # f => g \in DOMAIN layer /\ layer'[g] = layer[g]
                                 /\ g = f => layer'[g] = v
    BY <1>8 DEF Write, Over
  <2>. QED
    BY <1>8, <2>1, <2>2 DEF Write, ConfigShape
<1>9. ASSUME NEW f \in Public, NEW v \in Typed(f) \cup {Unset}
      PROVE  [config EXCEPT ![f] = v] \in Configs
  <2>1. v \in Words
    BY ValuesTyped DEF Public, Typed, Words
  <2>. QED
    BY <2>1 DEF ConfigShape, Configs
<1>10. ASSUME NEW f \in Public, NEW v \in Typed(f), SetField(f, v) PROVE ConfigShape'
  BY <1>5, <1>9, <1>10 DEF SetField
<1>11. ASSUME NEW f \in Public, NEW v \in Editable(f), Edit(f, v) PROVE ConfigShape'
  <2>1. v \in Typed(f) \cup {Unset}
    BY DEF Editable
  <2>2. [config EXCEPT ![f] = v] \in Configs
    BY <1>9, <2>1
  <2>. QED
    BY <1>11, <2>2 DEF Edit, ConfigShape
<1>12. ASSUME NEW u \in Typed("sasl_username"), NEW p \in Typed("sasl_password"), SaslPlain(u, p)
       PROVE  ConfigShape'
  <2>1. u \in Words /\ p \in Words /\ "plain" \in Words
    BY DEF Typed, Values, Secrets, Words
  <2>2. [config EXCEPT !.sasl_mechanism = "plain", !.sasl_username = u, !.sasl_password = p]
          \in Configs
    BY <2>1 DEF ConfigShape, Configs
  <2>. QED
    BY <1>5, <1>12, <2>2 DEF SaslPlain
<1>. QED
  BY <1>2, <1>3, <1>4, <1>6, <1>7, <1>8, <1>10, <1>11, <1>12 DEF ConfigStep

-----------------------------------------------------------------------------
\* The steps of the calls.
LEMMA CallStep == ASSUME IndInv, NEW c \in Calls, CallNext(c) PROVE IndInv'
<1>0. /\ config \in Configs /\ SoundNow(c)
      /\ call[c].given \in Configs /\ result[c].client \in Clients
  BY DEF IndInv, ConfigShape, CallsTyped
<1>1. CASE Connect(c)
  <2>. USE <1>1 DEF Connect, world
  <2>1. UNCHANGED <<configVars, provider>> /\ call[c].at = "idle" /\ job[c] = "none"
    BY <1>0 DEF Admit, SoundNow, Sound
  <2>2. CASE ~Valid(config)
    <3>1. End(c, "config", NoClient) /\ "config" \in Answers /\ job' = job
      BY <2>2 DEF Answers
    <3>. QED
      BY <2>1, <3>1, Ended
  <2>3. CASE Valid(config) /\ config.tls = "true"
    <3>1. /\ call' = [call EXCEPT ![c] = [at |-> "tls", given |-> config]]
          /\ job' = [job EXCEPT ![c] = "install"] /\ result' = result
      BY <2>3
    <3>2. result' = [result EXCEPT ![c] = [outcome |-> result[c].outcome, client |-> NoClient]]
      BY <1>0, <2>1, <3>1 DEF IndInv, CallsTyped, SoundNow, Sound
    <3>3. ConfigShape' /\ (provider # "none" => provider' # "none")
      BY <2>1 DEF IndInv, ConfigShape, configVars
    <3>4. Sound("tls", config, "install", NoClient, provider' # "none")
      BY <2>3 DEF Sound
    <3>5. "tls" \in Places /\ "install" \in Tasks /\ result[c].outcome \in Answers
      BY DEF Places, Tasks, IndInv, CallsTyped
    <3>. QED
      BY <1>0, <3>1, <3>2, <3>3, <3>4, <3>5, NoClientTyped, Moved
  <2>4. CASE Valid(config) /\ config.tls # "true"
    <3>1. Dial(c, config, "none") /\ job' = job
      BY <2>4
    <3>2. config.tls_ca_file = Unset
      BY <2>4 DEF Valid
    <3>. QED
      BY <1>0, <2>1, <2>4, <3>1, <3>2, Dialled
  <2>. QED
    BY <2>2, <2>3, <2>4
<1>2. CASE New(c)
  <2>1. UNCHANGED <<configVars, job, provider>> /\ "offline" \in Answers /\ "config" \in Answers
    BY <1>2 DEF New, world, Answers
  <2>2. End(c, "offline", NoClient) \/ End(c, "config", NoClient)
    BY <1>2 DEF New
  <2>. QED
    BY <2>1, <2>2, Ended
<1>3. CASE Join(c)
  <2>1. /\ call[c].at = "tls" /\ UNCHANGED <<configVars, job, provider>>
        /\ {"config", "provider", "connection"} \subseteq Answers
    BY <1>3 DEF Join, world, Answers
  <2>2. \/ \E o \in {"config", "provider", "connection"} : End(c, o, NoClient)
        \/ job[c] \in {"public", "withFile"} /\ Dial(c, call[c].given, job[c])
    BY <1>3 DEF Join
  <2>3. CASE job[c] \in {"public", "withFile"} /\ Dial(c, call[c].given, job[c])
    <3>1. Valid(call[c].given) /\ (job[c] = "withFile") = (call[c].given.tls_ca_file # Unset)
      BY <1>0, <2>1, <2>3 DEF SoundNow, Sound
    <3>. QED
      BY <1>0, <2>1, <2>3, <3>1, Dialled
  <2>. QED
    BY <2>1, <2>2, <2>3, Ended
<1>4. CASE Built(c)
  <2>1. UNCHANGED <<configVars, job, provider>> /\ "ok" \in Answers
    BY <1>4 DEF Built, world, Answers
  <2>2. \A e : ClassifyRskafka(e) \in Answers
    BY DEF ClassifyRskafka, ClassifyProtocol, Answers
  <2>3. \/ End(c, "ok", result[c].client)
        \/ \E o \in Answers : End(c, o, NoClient)
    BY <1>4, <2>2 DEF Built
  <2>. QED
    BY <2>1, <2>3, Ended
<1>5. CASE TimedOut(c) \/ Dropped(c)
  <2>1. /\ UNCHANGED <<configVars, job, provider>>
        /\ \E o \in {"timeout", "dropped"} : End(c, o, NoClient)
    BY <1>5 DEF TimedOut, Dropped, world
  <2>2. {"timeout", "dropped"} \subseteq Answers
    BY DEF Answers
  <2>. QED
    BY <2>1, <2>2, Ended
<1>. QED
  BY <1>1, <1>2, <1>3, <1>4, <1>5 DEF CallNext

\* The steps of a call's task.
LEMMA TaskSteps == ASSUME IndInv, NEW c \in Calls, JobNext(c) PROVE IndInv'
<1>0. SoundNow(c)
  BY DEF IndInv
<1>. USE DEF SoundNow, Sound, Tasks
<1>1. CASE Install(c)
  <2>. DEFINE to == IF provider = "none" THEN "roots" ELSE "check"
  <2>1. JobStep(c, "install", to) /\ to \in Tasks /\ provider' # "none"
    BY <1>1 DEF Install
  <2>2. Sound(call[c].at, call[c].given, to, result[c].client, provider' # "none")
    BY <1>0, <2>1 DEF JobStep
  <2>. QED
    BY <2>1, <2>2, JobMoved
<1>2. CASE Check(c)
  <2>1. JobStep(c, "check", "roots") /\ provider' = provider /\ provider # "none"
    BY <1>0, <1>2 DEF Check, JobStep
  <2>2. Sound(call[c].at, call[c].given, "roots", result[c].client, provider' # "none")
    BY <1>0, <2>1 DEF JobStep
  <2>. QED
    BY <2>1, <2>2, JobMoved
<1>3. CASE Roots(c)
  <2>. DEFINE to ==
         IF call[c].given.tls_ca_file = Unset THEN "public"
         ELSE IF call[c].given.tls_ca_file = "blank" \/ caFile \in {"missing", "huge"} THEN "refused"
         ELSE "read"
  <2>1. JobStep(c, "roots", to) /\ provider' = provider
    BY <1>3, Zenon DEF Roots
  <2>2. to \in {"public", "refused", "read"} /\ (to = "public" <=> call[c].given.tls_ca_file = Unset)
    BY DEF Unset
  <2>. HIDE DEF to
  <2>3. Sound(call[c].at, call[c].given, to, result[c].client, provider' # "none")
    BY <1>0, <2>1, <2>2 DEF JobStep
  <2>. QED
    BY <2>1, <2>2, <2>3, JobMoved
<1>4. CASE Read(c)
  <2>1. provider' = provider
    BY <1>4 DEF Read
  <2>2. PICK to \in {"withFile", "refused"} : JobStep(c, "read", to)
    BY <1>4 DEF Read
  <2>3. Sound(call[c].at, call[c].given, to, result[c].client, provider' # "none")
    BY <1>0, <2>1, <2>2 DEF JobStep
  <2>. QED
    BY <2>1, <2>2, <2>3, JobMoved
<1>5. CASE Lost(c)
  <2>1. provider' = provider
    BY <1>5 DEF Lost
  <2>2. PICK from \in {"install", "check", "roots", "read"} : JobStep(c, from, "lost")
    BY <1>5 DEF Lost
  <2>3. Sound(call[c].at, call[c].given, "lost", result[c].client, provider' # "none")
    BY <1>0, <2>1, <2>2 DEF JobStep
  <2>. QED
    BY <2>1, <2>2, <2>3, JobMoved
<1>. QED
  BY <1>1, <1>2, <1>3, <1>4, <1>5 DEF JobNext

\* Every step keeps the invariant.
LEMMA StepInv == IndInv /\ [Next]_vars => IndInv'
<1>. SUFFICES ASSUME IndInv, [Next]_vars PROVE IndInv'
  OBVIOUS
<1>1. ASSUME UNCHANGED callVars, ConfigShape', provider # "none" => provider' # "none"
      PROVE  IndInv'
  BY <1>1, StaysSound DEF IndInv, CallsTyped, SoundNow, callVars
<1>2. CASE Configure
  <2>1. ConfigShape' /\ UNCHANGED callVars /\ provider' = provider
    BY <1>2, ConfigStays DEF Configure, IndInv
  <2>. QED
    BY <1>1, <2>1
<1>3. CASE OtherInstalls
  <2>1. ConfigShape' /\ UNCHANGED callVars
    BY <1>3 DEF OtherInstalls, IndInv, ConfigShape, configVars
  <2>. QED
    BY <1>1, <1>3, <2>1 DEF OtherInstalls
<1>4. ASSUME NEW file \in CaFiles, ReplaceCa(file) PROVE IndInv'
  <2>1. ConfigShape' /\ UNCHANGED callVars /\ provider' = provider
    BY <1>4 DEF ReplaceCa, IndInv, ConfigShape, configVars
  <2>. QED
    BY <1>1, <2>1
<1>5. CASE UNCHANGED vars
  <2>1. ConfigShape' /\ UNCHANGED callVars /\ provider' = provider
    BY <1>5 DEF vars, world, IndInv, ConfigShape, configVars
  <2>. QED
    BY <1>1, <2>1
<1>. QED
  BY <1>2, <1>3, <1>4, <1>5, CallStep, TaskSteps DEF Next

\* The invariant holds in every reachable state.
THEOREM Invariance == Spec => []IndInv
BY InitInv, StepInv, PTL DEF Spec

\* No broker but a local one is dialled in clear, whatever is done to the
\* configuration between its validation and the call, by any number of calls and
\* writes (validate.rs:39-46).
THEOREM ClearCorrect == Spec => []NothingInClear
<1>1. IndInv => NothingInClear
  <2>. SUFFICES ASSUME IndInv, NEW c \in Calls,
                       ~result[c].client.tls
                PROVE  result[c].client.brokers \subseteq {"loopback"}
    BY DEF NothingInClear
  <2>1. CASE result[c].client = NoClient
    BY <2>1 DEF NoClient
  <2>2. CASE result[c].client # NoClient
    <3>1. Valid(call[c].given) /\ Fits(result[c].client, call[c].given)
      BY <2>2 DEF IndInv, SoundNow, Sound
    <3>. QED
      BY <3>1 DEF Valid, SafeBrokers, Fits
  <2>. QED
    BY <2>1, <2>2
<1>. QED
  BY <1>1, Invariance, PTL

\* What a pool says of its security is what its client does (config.rs:123-130,
\* connect.rs:65-77).
THEOREM ClientCorrect == Spec => []ClientMatchesConfig
<1>1. IndInv => ClientMatchesConfig
  <2>. SUFFICES ASSUME IndInv, NEW c \in Calls, result[c].client # NoClient
                PROVE  LET client == result[c].client
                           given  == call[c].given
                       IN  /\ client.sasl = (given.sasl_mechanism # Unset)
                           /\ client.tls = (given.tls = "true")
                           /\ (client.roots = "withFile") = (given.tls_ca_file # Unset)
    BY DEF ClientMatchesConfig
  <2>1. Valid(call[c].given) /\ Fits(result[c].client, call[c].given)
    BY DEF IndInv, SoundNow, Sound
  <2>2. (\A f \in Secrets : call[c].given[f] # Unset) <=> call[c].given.sasl_mechanism # Unset
    BY <2>1 DEF Valid, CredentialsFit, Secrets, Unset
  <2>. QED
    BY <2>1, <2>2 DEF Fits
<1>. QED
  BY <1>1, Invariance, PTL

\* The race for the provider has no loser, among any number of calls
\* (connect.rs:110-123).
THEOREM ProviderCorrect == Spec => []ProviderRaceIsBenign
<1>1. IndInv => ProviderRaceIsBenign
  BY DEF IndInv, SoundNow, Sound, ProviderRaceIsBenign
<1>. QED
  BY <1>1, Invariance, PTL
-----------------------------------------------------------------------------
(***************************************************************************)
(* The types.  A field has a value of its own kind, as the value of a      *)
(* layer has, and a call has a client while it dials and once it is "ok".  *)
(***************************************************************************)
LayerTyped == \A f \in DOMAIN layer : f \in Fields \cup {"stranger"} /\ layer[f] \in Values(f)

Kinds == {c \in Configs : \A f \in Fields : c[f] \in Typed(f) \cup {Unset}}

WorldTyped ==
  /\ provider \in {"none", "kafkax", "other"} /\ caFile \in CaFiles /\ replaced \in BOOLEAN

ClientHeld(c) ==
  (result[c].client # NoClient) <=> (call[c].at = "dialing" \/ result[c].outcome = "ok")

ConfigTyped ==
  /\ settings \in 0..MaxSettings
  /\ phase \in {"open", "building", "accepted", "rejected"}
  /\ config \in Kinds /\ LayerTyped

TypeInv == ConfigTyped /\ WorldTyped /\ \A c \in Calls : ClientHeld(c)

LEMMA DefaultKind == Default \in Kinds
<1>1. \A f \in Fields : Default[f] \in Typed(f) \cup {Unset}
  BY DEF Default, Fields, Typed, Values, Secrets, Unset
<1>. QED
  BY <1>1, DefaultShape DEF Kinds

LEMMA OverKinds ==
  ASSUME NEW upper, NEW below \in Kinds, DOMAIN upper \subseteq Fields,
         \A f \in DOMAIN upper : upper[f] \in Words,
         \A f \in DOMAIN upper : upper[f] \in Typed(f) \cup {Unset}
  PROVE  Over(upper, below) \in Kinds
<1>1. Over(upper, below) \in Configs
  BY OverTyped DEF Kinds
<1>2. DOMAIN below = Fields
  BY DEF Kinds, Configs
<1>3. \A f \in Fields : Over(upper, below)[f] \in Typed(f) \cup {Unset}
  BY <1>2 DEF Over, Kinds
<1>. QED
  BY <1>1, <1>3 DEF Kinds

\* A field of a configuration is set to a value of its kind.
LEMMA FieldSet ==
  ASSUME NEW c \in Kinds, NEW f \in Fields, NEW v \in Typed(f) \cup {Unset}
  PROVE  [c EXCEPT ![f] = v] \in Kinds
<1>1. v \in Words
  BY ValuesTyped DEF Typed, Words
<1>. QED
  BY <1>1 DEF Kinds, Configs

\* Whatever is set, loaded or built, every field keeps its kind (config/).
LEMMA KindsStay == ASSUME ConfigTyped, ConfigShape, ConfigStep PROVE ConfigTyped'
<1>0. settings \in 0..MaxSettings /\ config \in Kinds /\ MaxSettings \in Nat
  BY SettingsAssumption DEF ConfigTyped
<1>1. ASSUME NEW readable, NEW c, readable => c \in Kinds, Adopt(readable, c)
      PROVE  ConfigTyped'
  BY <1>0, <1>1, DefaultKind DEF Adopt, ConfigTyped, LayerTyped
<1>2. ASSUME NEW c \in Kinds, Setter(c) PROVE ConfigTyped'
  BY <1>0, <1>2 DEF Setter, Setting, ConfigTyped, LayerTyped
<1>3. CASE FromToml
  <2>1. ASSUME TomlReadable PROVE Over(layer, Default) \in Kinds
    <3>1. DOMAIN layer \subseteq Fields
      BY <2>1 DEF TomlReadable, Public
    <3>2. \A f \in DOMAIN layer : layer[f] \in Words /\ layer[f] \in Typed(f)
      BY <2>1, <3>1 DEF TomlReadable, Garbled, ConfigShape, ConfigTyped, LayerTyped, Typed
    <3>. QED
      BY <3>1, <3>2, DefaultKind, OverKinds
  <2>. QED
    BY <1>1, <1>3, <2>1 DEF FromToml
<1>4. CASE FromEnv
  <2>1. ASSUME ~Garbled PROVE Overlay(Default) \in Kinds
    <3>. DEFINE off == "sasl_mechanism" \in DOMAIN layer
                         /\ layer["sasl_mechanism"] \in {"blank", "none"}
                below == [f \in Fields |-> IF off /\ f \in Secrets \cup {"sasl_mechanism"}
                                             THEN Unset ELSE Default[f]]
                used == {f \in DOMAIN layer \cap Fields :
                           /\ layer[f] = "blank" => f \in Secrets
                           /\ f = "sasl_mechanism" => ~off}
                upper == [f \in used |-> IF layer[f] = "blank" THEN Unset ELSE layer[f]]
    <3>0. Unset \in Words
      BY DEF Words
    <3>1. below \in Kinds
      BY <3>0, DefaultKind DEF Kinds, Configs
    <3>2. DOMAIN upper \subseteq Fields
      OBVIOUS
    <3>3. \A f \in DOMAIN upper : upper[f] \in Words /\ upper[f] \in Typed(f) \cup {Unset}
      BY <2>1, <3>0 DEF ConfigShape, Garbled, ConfigTyped, LayerTyped, Typed
    <3>4. Overlay(Default) = Over(upper, below)
      BY Zenon DEF Overlay
    <3>. HIDE DEF upper, below
    <3>. QED
      BY <3>1, <3>2, <3>3, <3>4, OverKinds
  <2>. QED
    BY <1>1, <1>4, <2>1 DEF FromEnv
<1>5. CASE NewBuilder
  BY <1>0, <1>5, DefaultKind DEF NewBuilder, ConfigTyped, LayerTyped
<1>6. CASE NoSasl
  <2>1. [f \in Fields |-> IF f \in Secrets \cup {"sasl_mechanism"} THEN Unset ELSE config[f]]
          \in Kinds
    BY <1>0 DEF Kinds, Configs, Words
  <2>. QED
    BY <1>2, <1>6, <2>1 DEF NoSasl
<1>7. CASE Build
  BY <1>0, <1>1, <1>7 DEF Build
<1>8. ASSUME NEW f \in Fields \cup {"stranger"}, NEW v \in Values(f), Write(f, v)
      PROVE  ConfigTyped'
  <2>1. LayerTyped'
    <3>1. \A g \in DOMAIN layer' : /\ g # f => g \in DOMAIN layer /\ layer'[g] = layer[g]
                                   /\ g = f => layer'[g] = v
      BY <1>8 DEF Write, Over
    <3>. QED
      BY <3>1 DEF ConfigTyped, LayerTyped
  <2>. QED
    BY <1>0, <1>8, <2>1 DEF Write, Setting, ConfigTyped
<1>9. ASSUME NEW f \in Public, NEW v \in Typed(f), SetField(f, v) PROVE ConfigTyped'
  <2>1. [config EXCEPT ![f] = v] \in Kinds
    BY <1>0, FieldSet DEF Public
  <2>. QED
    BY <1>2, <1>9, <2>1 DEF SetField
<1>10. ASSUME NEW f \in Public, NEW v \in Editable(f), Edit(f, v) PROVE ConfigTyped'
  <2>1. v \in Typed(f) \cup {Unset}
    BY DEF Editable
  <2>2. [config EXCEPT ![f] = v] \in Kinds
    BY <1>0, <2>1, FieldSet DEF Public
  <2>. QED
    BY <1>0, <1>10, <2>2 DEF Edit, Setting, ConfigTyped, LayerTyped
<1>11. ASSUME NEW u \in Typed("sasl_username"), NEW p \in Typed("sasl_password"), SaslPlain(u, p)
       PROVE  ConfigTyped'
  <2>1. /\ {"sasl_mechanism", "sasl_username", "sasl_password"} \subseteq Fields
        /\ "plain" \in Typed("sasl_mechanism")
    BY DEF Fields, Default, Typed, Values, Secrets
  <2>2. [config EXCEPT !.sasl_mechanism = "plain", !.sasl_username = u, !.sasl_password = p]
          \in Kinds
    BY <1>0, <2>1, FieldSet
  <2>. QED
    BY <1>2, <1>11, <2>2 DEF SaslPlain
<1>. QED
  BY <1>3, <1>4, <1>5, <1>6, <1>7, <1>8, <1>9, <1>10, <1>11 DEF ConfigStep

\* A call has a client while it dials and once it is "ok", and no other call's
\* step gives it one or takes it (connect.rs:14-20, 57-81).
LEMMA ClientStays ==
  ASSUME IndInv, NEW c \in Calls, ClientHeld(c), CallNext(c)
  PROVE  ClientHeld(c)'
<1>0. /\ call \in [Calls -> [at : Places, given : Configs]]
      /\ result \in [Calls -> [outcome : Answers, client : Clients]]
      /\ SoundNow(c)
  BY DEF IndInv, CallsTyped
<1>1. ASSUME NEW o, o # "ok", End(c, o, NoClient) PROVE ClientHeld(c)'
  BY <1>0, <1>1 DEF End, ClientHeld
<1>2. ASSUME NEW given, NEW roots, Valid(given), Dial(c, given, roots) PROVE ClientHeld(c)'
  <2>. DEFINE sasl   == \A f \in Secrets : given[f] # Unset
              client == [tls |-> given.tls = "true", sasl |-> sasl,
                         brokers |-> Addresses(given.brokers), roots |-> roots]
  <2>1. CASE ~sasl /\ given.sasl_mechanism # Unset
    <3>1. End(c, "config", NoClient)
      BY <1>2, <2>1 DEF Dial
    <3>. QED
      BY <1>1, <3>1
  <2>2. CASE ~(~sasl /\ given.sasl_mechanism # Unset)
    <3>1. /\ call' = [call EXCEPT ![c] = [at |-> "dialing", given |-> given]]
          /\ result' = [result EXCEPT ![c] = [outcome |-> "none", client |-> client]]
      BY <1>2, <2>2 DEF Dial
    <3>2. client.brokers # NoClient.brokers
      BY <1>2 DEF Valid, SafeBrokers, NoClient
    <3>3. client # NoClient
      BY <3>2
    <3>. HIDE DEF client
    <3>. QED
      BY <1>0, <3>1, <3>3 DEF ClientHeld
  <2>. QED
    BY <2>1, <2>2
<1>3. CASE Connect(c)
  <2>1. CASE ~Valid(config)
    BY <1>1, <1>3, <2>1 DEF Connect
  <2>2. CASE Valid(config) /\ config.tls = "true"
    <3>1. /\ call[c].at = "idle" /\ result' = result
          /\ call' = [call EXCEPT ![c] = [at |-> "tls", given |-> config]]
      BY <1>3, <2>2 DEF Connect, Admit
    <3>. QED
      BY <1>0, <3>1 DEF ClientHeld
  <2>3. CASE Valid(config) /\ config.tls # "true"
    <3>1. Dial(c, config, "none")
      BY <1>3, <2>3 DEF Connect
    <3>. QED
      BY <1>2, <2>3, <3>1
  <2>. QED
    BY <2>1, <2>2, <2>3
<1>4. CASE New(c)
  BY <1>1, <1>4 DEF New
<1>5. CASE Join(c)
  <2>1. call[c].at = "tls" /\ Valid(call[c].given)
    BY <1>0, <1>5 DEF Join, SoundNow, Sound
  <2>2. \/ \E o \in {"config", "provider", "connection"} : End(c, o, NoClient)
        \/ Dial(c, call[c].given, job[c])
    BY <1>5 DEF Join
  <2>. QED
    BY <1>1, <1>2, <2>1, <2>2
<1>6. CASE Built(c)
  <2>1. \A e : ClassifyRskafka(e) # "ok"
    BY DEF ClassifyRskafka, ClassifyProtocol
  <2>2. CASE End(c, "ok", result[c].client)
    BY <1>0, <1>6, <2>2 DEF Built, End, ClientHeld
  <2>. QED
    BY <1>1, <1>6, <2>1, <2>2 DEF Built
<1>7. CASE TimedOut(c) \/ Dropped(c)
  BY <1>1, <1>7 DEF TimedOut, Dropped
<1>. QED
  BY <1>3, <1>4, <1>5, <1>6, <1>7 DEF CallNext

LEMMA TypeStep == IndInv /\ TypeInv /\ [Next]_vars => TypeInv'
<1>. SUFFICES ASSUME IndInv, TypeInv, [Next]_vars PROVE TypeInv'
  OBVIOUS
<1>1. ASSUME UNCHANGED configVars PROVE ConfigTyped'
  BY <1>1 DEF TypeInv, ConfigTyped, LayerTyped, configVars
<1>2. ASSUME UNCHANGED <<call, result>> PROVE \A c \in Calls : ClientHeld(c)'
  BY <1>2 DEF TypeInv, ClientHeld
<1>3. CASE Configure
  <2>1. ConfigTyped'
    BY <1>3, KindsStay DEF Configure, IndInv, TypeInv
  <2>2. WorldTyped'
    BY <1>3 DEF Configure, TypeInv, WorldTyped
  <2>. QED
    BY <1>2, <1>3, <2>1, <2>2 DEF Configure, callVars, TypeInv
<1>4. CASE OtherInstalls
  BY <1>1, <1>2, <1>4 DEF OtherInstalls, callVars, TypeInv, WorldTyped
<1>5. ASSUME NEW file \in CaFiles, ReplaceCa(file) PROVE TypeInv'
  BY <1>1, <1>2, <1>5 DEF ReplaceCa, callVars, TypeInv, WorldTyped
<1>6. ASSUME NEW c \in Calls, CallNext(c) PROVE TypeInv'
  <2>1. UNCHANGED world
    BY <1>6 DEF CallNext, Connect, New, Join, Built, TimedOut, Dropped
  <2>2. ConfigTyped' /\ WorldTyped'
    BY <1>1, <2>1 DEF world, TypeInv, WorldTyped
  <2>3. ASSUME NEW d \in Calls, d # c PROVE ClientHeld(d)'
    <3>1. call'[d] = call[d] /\ result'[d] = result[d]
      BY <1>6, <2>3 DEF CallNext, Connect, New, Join, Built, TimedOut, Dropped, Dial, End,
                        IndInv, CallsTyped
    <3>. QED
      BY <3>1 DEF TypeInv, ClientHeld
  <2>4. ClientHeld(c)'
    BY <1>6, ClientStays DEF TypeInv
  <2>. QED
    BY <2>2, <2>3, <2>4 DEF TypeInv
<1>7. ASSUME NEW c \in Calls, JobNext(c) PROVE TypeInv'
  <2>1. UNCHANGED <<configVars, replaced, caFile, call, result>>
    BY <1>7 DEF JobNext, Install, Check, Roots, Read, Lost, JobStep
  <2>2. provider' \in {provider, "kafkax"}
    BY <1>7 DEF JobNext, Install, Check, Roots, Read, Lost
  <2>. QED
    BY <1>1, <1>2, <2>1, <2>2 DEF TypeInv, WorldTyped
<1>8. CASE UNCHANGED vars
  BY <1>1, <1>2, <1>8 DEF vars, world, callVars, TypeInv, WorldTyped
<1>. QED
  BY <1>3, <1>4, <1>5, <1>6, <1>7, <1>8 DEF Next

\* Every variable keeps its type, whatever is written to the configuration and
\* whatever is at the path of the CA file, and exactly the calls in the making and
\* the open pools have a client (connect.rs:14-20, 57-81).
THEOREM TypeCorrect == Spec => []TypeOK
<1>1. Init => TypeInv
  <2>. SUFFICES ASSUME Init PROVE TypeInv
    OBVIOUS
  <2>1. ConfigTyped
    BY DefaultKind, SettingsAssumption DEF Init, InitConfig, ConfigTyped, LayerTyped
  <2>2. WorldTyped
    BY DEF Init, WorldTyped
  <2>3. \A c \in Calls : ClientHeld(c)
    BY DEF Init, ClientHeld
  <2>. QED
    BY <2>1, <2>2, <2>3 DEF TypeInv
<1>2. IndInv /\ TypeInv => TypeOK
  <2>. SUFFICES ASSUME IndInv, TypeInv PROVE TypeOK
    OBVIOUS
  <2>1. ConfigTypeOK
    BY DEF TypeInv, ConfigTyped, LayerTyped, Kinds, Configs, ConfigTypeOK
  <2>2. \A c \in Calls : call[c].at \in Places /\ job[c] \in Tasks
    BY DEF IndInv, CallsTyped
  <2>3. \A c \in Calls :
          (result[c].client # NoClient) = (call[c].at = "dialing" \/ result[c].outcome = "ok")
    BY Zenon DEF TypeInv, ClientHeld
  <2>. QED
    BY <2>1, <2>2, <2>3 DEF TypeOK, TypeInv, WorldTyped, Places, Tasks
<1>. QED
  BY <1>1, <1>2, Invariance, TypeStep, PTL DEF Spec
=============================================================================
