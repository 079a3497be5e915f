----------------------------- MODULE RemoteClusters -----------------------------
(***************************************************************************)
(* The validation of RemoteClusters, which asks the remote cluster itself, *)
(* and the restore worker that builds its own configuration of one.        *)
(*                                                                         *)
(* A spec is [method, apiServer, ca, insecure].  The data of a secret is a *)
(* function from some of "token", "ca.crt" and "kubeconfig"; a kubeconfig  *)
(* is the configuration it stands for, or None when it cannot be parsed.   *)
(* All RemoteClusters of a behaviour share one secret.                     *)
(***************************************************************************)
EXTENDS ConfigObjects

CONSTANTS
  RemoteSpecs,      \* specs that users write
  Secrets,          \* data that users put into the secret
  Answers           \* what may answer: sets of configurations

VARIABLES
  secret,           \* the data of the secret, or None
  cachedSecret,     \* the same in the informer cache
  answers,          \* configurations the remote cluster answers now
  restore,          \* a restore worker that builds its target's configuration
  answered          \* auxiliary: what was answered, for which spec and secret

remoteVars == <<secret, cachedSecret, answers, restore, answered>>

-----------------------------------------------------------------------------
(* buildRemoteConfig, and its copy in the restore worker.                  *)

Kubeconfig(data) == IF "kubeconfig" \in DOMAIN data THEN data["kubeconfig"] ELSE None

TokenConfig(spec, data, ca) ==
  IF "token" \in DOMAIN data
    THEN [host |-> spec.apiServer, token |-> data["token"], insecure |-> spec.insecure,
          ca |-> ca]
    ELSE None

SecretCA(data) == IF "ca.crt" \in DOMAIN data THEN data["ca.crt"] ELSE ""

BuildRemoteConfig(spec, data) ==
  CASE spec.method = "Kubeconfig" -> Kubeconfig(data)
    [] spec.method \in {"ServiceAccountToken", ""} ->
         TokenConfig(spec, data, IF spec.ca # "" THEN spec.ca ELSE SecretCA(data))
    [] OTHER -> None

\* Mutant: the bundle of the spec is forgotten.
RestoreConfigSecretCA(spec, data) ==
  IF spec.method = "Kubeconfig" THEN Kubeconfig(data)
  ELSE TokenConfig(spec, data, SecretCA(data))

BuildRemoteConfigForRestore(spec, data) ==
  IF spec.method = "Kubeconfig" THEN Kubeconfig(data)
  ELSE IF spec.method \notin {"ServiceAccountToken", ""} THEN None
  ELSE TokenConfig(spec, data, IF spec.ca # "" THEN spec.ca ELSE SecretCA(data))

\* client-go refuses an insecure configuration with certificates.
ClientBuilds(config) == ~(config.insecure /\ config.ca # "")

-----------------------------------------------------------------------------
(* The controller of RemoteClusters.                                       *)

ReconcileRemote(n) ==
  /\ Begin(n, [NewCall(n) EXCEPT !.pc = "secret"])
  /\ UNCHANGED remoteVars

ToCall(next) ==
  /\ call' = [call EXCEPT !["remote"] = next]
  /\ UNCHANGED <<objects, fresh, cache, queue, edits, secret, cachedSecret, answers, restore>>

ConfigPhase(spec, data) ==
  CASE data = None -> "no secret"
    [] data # None /\ BuildRemoteConfig(spec, data) = None -> "no credentials"
    [] data # None /\ BuildRemoteConfig(spec, data) # None ->
         IF ClientBuilds(BuildRemoteConfig(spec, data)) THEN "" ELSE "no client"

\* The secret is read from the cache, the configuration is built from it.
ReadSecret ==
  LET c == call["remote"]
      phase == ConfigPhase(c.read.spec, cachedSecret)
  IN  /\ c # None /\ c.pc = "secret"
      /\ ToCall(IF phase # "" THEN [c EXCEPT !.pc = "update", !.phase = phase]
                ELSE [c EXCEPT !.pc = "probe", !.secret = cachedSecret,
                        !.config = BuildRemoteConfig(c.read.spec, cachedSecret)])
      /\ UNCHANGED <<failures, answered>>

\* The List call that proves the cluster reachable, with ten seconds to answer.
Probe ==
  LET c == call["remote"] IN
  /\ c # None /\ c.pc = "probe" /\ c.config \in answers
  /\ ToCall([c EXCEPT !.pc = "update", !.phase = "reachable"])
  /\ answered' = answered \cup {[spec |-> c.read.spec, secret |-> c.secret, config |-> c.config]}
  /\ UNCHANGED failures

\* Mutant: the old message stays when there is no answer.
ProbeFailsSilently ==
  LET c == call["remote"] IN
  /\ c # None /\ c.pc = "probe"
  /\ IF c.config \in answers THEN Fails ELSE UNCHANGED failures
  /\ ToCall(None)
  /\ UNCHANGED answered

ProbeFails ==
  LET c == call["remote"] IN
  /\ c # None /\ c.pc = "probe"
  /\ IF c.config \in answers THEN Fails ELSE UNCHANGED failures
  /\ ToCall([c EXCEPT !.pc = "update", !.phase = "unreachable"])
  /\ UNCHANGED answered

-----------------------------------------------------------------------------
(* The restore worker reads the RemoteCluster and its secret anew.         *)

NewRestore == [pc |-> "starting", remote |-> None, secret |-> None, config |-> None]

GetRemote(n) ==
  /\ restore.pc = "starting" /\ n \in DOMAIN objects
  /\ restore' = IF Present(n) THEN [restore EXCEPT !.pc = "secret", !.remote = objects[n]]
                              ELSE [restore EXCEPT !.pc = "failed"]
  /\ UNCHANGED <<configVars, secret, cachedSecret, answers, answered>>

GetRemoteSecret ==
  /\ restore.pc = "secret"
  /\ LET config == IF secret = None THEN None
                   ELSE BuildRemoteConfigForRestore(restore.remote.spec, secret)
     IN  restore' = IF config = None THEN [restore EXCEPT !.pc = "failed"]
                    ELSE [restore EXCEPT !.pc = "configured", !.secret = secret,
                            !.config = config]
  /\ UNCHANGED <<configVars, secret, cachedSecret, answers, answered>>

-----------------------------------------------------------------------------
(* The secret and the world outside.  Changes of neither cause an event of *)
(* a RemoteCluster.                                                        *)

SecretChanges(data) ==
  /\ data # secret /\ Changes
  /\ secret' = data
  /\ UNCHANGED <<objects, fresh, cache, queue, call, failures, cachedSecret, answers,
                 restore, answered>>

SyncSecret ==
  /\ cachedSecret # secret
  /\ cachedSecret' = secret
  /\ UNCHANGED <<configVars, secret, answers, restore, answered>>

AnswersChange(configs) ==
  /\ configs # answers /\ Changes
  /\ answers' = configs
  /\ UNCHANGED <<objects, fresh, cache, queue, call, failures, secret, cachedSecret,
                 restore, answered>>

-----------------------------------------------------------------------------
(* Properties.                                                             *)

SaysReachable(o) == Observed(o) /\ o.status.phase = "reachable"

\* When a restore targets a RemoteCluster that says "reachable" of its present
\* generation, some configuration of that very spec has been answered, and if the
\* secret is the one used then, the worker builds that same configuration: no
\* status outlives an edit or the object itself, and the two builders agree
\* (remotecluster_controller.go:81, worker_restore.go:339-381).
RestoreTargetAnswered ==
  (restore.pc = "configured" /\ SaysReachable(restore.remote))
    => \E a \in answered :
         /\ a.spec = restore.remote.spec
         /\ a.secret = restore.secret => a.config = restore.config

TruePhase(o) ==
  IF ConfigPhase(o.spec, secret) # "" THEN ConfigPhase(o.spec, secret)
  ELSE IF BuildRemoteConfig(o.spec, secret) \in answers THEN "reachable" ELSE "unreachable"

\* Once users, the secret and the network are left alone, the message of a
\* RemoteCluster tells the truth for good, although errors of most updates are
\* dropped and neither secrets nor reachability cause events: the resync is what
\* finds them (remotecluster_controller.go:52-78).
RemoteStatusSettles ==
  \A n \in Remotes :
    <>[](Present(n) => /\ Observed(objects[n])
                       /\ objects[n].status.phase = TruePhase(objects[n]))

================================================================================
