---------------------------- MODULE MCConfiguration -----------------------------
(* Two storage locations and a backup, or a remote cluster and a restore:   *)
(* the controllers of the two share nothing that a joint run would show.    *)
EXTENDS Configuration

CONSTANTS l1, l2, r1

MCLocations == {l1, l2}
MCByName == <<l1, l2>>
MCRemotes == {r1}

Location(type, parts, bucket, server, path, default) ==
  [type |-> type, parts |-> parts, bucket |-> bucket, server |-> server, path |-> path,
   default |-> default]

Bucket == Location("s3", {"s3"}, "b", "", "", FALSE)
NoBucket == Location("s3", {}, "", "", "", FALSE)
DefaultExport == Location("nfs", {"nfs"}, "", "server", "/exports", TRUE)
NoPath == Location("nfs", {"nfs"}, "", "server", "", TRUE)

MCLocationSpecs == {Bucket, NoBucket, DefaultExport, NoPath}

Remote(method, ca, insecure) ==
  [method |-> method, apiServer |-> "api", ca |-> ca, insecure |-> insecure]

ByToken == Remote("ServiceAccountToken", "", FALSE)
ByTokenAndCA == Remote("", "ca2", FALSE)
Insecure == Remote("ServiceAccountToken", "", TRUE)
ByKubeconfig == Remote("Kubeconfig", "", FALSE)

MCRemoteSpecs == {ByToken, ByTokenAndCA, Insecure, ByKubeconfig}

Token == [k \in {"token", "ca.crt"} |-> IF k = "token" THEN "t1" ELSE "ca1"]
FileConfig == [host |-> "api", token |-> "t2", insecure |-> FALSE, ca |-> "ca1"]
File == [k \in {"kubeconfig"} |-> FileConfig]

MCSecrets == {None, Token, File}

Config(ca) == [host |-> "api", token |-> "t1", insecure |-> FALSE, ca |-> ca]

MCAnswers == {{}, {Config("ca1"), Config("ca2"), FileConfig}}

\* A default among two locations, one location that is named, or a remote cluster.
LocationScenarios ==
  {[objects |-> [n \in {l1, l2} |-> IF n = l1 THEN NewObject(DefaultExport)
                                              ELSE NewObject(Bucket)],
    ref |-> AnyLocation, secret |-> None, answers |-> {}],
   [objects |-> [n \in {l1} |-> NewObject(DefaultExport)],
    ref |-> l1, secret |-> None, answers |-> {}]}

RemoteScenarios ==
  {[objects |-> [n \in {r1} |-> NewObject(ByTokenAndCA)], ref |-> AnyLocation,
    secret |-> Token, answers |-> {}]}

MCScenarios == LocationScenarios \cup RemoteScenarios
================================================================================
