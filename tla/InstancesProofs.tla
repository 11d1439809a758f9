---------------------------- MODULE InstancesProofs ----------------------------
(****************************************************************************)
(* Theorems about Instances, for any instances, addresses, releases,        *)
(* operations and bounds.                                                   *)
(****************************************************************************)
EXTENDS Instances, FiniteSetTheorems, TLAPS

----------------------------------------------------------------------------
(* The steps of each kind of operation                                      *)

Writers == {"install", "prepare", "clone", "restore", "import"}
Fresh == {"prepare", "clone", "import"}
Marks == {"disable", "keep", "enable"}

\* Step t comes before place n in an operation of that kind.
Prior(kind, n, t) == \E m \in 1..(n - 1) : Steps[kind][m] = t

LEMMA KindsAre ==
  DOMAIN Steps = Writers \union Marks \union
    {"address", "env", "mailer", "delete", "purge", "backup", "update", "repair"}
BY DEF Steps, Writers, Marks

LEMMA WriterSteps ==
  /\ Len(Steps["install"]) = 9 /\ Steps["install"][1] = "reclaim"
     /\ Steps["install"][2] = "secrets" /\ Steps["install"][3] = "compose"
     /\ Steps["install"][4] = "manifest" /\ Steps["install"][5] = "lock"
     /\ Steps["install"][6] = "look" /\ Steps["install"][7] = "register"
     /\ Steps["install"][8] = "up" /\ Steps["install"][9] = "provision"
  /\ Len(Steps["prepare"]) = 6 /\ Steps["prepare"][1] = "secrets"
     /\ Steps["prepare"][2] = "compose" /\ Steps["prepare"][3] = "manifest"
     /\ Steps["prepare"][4] = "lock" /\ Steps["prepare"][5] = "look"
     /\ Steps["prepare"][6] = "register"
  /\ Len(Steps["clone"]) = 8 /\ Steps["clone"][1] = "renew" /\ Steps["clone"][2] = "compose"
     /\ Steps["clone"][3] = "manifest" /\ Steps["clone"][4] = "lock" /\ Steps["clone"][5] = "look"
     /\ Steps["clone"][6] = "register" /\ Steps["clone"][7] = "copy" /\ Steps["clone"][8] = "up"
  /\ Len(Steps["restore"]) = 9 /\ Steps["restore"][1] = "save" /\ Steps["restore"][2] = "stop"
     /\ Steps["restore"][3] = "import" /\ Steps["restore"][4] = "compose"
     /\ Steps["restore"][5] = "manifest" /\ Steps["restore"][6] = "lock"
     /\ Steps["restore"][7] = "look" /\ Steps["restore"][8] = "register"
     /\ Steps["restore"][9] = "up"
  /\ Len(Steps["import"]) = 10 /\ Steps["import"][1] = "renew" /\ Steps["import"][2] = "stop"
     /\ Steps["import"][3] = "import" /\ Steps["import"][4] = "compose"
     /\ Steps["import"][5] = "manifest" /\ Steps["import"][6] = "lock"
     /\ Steps["import"][7] = "look" /\ Steps["import"][8] = "register"
     /\ Steps["import"][9] = "up" /\ Steps["import"][10] = "migrate"
BY DEF Steps, InstallSteps, PrepareSteps, CloneSteps, RestoreSteps, ImportSteps,
  WriteAll

LEMMA OtherSteps ==
  /\ Len(Steps["address"]) = 5 /\ Steps["address"][1] = "compose"
     /\ Steps["address"][2] = "manifest" /\ Steps["address"][3] = "look"
     /\ Steps["address"][4] = "relist" /\ Steps["address"][5] = "up"
  /\ Len(Steps["env"]) = 2 /\ Steps["env"][1] = "manifest" /\ Steps["env"][2] = "up"
  /\ Len(Steps["mailer"]) = 1 /\ Steps["mailer"][1] = "up"
  /\ Len(Steps["disable"]) = 2 /\ Steps["disable"][1] = "stop" /\ Steps["disable"][2] = "mark"
  /\ Len(Steps["keep"]) = 2 /\ Steps["keep"][1] = "down" /\ Steps["keep"][2] = "mark"
  /\ Len(Steps["enable"]) = 2 /\ Steps["enable"][1] = "up" /\ Steps["enable"][2] = "mark"
  /\ Len(Steps["delete"]) = 3 /\ Steps["delete"][1] = "down" /\ Steps["delete"][2] = "rmdir"
     /\ Steps["delete"][3] = "unlist"
  /\ Len(Steps["purge"]) = 4 /\ Steps["purge"][1] = "down" /\ Steps["purge"][2] = "wipe"
     /\ Steps["purge"][3] = "rmdir" /\ Steps["purge"][4] = "unlist"
  /\ Len(Steps["backup"]) = 1 /\ Steps["backup"][1] = "save"
  /\ Len(Steps["update"]) = 2 /\ Steps["update"][1] = "save" /\ Steps["update"][2] = "upgrade"
  /\ Len(Steps["repair"]) = 2 /\ Steps["repair"][1] = "manifest" /\ Steps["repair"][2] = "enlist"
BY DEF Steps, AddressSteps, EnvSteps, MailerSteps, DisableSteps, EnableSteps, DeleteSteps,
  RepairSteps

\* The operations that have a step.
Has(kind, s) ==
  /\ s \in {"reclaim", "provision"} => kind = "install"
  /\ s = "secrets" => kind \in {"install", "prepare"}
  /\ s = "renew" => kind \in {"clone", "import"}
  /\ s = "compose" => kind \in Writers \union {"address"}
  /\ s = "manifest" => kind \in Writers \union {"address", "env", "repair"}
  /\ s \in {"lock", "register"} => kind \in Writers
  /\ s = "look" => kind \in Writers \union {"address"}
  /\ s = "relist" => kind = "address"
  /\ s = "enlist" => kind = "repair"
  /\ s = "mark" => kind \in Marks
  /\ s \in {"rmdir", "unlist"} => kind \in {"delete", "purge"}
  /\ s = "up" => kind \in {"install", "clone", "address", "env", "mailer", "enable", "restore", "import"}
  /\ s = "stop" => kind \in {"disable", "restore", "import"}
  /\ s = "down" => kind \in {"keep", "delete", "purge"}
  /\ s = "wipe" => kind = "purge"
  /\ s = "import" => kind \in {"restore", "import"}
  /\ s = "copy" => kind = "clone"
  /\ s = "migrate" => kind = "import"
  /\ s = "save" => kind \in {"backup", "update", "restore"}
  /\ s = "upgrade" => kind = "update"

\* The steps after which an operation is over.
Ends(kind, s) ==
  \/ s \in {"provision", "mark", "unlist", "upgrade", "migrate", "enlist"}
  \/ s = "up" /\ kind \notin {"install", "enable", "import"}
  \/ s = "register" /\ kind = "prepare"
  \/ s = "save" /\ kind = "backup"

\* What an operation has done before a step, and what it has not.
Ordered(kind, n, s) ==
  /\ ~Prior(kind, n, s)
  /\ s = "secrets" /\ kind = "install" => Prior(kind, n, "reclaim")
  /\ s \in {"manifest", "lock"} /\ kind \notin {"env", "repair"} => Prior(kind, n, "compose")
  /\ s \in {"compose", "manifest", "lock", "register", "up"} /\ kind = "restore" =>
       Prior(kind, n, "import") /\ Prior(kind, n, "save")
  /\ s \in {"stop", "import"} /\ kind = "restore" => Prior(kind, n, "save")
  /\ s = "register" \/ (s = "up" /\ kind \in Writers) =>
       Prior(kind, n, "compose") /\ Prior(kind, n, "manifest") /\ Prior(kind, n, "lock")
  /\ s = "up" /\ kind \in Writers => Prior(kind, n, "register")
  /\ s \in {"relist", "up"} /\ kind = "address" =>
       Prior(kind, n, "compose") /\ Prior(kind, n, "manifest")
  /\ s = "up" /\ kind = "address" => Prior(kind, n, "relist")
  /\ s = "up" /\ kind = "clone" => Prior(kind, n, "copy")
  /\ s = "up" /\ kind = "import" => Prior(kind, n, "import")
  /\ s = "up" /\ kind = "install" => Prior(kind, n, "reclaim")
  /\ s \in {"provision", "migrate"} =>
       /\ Prior(kind, n, "compose") /\ Prior(kind, n, "manifest") /\ Prior(kind, n, "lock")
       /\ Prior(kind, n, "register") /\ Prior(kind, n, "up")
  /\ s = "provision" => Prior(kind, n, "reclaim")
  /\ s = "migrate" => Prior(kind, n, "import")
  /\ s \in {"wipe", "rmdir", "unlist"} => Prior(kind, n, "down")
  /\ s = "unlist" => Prior(kind, n, "rmdir")
  /\ s = "mark" /\ kind = "disable" => Prior(kind, n, "stop")
  /\ s = "renew" => ~Prior(kind, n, "copy") /\ ~Prior(kind, n, "import")
  /\ s = "stop" => ~Prior(kind, n, "import")
  /\ s = "save" => ~Prior(kind, n, "import") /\ ~Prior(kind, n, "compose")
  /\ s \in {"reclaim", "stop", "import"} => ~Prior(kind, n, "up")

LEMMA StepFacts ==
  ASSUME NEW kind \in DOMAIN Steps, NEW n \in 1..Len(Steps[kind])
  PROVE  LET s == Steps[kind][n]
         IN  /\ Has(kind, s)
             /\ n = Len(Steps[kind]) <=> Ends(kind, s)
             /\ Ordered(kind, n, s)
             /\ n < Len(Steps[kind]) /\ Steps[kind][n + 1] \in {"register", "relist"} => s = "look"
<1>1. CASE kind = "install"
  <2>0. n = 1 \/ n = 2 \/ n = 3 \/ n = 4 \/ n = 5 \/ n = 6 \/ n = 7 \/ n = 8 \/ n = 9
    BY <1>1, WriterSteps
  <2>1. CASE n = 1
    <3>1. \A t : Prior(kind, 1, t) <=> t \in {}
      BY <1>1, WriterSteps DEF Prior
    <3> QED BY <1>1, <2>1, <3>1, WriterSteps DEF Has, Ends, Ordered, Writers, Marks
  <2>2. CASE n = 2
    <3>1. \A t : Prior(kind, 2, t) <=> t \in {"reclaim"}
      BY <1>1, WriterSteps DEF Prior
    <3> QED BY <1>1, <2>2, <3>1, WriterSteps DEF Has, Ends, Ordered, Writers, Marks
  <2>3. CASE n = 3
    <3>1. \A t : Prior(kind, 3, t) <=> t \in {"reclaim", "secrets"}
      BY <1>1, WriterSteps DEF Prior
    <3> QED BY <1>1, <2>3, <3>1, WriterSteps DEF Has, Ends, Ordered, Writers, Marks
  <2>4. CASE n = 4
    <3>1. \A t : Prior(kind, 4, t) <=> t \in {"reclaim", "secrets", "compose"}
      BY <1>1, WriterSteps DEF Prior
    <3> QED BY <1>1, <2>4, <3>1, WriterSteps DEF Has, Ends, Ordered, Writers, Marks
  <2>5. CASE n = 5
    <3>1. \A t : Prior(kind, 5, t) <=> t \in {"reclaim", "secrets", "compose", "manifest"}
      BY <1>1, WriterSteps DEF Prior
    <3> QED BY <1>1, <2>5, <3>1, WriterSteps DEF Has, Ends, Ordered, Writers, Marks
  <2>6. CASE n = 6
    <3>1. \A t : Prior(kind, 6, t) <=> t \in {"reclaim", "secrets", "compose", "manifest", "lock"}
      BY <1>1, WriterSteps DEF Prior
    <3> QED BY <1>1, <2>6, <3>1, WriterSteps DEF Has, Ends, Ordered, Writers, Marks
  <2>7. CASE n = 7
    <3>1. \A t : Prior(kind, 7, t) <=> t \in {"reclaim", "secrets", "compose", "manifest", "lock", "look"}
      BY <1>1, WriterSteps DEF Prior
    <3> QED BY <1>1, <2>7, <3>1, WriterSteps DEF Has, Ends, Ordered, Writers, Marks
  <2>8. CASE n = 8
    <3>1. \A t : Prior(kind, 8, t) <=> t \in {"reclaim", "secrets", "compose", "manifest", "lock", "look", "register"}
      BY <1>1, WriterSteps DEF Prior
    <3> QED BY <1>1, <2>8, <3>1, WriterSteps DEF Has, Ends, Ordered, Writers, Marks
  <2>9. CASE n = 9
    <3>1. \A t : Prior(kind, 9, t) <=> t \in {"reclaim", "secrets", "compose", "manifest", "lock", "look", "register", "up"}
      BY <1>1, WriterSteps DEF Prior
    <3> QED BY <1>1, <2>9, <3>1, WriterSteps DEF Has, Ends, Ordered, Writers, Marks
  <2> QED BY <2>0, <2>1, <2>2, <2>3, <2>4, <2>5, <2>6, <2>7, <2>8, <2>9
<1>2. CASE kind = "prepare"
  <2>0. n = 1 \/ n = 2 \/ n = 3 \/ n = 4 \/ n = 5 \/ n = 6
    BY <1>2, WriterSteps
  <2>1. CASE n = 1
    <3>1. \A t : Prior(kind, 1, t) <=> t \in {}
      BY <1>2, WriterSteps DEF Prior
    <3> QED BY <1>2, <2>1, <3>1, WriterSteps DEF Has, Ends, Ordered, Writers, Marks
  <2>2. CASE n = 2
    <3>1. \A t : Prior(kind, 2, t) <=> t \in {"secrets"}
      BY <1>2, WriterSteps DEF Prior
    <3> QED BY <1>2, <2>2, <3>1, WriterSteps DEF Has, Ends, Ordered, Writers, Marks
  <2>3. CASE n = 3
    <3>1. \A t : Prior(kind, 3, t) <=> t \in {"secrets", "compose"}
      BY <1>2, WriterSteps DEF Prior
    <3> QED BY <1>2, <2>3, <3>1, WriterSteps DEF Has, Ends, Ordered, Writers, Marks
  <2>4. CASE n = 4
    <3>1. \A t : Prior(kind, 4, t) <=> t \in {"secrets", "compose", "manifest"}
      BY <1>2, WriterSteps DEF Prior
    <3> QED BY <1>2, <2>4, <3>1, WriterSteps DEF Has, Ends, Ordered, Writers, Marks
  <2>5. CASE n = 5
    <3>1. \A t : Prior(kind, 5, t) <=> t \in {"secrets", "compose", "manifest", "lock"}
      BY <1>2, WriterSteps DEF Prior
    <3> QED BY <1>2, <2>5, <3>1, WriterSteps DEF Has, Ends, Ordered, Writers, Marks
  <2>6. CASE n = 6
    <3>1. \A t : Prior(kind, 6, t) <=> t \in {"secrets", "compose", "manifest", "lock", "look"}
      BY <1>2, WriterSteps DEF Prior
    <3> QED BY <1>2, <2>6, <3>1, WriterSteps DEF Has, Ends, Ordered, Writers, Marks
  <2> QED BY <2>0, <2>1, <2>2, <2>3, <2>4, <2>5, <2>6
<1>3. CASE kind = "clone"
  <2>0. n = 1 \/ n = 2 \/ n = 3 \/ n = 4 \/ n = 5 \/ n = 6 \/ n = 7 \/ n = 8
    BY <1>3, WriterSteps
  <2>1. CASE n = 1
    <3>1. \A t : Prior(kind, 1, t) <=> t \in {}
      BY <1>3, WriterSteps DEF Prior
    <3> QED BY <1>3, <2>1, <3>1, WriterSteps DEF Has, Ends, Ordered, Writers, Marks
  <2>2. CASE n = 2
    <3>1. \A t : Prior(kind, 2, t) <=> t \in {"renew"}
      BY <1>3, WriterSteps DEF Prior
    <3> QED BY <1>3, <2>2, <3>1, WriterSteps DEF Has, Ends, Ordered, Writers, Marks
  <2>3. CASE n = 3
    <3>1. \A t : Prior(kind, 3, t) <=> t \in {"renew", "compose"}
      BY <1>3, WriterSteps DEF Prior
    <3> QED BY <1>3, <2>3, <3>1, WriterSteps DEF Has, Ends, Ordered, Writers, Marks
  <2>4. CASE n = 4
    <3>1. \A t : Prior(kind, 4, t) <=> t \in {"renew", "compose", "manifest"}
      BY <1>3, WriterSteps DEF Prior
    <3> QED BY <1>3, <2>4, <3>1, WriterSteps DEF Has, Ends, Ordered, Writers, Marks
  <2>5. CASE n = 5
    <3>1. \A t : Prior(kind, 5, t) <=> t \in {"renew", "compose", "manifest", "lock"}
      BY <1>3, WriterSteps DEF Prior
    <3> QED BY <1>3, <2>5, <3>1, WriterSteps DEF Has, Ends, Ordered, Writers, Marks
  <2>6. CASE n = 6
    <3>1. \A t : Prior(kind, 6, t) <=> t \in {"renew", "compose", "manifest", "lock", "look"}
      BY <1>3, WriterSteps DEF Prior
    <3> QED BY <1>3, <2>6, <3>1, WriterSteps DEF Has, Ends, Ordered, Writers, Marks
  <2>7. CASE n = 7
    <3>1. \A t : Prior(kind, 7, t) <=> t \in {"renew", "compose", "manifest", "lock", "look", "register"}
      BY <1>3, WriterSteps DEF Prior
    <3> QED BY <1>3, <2>7, <3>1, WriterSteps DEF Has, Ends, Ordered, Writers, Marks
  <2>8. CASE n = 8
    <3>1. \A t : Prior(kind, 8, t) <=> t \in {"renew", "compose", "manifest", "lock", "look", "register", "copy"}
      BY <1>3, WriterSteps DEF Prior
    <3> QED BY <1>3, <2>8, <3>1, WriterSteps DEF Has, Ends, Ordered, Writers, Marks
  <2> QED BY <2>0, <2>1, <2>2, <2>3, <2>4, <2>5, <2>6, <2>7, <2>8
<1>4. CASE kind = "restore"
  <2>0. n = 1 \/ n = 2 \/ n = 3 \/ n = 4 \/ n = 5 \/ n = 6 \/ n = 7 \/ n = 8 \/ n = 9
    BY <1>4, WriterSteps
  <2>1. CASE n = 1
    <3>1. \A t : Prior(kind, 1, t) <=> t \in {}
      BY <1>4, WriterSteps DEF Prior
    <3> QED BY <1>4, <2>1, <3>1, WriterSteps DEF Has, Ends, Ordered, Writers, Marks
  <2>2. CASE n = 2
    <3>1. \A t : Prior(kind, 2, t) <=> t \in {"save"}
      BY <1>4, WriterSteps DEF Prior
    <3> QED BY <1>4, <2>2, <3>1, WriterSteps DEF Has, Ends, Ordered, Writers, Marks
  <2>3. CASE n = 3
    <3>1. \A t : Prior(kind, 3, t) <=> t \in {"save", "stop"}
      BY <1>4, WriterSteps DEF Prior
    <3> QED BY <1>4, <2>3, <3>1, WriterSteps DEF Has, Ends, Ordered, Writers, Marks
  <2>4. CASE n = 4
    <3>1. \A t : Prior(kind, 4, t) <=> t \in {"save", "stop", "import"}
      BY <1>4, WriterSteps DEF Prior
    <3> QED BY <1>4, <2>4, <3>1, WriterSteps DEF Has, Ends, Ordered, Writers, Marks
  <2>5. CASE n = 5
    <3>1. \A t : Prior(kind, 5, t) <=> t \in {"save", "stop", "import", "compose"}
      BY <1>4, WriterSteps DEF Prior
    <3> QED BY <1>4, <2>5, <3>1, WriterSteps DEF Has, Ends, Ordered, Writers, Marks
  <2>6. CASE n = 6
    <3>1. \A t : Prior(kind, 6, t) <=> t \in {"save", "stop", "import", "compose", "manifest"}
      BY <1>4, WriterSteps DEF Prior
    <3> QED BY <1>4, <2>6, <3>1, WriterSteps DEF Has, Ends, Ordered, Writers, Marks
  <2>7. CASE n = 7
    <3>1. \A t : Prior(kind, 7, t) <=> t \in {"save", "stop", "import", "compose", "manifest", "lock"}
      BY <1>4, WriterSteps DEF Prior
    <3> QED BY <1>4, <2>7, <3>1, WriterSteps DEF Has, Ends, Ordered, Writers, Marks
  <2>8. CASE n = 8
    <3>1. \A t : Prior(kind, 8, t) <=> t \in {"save", "stop", "import", "compose", "manifest", "lock", "look"}
      BY <1>4, WriterSteps DEF Prior
    <3> QED BY <1>4, <2>8, <3>1, WriterSteps DEF Has, Ends, Ordered, Writers, Marks
  <2>9. CASE n = 9
    <3>1. \A t : Prior(kind, 9, t) <=> t \in {"save", "stop", "import", "compose", "manifest", "lock", "look", "register"}
      BY <1>4, WriterSteps DEF Prior
    <3> QED BY <1>4, <2>9, <3>1, WriterSteps DEF Has, Ends, Ordered, Writers, Marks
  <2> QED BY <2>0, <2>1, <2>2, <2>3, <2>4, <2>5, <2>6, <2>7, <2>8, <2>9
<1>5. CASE kind = "import"
  <2>0. n = 1 \/ n = 2 \/ n = 3 \/ n = 4 \/ n = 5 \/ n = 6 \/ n = 7 \/ n = 8 \/ n = 9 \/ n = 10
    BY <1>5, WriterSteps
  <2>1. CASE n = 1
    <3>1. \A t : Prior(kind, 1, t) <=> t \in {}
      BY <1>5, WriterSteps DEF Prior
    <3> QED BY <1>5, <2>1, <3>1, WriterSteps DEF Has, Ends, Ordered, Writers, Marks
  <2>2. CASE n = 2
    <3>1. \A t : Prior(kind, 2, t) <=> t \in {"renew"}
      BY <1>5, WriterSteps DEF Prior
    <3> QED BY <1>5, <2>2, <3>1, WriterSteps DEF Has, Ends, Ordered, Writers, Marks
  <2>3. CASE n = 3
    <3>1. \A t : Prior(kind, 3, t) <=> t \in {"renew", "stop"}
      BY <1>5, WriterSteps DEF Prior
    <3> QED BY <1>5, <2>3, <3>1, WriterSteps DEF Has, Ends, Ordered, Writers, Marks
  <2>4. CASE n = 4
    <3>1. \A t : Prior(kind, 4, t) <=> t \in {"renew", "stop", "import"}
      BY <1>5, WriterSteps DEF Prior
    <3> QED BY <1>5, <2>4, <3>1, WriterSteps DEF Has, Ends, Ordered, Writers, Marks
  <2>5. CASE n = 5
    <3>1. \A t : Prior(kind, 5, t) <=> t \in {"renew", "stop", "import", "compose"}
      BY <1>5, WriterSteps DEF Prior
    <3> QED BY <1>5, <2>5, <3>1, WriterSteps DEF Has, Ends, Ordered, Writers, Marks
  <2>6. CASE n = 6
    <3>1. \A t : Prior(kind, 6, t) <=> t \in {"renew", "stop", "import", "compose", "manifest"}
      BY <1>5, WriterSteps DEF Prior
    <3> QED BY <1>5, <2>6, <3>1, WriterSteps DEF Has, Ends, Ordered, Writers, Marks
  <2>7. CASE n = 7
    <3>1. \A t : Prior(kind, 7, t) <=> t \in {"renew", "stop", "import", "compose", "manifest", "lock"}
      BY <1>5, WriterSteps DEF Prior
    <3> QED BY <1>5, <2>7, <3>1, WriterSteps DEF Has, Ends, Ordered, Writers, Marks
  <2>8. CASE n = 8
    <3>1. \A t : Prior(kind, 8, t) <=> t \in {"renew", "stop", "import", "compose", "manifest", "lock", "look"}
      BY <1>5, WriterSteps DEF Prior
    <3> QED BY <1>5, <2>8, <3>1, WriterSteps DEF Has, Ends, Ordered, Writers, Marks
  <2>9. CASE n = 9
    <3>1. \A t : Prior(kind, 9, t) <=> t \in {"renew", "stop", "import", "compose", "manifest", "lock", "look", "register"}
      BY <1>5, WriterSteps DEF Prior
    <3> QED BY <1>5, <2>9, <3>1, WriterSteps DEF Has, Ends, Ordered, Writers, Marks
  <2>10. CASE n = 10
    <3>1. \A t : Prior(kind, 10, t) <=> t \in {"renew", "stop", "import", "compose", "manifest", "lock", "look", "register", "up"}
      BY <1>5, WriterSteps DEF Prior
    <3> QED BY <1>5, <2>10, <3>1, WriterSteps DEF Has, Ends, Ordered, Writers, Marks
  <2> QED BY <2>0, <2>1, <2>2, <2>3, <2>4, <2>5, <2>6, <2>7, <2>8, <2>9, <2>10
<1>6. CASE kind = "address"
  <2>0. n = 1 \/ n = 2 \/ n = 3 \/ n = 4 \/ n = 5
    BY <1>6, OtherSteps
  <2>1. CASE n = 1
    <3>1. \A t : Prior(kind, 1, t) <=> t \in {}
      BY <1>6, OtherSteps DEF Prior
    <3> QED BY <1>6, <2>1, <3>1, OtherSteps DEF Has, Ends, Ordered, Writers, Marks
  <2>2. CASE n = 2
    <3>1. \A t : Prior(kind, 2, t) <=> t \in {"compose"}
      BY <1>6, OtherSteps DEF Prior
    <3> QED BY <1>6, <2>2, <3>1, OtherSteps DEF Has, Ends, Ordered, Writers, Marks
  <2>3. CASE n = 3
    <3>1. \A t : Prior(kind, 3, t) <=> t \in {"compose", "manifest"}
      BY <1>6, OtherSteps DEF Prior
    <3> QED BY <1>6, <2>3, <3>1, OtherSteps DEF Has, Ends, Ordered, Writers, Marks
  <2>4. CASE n = 4
    <3>1. \A t : Prior(kind, 4, t) <=> t \in {"compose", "manifest", "look"}
      BY <1>6, OtherSteps DEF Prior
    <3> QED BY <1>6, <2>4, <3>1, OtherSteps DEF Has, Ends, Ordered, Writers, Marks
  <2>5. CASE n = 5
    <3>1. \A t : Prior(kind, 5, t) <=> t \in {"compose", "manifest", "look", "relist"}
      BY <1>6, OtherSteps DEF Prior
    <3> QED BY <1>6, <2>5, <3>1, OtherSteps DEF Has, Ends, Ordered, Writers, Marks
  <2> QED BY <2>0, <2>1, <2>2, <2>3, <2>4, <2>5
<1>7. CASE kind = "env"
  <2>0. n = 1 \/ n = 2
    BY <1>7, OtherSteps
  <2>1. CASE n = 1
    <3>1. \A t : Prior(kind, 1, t) <=> t \in {}
      BY <1>7, OtherSteps DEF Prior
    <3> QED BY <1>7, <2>1, <3>1, OtherSteps DEF Has, Ends, Ordered, Writers, Marks
  <2>2. CASE n = 2
    <3>1. \A t : Prior(kind, 2, t) <=> t \in {"manifest"}
      BY <1>7, OtherSteps DEF Prior
    <3> QED BY <1>7, <2>2, <3>1, OtherSteps DEF Has, Ends, Ordered, Writers, Marks
  <2> QED BY <2>0, <2>1, <2>2
<1>8. CASE kind = "mailer"
  <2>0. n = 1
    BY <1>8, OtherSteps
  <2>1. CASE n = 1
    <3>1. \A t : Prior(kind, 1, t) <=> t \in {}
      BY <1>8, OtherSteps DEF Prior
    <3> QED BY <1>8, <2>1, <3>1, OtherSteps DEF Has, Ends, Ordered, Writers, Marks
  <2> QED BY <2>0, <2>1
<1>9. CASE kind = "disable"
  <2>0. n = 1 \/ n = 2
    BY <1>9, OtherSteps
  <2>1. CASE n = 1
    <3>1. \A t : Prior(kind, 1, t) <=> t \in {}
      BY <1>9, OtherSteps DEF Prior
    <3> QED BY <1>9, <2>1, <3>1, OtherSteps DEF Has, Ends, Ordered, Writers, Marks
  <2>2. CASE n = 2
    <3>1. \A t : Prior(kind, 2, t) <=> t \in {"stop"}
      BY <1>9, OtherSteps DEF Prior
    <3> QED BY <1>9, <2>2, <3>1, OtherSteps DEF Has, Ends, Ordered, Writers, Marks
  <2> QED BY <2>0, <2>1, <2>2
<1>10. CASE kind = "keep"
  <2>0. n = 1 \/ n = 2
    BY <1>10, OtherSteps
  <2>1. CASE n = 1
    <3>1. \A t : Prior(kind, 1, t) <=> t \in {}
      BY <1>10, OtherSteps DEF Prior
    <3> QED BY <1>10, <2>1, <3>1, OtherSteps DEF Has, Ends, Ordered, Writers, Marks
  <2>2. CASE n = 2
    <3>1. \A t : Prior(kind, 2, t) <=> t \in {"down"}
      BY <1>10, OtherSteps DEF Prior
    <3> QED BY <1>10, <2>2, <3>1, OtherSteps DEF Has, Ends, Ordered, Writers, Marks
  <2> QED BY <2>0, <2>1, <2>2
<1>11. CASE kind = "enable"
  <2>0. n = 1 \/ n = 2
    BY <1>11, OtherSteps
  <2>1. CASE n = 1
    <3>1. \A t : Prior(kind, 1, t) <=> t \in {}
      BY <1>11, OtherSteps DEF Prior
    <3> QED BY <1>11, <2>1, <3>1, OtherSteps DEF Has, Ends, Ordered, Writers, Marks
  <2>2. CASE n = 2
    <3>1. \A t : Prior(kind, 2, t) <=> t \in {"up"}
      BY <1>11, OtherSteps DEF Prior
    <3> QED BY <1>11, <2>2, <3>1, OtherSteps DEF Has, Ends, Ordered, Writers, Marks
  <2> QED BY <2>0, <2>1, <2>2
<1>12. CASE kind = "delete"
  <2>0. n = 1 \/ n = 2 \/ n = 3
    BY <1>12, OtherSteps
  <2>1. CASE n = 1
    <3>1. \A t : Prior(kind, 1, t) <=> t \in {}
      BY <1>12, OtherSteps DEF Prior
    <3> QED BY <1>12, <2>1, <3>1, OtherSteps DEF Has, Ends, Ordered, Writers, Marks
  <2>2. CASE n = 2
    <3>1. \A t : Prior(kind, 2, t) <=> t \in {"down"}
      BY <1>12, OtherSteps DEF Prior
    <3> QED BY <1>12, <2>2, <3>1, OtherSteps DEF Has, Ends, Ordered, Writers, Marks
  <2>3. CASE n = 3
    <3>1. \A t : Prior(kind, 3, t) <=> t \in {"down", "rmdir"}
      BY <1>12, OtherSteps DEF Prior
    <3> QED BY <1>12, <2>3, <3>1, OtherSteps DEF Has, Ends, Ordered, Writers, Marks
  <2> QED BY <2>0, <2>1, <2>2, <2>3
<1>13. CASE kind = "purge"
  <2>0. n = 1 \/ n = 2 \/ n = 3 \/ n = 4
    BY <1>13, OtherSteps
  <2>1. CASE n = 1
    <3>1. \A t : Prior(kind, 1, t) <=> t \in {}
      BY <1>13, OtherSteps DEF Prior
    <3> QED BY <1>13, <2>1, <3>1, OtherSteps DEF Has, Ends, Ordered, Writers, Marks
  <2>2. CASE n = 2
    <3>1. \A t : Prior(kind, 2, t) <=> t \in {"down"}
      BY <1>13, OtherSteps DEF Prior
    <3> QED BY <1>13, <2>2, <3>1, OtherSteps DEF Has, Ends, Ordered, Writers, Marks
  <2>3. CASE n = 3
    <3>1. \A t : Prior(kind, 3, t) <=> t \in {"down", "wipe"}
      BY <1>13, OtherSteps DEF Prior
    <3> QED BY <1>13, <2>3, <3>1, OtherSteps DEF Has, Ends, Ordered, Writers, Marks
  <2>4. CASE n = 4
    <3>1. \A t : Prior(kind, 4, t) <=> t \in {"down", "wipe", "rmdir"}
      BY <1>13, OtherSteps DEF Prior
    <3> QED BY <1>13, <2>4, <3>1, OtherSteps DEF Has, Ends, Ordered, Writers, Marks
  <2> QED BY <2>0, <2>1, <2>2, <2>3, <2>4
<1>14. CASE kind = "backup"
  <2>0. n = 1
    BY <1>14, OtherSteps
  <2>1. CASE n = 1
    <3>1. \A t : Prior(kind, 1, t) <=> t \in {}
      BY <1>14, OtherSteps DEF Prior
    <3> QED BY <1>14, <2>1, <3>1, OtherSteps DEF Has, Ends, Ordered, Writers, Marks
  <2> QED BY <2>0, <2>1
<1>15. CASE kind = "update"
  <2>0. n = 1 \/ n = 2
    BY <1>15, OtherSteps
  <2>1. CASE n = 1
    <3>1. \A t : Prior(kind, 1, t) <=> t \in {}
      BY <1>15, OtherSteps DEF Prior
    <3> QED BY <1>15, <2>1, <3>1, OtherSteps DEF Has, Ends, Ordered, Writers, Marks
  <2>2. CASE n = 2
    <3>1. \A t : Prior(kind, 2, t) <=> t \in {"save"}
      BY <1>15, OtherSteps DEF Prior
    <3> QED BY <1>15, <2>2, <3>1, OtherSteps DEF Has, Ends, Ordered, Writers, Marks
  <2> QED BY <2>0, <2>1, <2>2
<1>16. CASE kind = "repair"
  <2>0. n = 1 \/ n = 2
    BY <1>16, OtherSteps
  <2>1. CASE n = 1
    <3>1. \A t : Prior(kind, 1, t) <=> t \in {}
      BY <1>16, OtherSteps DEF Prior
    <3> QED BY <1>16, <2>1, <3>1, OtherSteps DEF Has, Ends, Ordered, Writers, Marks
  <2>2. CASE n = 2
    <3>1. \A t : Prior(kind, 2, t) <=> t \in {"manifest"}
      BY <1>16, OtherSteps DEF Prior
    <3> QED BY <1>16, <2>2, <3>1, OtherSteps DEF Has, Ends, Ordered, Writers, Marks
  <2> QED BY <2>0, <2>1, <2>2
<1> QED BY <1>1, <1>2, <1>3, <1>4, <1>5, <1>6, <1>7, <1>8, <1>9, <1>10, <1>11, <1>12, <1>13, <1>14, <1>15, <1>16, KindsAre DEF Writers, Marks

----------------------------------------------------------------------------
(* How an operation goes on                                                 *)

Runs(k) == job[k].kind # "none"
Done(k, t) == Prior(job[k].kind, job[k].at, t)
LastPlace(k) == Len(Steps[job[k].kind])

LEMMA RunIs ==
  ASSUME TypeOK, NEW k \in Id, Runs(k)
  PROVE  /\ job[k] \in Job /\ job[k].kind \in DOMAIN Steps /\ job[k].on \in Id
         /\ job[k].at \in 1..LastPlace(k) /\ LastPlace(k) \in Nat
<1>1. job[k] \in Job /\ job[k].at \in 1..LastPlace(k)
  BY DEF TypeOK, Runs, LastPlace
<1>2. job[k].kind \in DOMAIN Steps /\ job[k].on \in Id
  BY <1>1 DEF Job, Runs
<1>3. LastPlace(k) \in Nat
  BY <1>2, KindsAre, WriterSteps, OtherSteps DEF LastPlace, Writers, Marks
<1> QED BY <1>1, <1>2, <1>3

LEMMA AtIs ==
  ASSUME TypeOK, NEW k \in Id, NEW s, At(k, s)
  PROVE  /\ Runs(k) /\ Has(job[k].kind, s)
         /\ job[k].at = LastPlace(k) <=> Ends(job[k].kind, s)
         /\ Ordered(job[k].kind, job[k].at, s)
         /\ \A t : At(k, t) => t = s
<1>1. Runs(k) /\ Steps[job[k].kind][job[k].at] = s
  BY DEF At, Runs
<1>2. job[k].kind \in DOMAIN Steps /\ job[k].at \in 1..LastPlace(k)
  BY <1>1, RunIs
<1> QED BY <1>1, <1>2, StepFacts DEF LastPlace, At

LEMMA DoneHas ==
  ASSUME TypeOK, NEW k \in Id, Runs(k), NEW t, Done(k, t)
  PROVE  Has(job[k].kind, t)
<1>1. PICK m \in 1..(job[k].at - 1) : Steps[job[k].kind][m] = t
  BY DEF Done, Prior
<1>2. job[k].kind \in DOMAIN Steps /\ job[k].at \in 1..LastPlace(k) /\ LastPlace(k) \in Nat
  BY RunIs
<1>3. m \in 1..Len(Steps[job[k].kind])
  BY <1>1, <1>2 DEF LastPlace
<1> QED BY <1>1, <1>2, <1>3, StepFacts

\* Job b is job a, at whatever place and with whatever it has read of the inventory.
Same(a, b) ==
  /\ b.kind = a.kind /\ b.on = a.on /\ b.config = a.config /\ b.head = a.head
  /\ b.snap = a.snap /\ b.had = a.had

Others(k) == \A e \in Id \ {k} : job'[e] = job[e]

Goes(k) ==
  /\ Others(k) /\ Same(job[k], job'[k]) /\ broken' = broken
  /\ job[k].at < LastPlace(k) /\ job'[k].at = job[k].at + 1

Over(k) ==
  /\ Others(k) /\ job'[k] = Idle(k) /\ job[k].at = LastPlace(k)
  /\ broken' = IF Mends(job[k]) THEN broken \ {job[k].on}
               ELSE IF Spoils(job[k]) THEN broken \union {job[k].on} ELSE broken

JobsOK ==
  /\ job \in [Id -> Job]
  /\ \A k \in Id : job[k].kind # "none" => job[k].at \in 1..Len(Steps[job[k].kind])

LEMMA IdleIs ==
  ASSUME NEW k \in Id
  PROVE  Idle(k) \in Job /\ Idle(k).kind = "none" /\ Idle(k).on = k
BY DEF Idle, Job, Snapshots, NoSnapshot, NoOne, Listing, Unlisted, Schema, Config, NoConfig

LEMMA Proceeds ==
  ASSUME TypeOK, NEW k \in Id, Runs(k), NEW j \in Job, Same(job[k], j), j.at = job[k].at,
         Proceed(k, j)
  PROVE  /\ JobsOK' /\ broken' \subseteq Id /\ UNCHANGED <<cleaner, count>>
         /\ \/ Goes(k) /\ job'[k].seen = j.seen /\ job'[k].saved = j.saved
            \/ Over(k)
<1>1. /\ job \in [Id -> Job] /\ job[k].at \in 1..LastPlace(k) /\ LastPlace(k) \in Nat
      /\ job[k].on \in Id /\ job[k].kind \in DOMAIN Steps
  BY RunIs DEF TypeOK
<1>2. Len(Steps[j.kind]) = LastPlace(k) /\ j.on = job[k].on
      /\ (Mends(j) <=> Mends(job[k])) /\ (Spoils(j) <=> Spoils(job[k]))
  BY DEF Same, LastPlace, Mends, Spoils
<1>3. CASE job[k].at = LastPlace(k)
  <2>1. job' = [job EXCEPT ![k] = Idle(k)]
    BY <1>2, <1>3 DEF Proceed
  <2>2. JobsOK'
    BY <1>1, <2>1, IdleIs DEF JobsOK, TypeOK
  <2>3. /\ UNCHANGED <<cleaner, count>>
        /\ broken' = IF Mends(job[k]) THEN broken \ {job[k].on}
                     ELSE IF Spoils(job[k]) THEN broken \union {job[k].on} ELSE broken
    BY <1>2, <1>3 DEF Proceed
  <2>4. broken' \subseteq Id
    BY <1>1, <2>3 DEF TypeOK
  <2> QED BY <1>1, <1>3, <2>1, <2>2, <2>3, <2>4 DEF Over, Others
<1>4. CASE job[k].at # LastPlace(k)
  <2> DEFINE u == [j EXCEPT !.at = @ + 1]
  <2>1. job' = [job EXCEPT ![k] = u] /\ broken' = broken /\ UNCHANGED <<cleaner, count>>
    BY <1>2, <1>4 DEF Proceed
  <2>2. job[k].at < LastPlace(k) /\ job[k].at + 1 \in 1..LastPlace(k) /\ job[k].at + 1 \in Nat
    BY <1>1, <1>4
  <2>3. /\ u \in Job /\ u.at = job[k].at + 1 /\ u.kind = j.kind /\ u.on = j.on
        /\ u.config = j.config /\ u.head = j.head /\ u.snap = j.snap /\ u.had = j.had
        /\ u.seen = j.seen /\ u.saved = j.saved
    BY <2>2 DEF Job
  <2> HIDE DEF u
  <2>4. job'[k] = u /\ Others(k) /\ job' \in [Id -> Job]
    BY <1>1, <2>1, <2>3 DEF Others
  <2>5. Same(job[k], job'[k]) /\ job'[k].kind = job[k].kind
    BY <2>3, <2>4 DEF Same
  <2>6. JobsOK'
    <3>1. job'[k].at \in 1..Len(Steps[job'[k].kind])
      BY <2>2, <2>3, <2>4, <2>5 DEF LastPlace
    <3> QED BY <2>4, <3>1 DEF JobsOK, TypeOK, Others
  <2> QED BY <2>1, <2>2, <2>3, <2>4, <2>5, <2>6 DEF Goes, TypeOK
<1> QED BY <1>3, <1>4

LEMMA DoneGoes ==
  ASSUME TypeOK, NEW k \in Id, Runs(k), Goes(k), NEW t
  PROVE  Done(k, t)' <=> Done(k, t) \/ At(k, t)
<1>1. /\ job[k].at \in Nat /\ job'[k].at = job[k].at + 1 /\ job'[k].kind = job[k].kind
  BY RunIs DEF Goes, Same
<1>2. \A m : m \in 1..(job'[k].at - 1) <=> m \in 1..(job[k].at - 1) \/ m = job[k].at
  <2>1. job[k].at \in 1..LastPlace(k)
    BY RunIs
  <2> QED BY <1>1, <2>1
<1> QED BY <1>1, <1>2 DEF Done, Prior, At, Runs

----------------------------------------------------------------------------
(* The inductive invariant                                                  *)

\* No two operations work on one instance, and a clone has its source to itself.
Alone ==
  /\ \A k \in Id : Runs(k) => (job[k].on = k <=> job[k].kind # "clone")
  /\ \A k, e \in Id : Runs(k) /\ Runs(e) /\ k # e =>
       /\ job[k].on # job[e].on
       /\ job[k].kind = "clone" => job[e].on # k /\ job[k].on # e

\* The clean-up has its id to itself, and knows what there is of it.
CleanerOK ==
  cleaner.phase # "rest" =>
    LET i == cleaner.on
    IN  /\ ~Busy(i)
        /\ cleaner.phase = "directory" => engine[i].stack = "none"
        /\ cleaner.wipe \/ engine[i].volume = 0
        /\ cleaner.remove \/ files[i] = NoFiles
        /\ ~stale => inventory[i] = Unlisted

\* Containers have a volume, and so has a schema.
Empty(i) == engine[i].volume = 0 => engine[i].schema = 0 /\ engine[i].stack = "none"

Opens(i) == files[i].secrets # 0 /\ engine[i].volume # 0 => Open(i)

Agree(i) == files[i].manifest = files[i].compose /\ files[i].lock = files[i].manifest.release

\* The schema fits the release the configuration names, and so do the containers.
Fits(i) ==
  /\ files[i].compose # NoConfig /\ engine[i].schema # 0 =>
       engine[i].schema = files[i].compose.release
  /\ engine[i].stack = "up" =>
       files[i].compose # NoConfig /\ engine[i].release = files[i].compose.release

Lists(i) ==
  /\ Listed(inventory, i) <=> files[i].manifest # NoConfig
  /\ inventory[i].domain = files[i].manifest.domain

NotUp(i) == inventory[i].status = "disabled" => engine[i].stack # "up"

\* What holds of an instance on which nothing has failed, between two operations.
Good(i) == Agree(i) /\ Fits(i) /\ (~stale => Lists(i) /\ NotUp(i))
Rested(i) == ~Busy(i) /\ i \notin broken => Good(i)

\* An instance that is listed is listed at an address.
Form(v) == IF v.status = "unlisted" THEN v = Unlisted ELSE v.domain \in Domain

\* A sound snapshot holds a schema that fits its release.
Sane(c, s) == s.sound => s.schema \in {0, c.release}
Saved(i) ==
  \A n \in 1..Len(backups[i]) :
    backups[i][n].config \in Config /\ Sane(backups[i][n].config, backups[i][n])

\* What an operation has made of the directory so far, and what is as it was.
FilesJob(k) ==
  LET kind == job[k].kind  i == job[k].on  c == job[k].config  f == files[i]
  IN  /\ kind \in Writers \union {"address", "repair"} => c \in Config
      /\ kind \in Writers \union {"address"} /\ Done(k, "compose") => f.compose = c
      /\ kind \in Writers \union {"address"} /\ Done(k, "manifest") => f.manifest = c
      /\ kind \in Writers /\ Done(k, "lock") => f.lock = c.release
      /\ kind = "address" => f.lock = c.release
      /\ kind \in {"delete", "purge"} /\ Done(k, "rmdir") => f = NoFiles
      /\ i \notin broken /\ ~Done(k, "compose") => Agree(i)
      /\ kind = "address" /\ i \notin broken => f.compose # NoConfig /\ f.compose.release = c.release
      /\ kind \in {"env", "repair"} /\ i \notin broken => f.manifest = c
      /\ kind = "update" =>
           c \in Config /\ c.domain = f.manifest.domain /\ c.release = f.lock + 1

\* Where there are no secrets yet, or new ones, there is no database yet.
SecretsJob(k) ==
  LET kind == job[k].kind  i == job[k].on
  IN  /\ kind \in Fresh /\ ~Done(k, "copy") /\ ~Done(k, "import") => engine[i].volume = 0
      /\ kind = "install" /\ Done(k, "reclaim") /\ files[i].secrets = 0 => engine[i].volume = 0

\* What it has made of the containers and the database.
DataJob(k) ==
  LET kind == job[k].kind  i == job[k].on  c == job[k].config  e == engine[i]  s == job[k].snap
  IN  /\ kind = "install" /\ e.schema # 0 /\ (files[i].secrets # 0 \/ Done(k, "reclaim")) =>
           e.schema = c.release
      /\ kind \in {"install", "import"} /\ Done(k, "up") => e.release = c.release
      /\ kind = "import" /\ Done(k, "import") /\ ~Done(k, "up") => e.stack # "up"
      /\ kind \in {"clone", "restore", "import"} => Sane(c, s)
      /\ kind \in {"clone", "restore", "import"} /\ s.sound /\ (Done(k, "copy") \/ Done(k, "import")) =>
           e.schema \in {0, c.release}
      /\ kind = "clone" /\ s.sound => engine[k].schema \in {0, c.release}
      /\ kind \notin Writers /\ i \notin broken => Fits(i)
      /\ kind = "restore" /\ ~Done(k, "import") /\ i \notin broken => Fits(i)
      /\ kind \in {"delete", "purge"} /\ Done(k, "down") => e.stack = "none"

Keepers == {"backup", "update", "env", "mailer", "disable", "keep", "enable", "repair"}

\* What it has read of the inventory, and written there.
ListJob(k) ==
  LET kind == job[k].kind  i == job[k].on  c == job[k].config  v == inventory[i]
      seen == job[k].seen[i]
  IN  /\ \A x \in Id : Form(job[k].seen[x])
      /\ kind \in Marks => seen.status # "unlisted"
      /\ ~stale =>
           /\ \/ kind \in Marks \union {"delete", "purge", "repair"}
              \/ At(k, "register") \/ At(k, "relist")
              => seen = v
           /\ Done(k, "register") => v = [status |-> "active", domain |-> c.domain]
           /\ kind \in {"env", "mailer", "address", "update"} => v.status = "active"
           /\ kind = "address" /\ Done(k, "relist") => v.domain = c.domain
           /\ kind = "disable" /\ Done(k, "stop") => engine[i].stack # "up"
           /\ kind \in Keepers /\ i \notin broken => Lists(i)
           /\ kind \in {"backup", "repair"} /\ i \notin broken => NotUp(i)
           /\ kind = "restore" /\ ~Done(k, "save") /\ i \notin broken => Lists(i) /\ NotUp(i)

\* What a restore found is in the database until it is in a backup.
RestoreJob(k) ==
  LET i == job[k].on
  IN  job[k].kind = "restore" =>
        /\ ~Done(k, "save") => ~job[k].saved /\ engine[i].content = job[k].had
        /\ Done(k, "save") =>
             job[k].saved /\ \E n \in 1..Len(backups[i]) : backups[i][n].content = job[k].had

JobOK(k) == FilesJob(k) /\ SecretsJob(k) /\ DataJob(k) /\ ListJob(k) /\ RestoreJob(k)
Whole(i) == Opens(i) /\ Empty(i) /\ Saved(i) /\ Form(inventory[i])

Coherent ==
  /\ TypeOK /\ Alone /\ CleanerOK
  /\ \A i \in Id : Whole(i) /\ Rested(i)
  /\ \A k \in Id : Runs(k) => JobOK(k)

----------------------------------------------------------------------------
(* A step of one operation concerns one instance                            *)

\* A step of operation k leaves all but its own instance alone.
Apart(k) ==
  LET i == job[k].on
  IN  /\ Others(k) /\ UNCHANGED cleaner
      /\ \A x \in Id \ {i} :
           /\ files'[x] = files[x] /\ engine'[x] = engine[x] /\ backups'[x] = backups[x]
           /\ x \in broken' <=> x \in broken
           /\ ~stale' => inventory'[x] = inventory[x]
           /\ Form(inventory'[x])
      /\ ~stale' => ~stale

LEMMA OthersOK ==
  ASSUME Coherent, NEW k \in Id, Runs(k), Apart(k),
         NEW e \in Id, e # k, Runs(e)
  PROVE  Runs(e)' /\ JobOK(e)'
<1> DEFINE x == job[e].on
<1>1. job'[e] = job[e] /\ x \in Id /\ x # job[k].on /\ (job[e].kind = "clone" => job[k].on # e)
  BY RunIs DEF Coherent, Alone, Apart, Others
<1>2. /\ files'[x] = files[x] /\ engine'[x] = engine[x] /\ backups'[x] = backups[x]
      /\ x \in broken' <=> x \in broken
      /\ ~stale' => ~stale /\ inventory'[x] = inventory[x]
      /\ job[e].kind = "clone" => engine'[e] = engine[e]
      /\ job'[e].on = x
  BY <1>1 DEF Apart
<1>3. JobOK(e)
  BY DEF Coherent
<1>4. \A t : (Done(e, t)' <=> Done(e, t)) /\ (At(e, t)' <=> At(e, t))
  BY <1>1 DEF Done, Prior, At
<1> HIDE DEF x
<1>5. FilesJob(e)'
  BY <1>1, <1>2, <1>3, <1>4 DEF JobOK, FilesJob, Agree, x
<1>6. SecretsJob(e)' /\ RestoreJob(e)'
  BY <1>1, <1>2, <1>3, <1>4 DEF JobOK, SecretsJob, RestoreJob, x
<1>7. DataJob(e)'
  BY <1>1, <1>2, <1>3, <1>4 DEF JobOK, DataJob, Fits, Sane, x
<1>8. ListJob(e)'
  BY <1>1, <1>2, <1>3, <1>4 DEF JobOK, ListJob, Lists, NotUp, Listed, Form, x
<1> QED BY <1>1, <1>5, <1>6, <1>7, <1>8 DEF JobOK, Runs

LEMMA StepKeeps ==
  ASSUME Coherent, NEW k \in Id, Runs(k), Apart(k), TypeOK',
         NEW i \in Id, i = job[k].on, Whole(i)',
         Runs(k)' => Same(job[k], job'[k]) /\ JobOK(k)',
         ~Runs(k)' /\ i \notin broken' => Good(i)'
  PROVE  Coherent'
<1>1. Busy(i)
  BY DEF Busy, Runs
<1>2. \A e \in Id : Runs(e)' => Runs(e) /\ job'[e].kind = job[e].kind /\ job'[e].on = job[e].on
  BY DEF Apart, Others, Same, Runs
<1>3. \A e \in Id \ {k} : Runs(e)' <=> Runs(e)
  BY DEF Apart, Others, Runs
<1>4. \A x \in Id : Busy(x)' => Busy(x)
  BY <1>2 DEF Busy, Runs
<1>5. Alone'
  BY <1>2 DEF Coherent, Alone
<1>6. CleanerOK'
  <2> SUFFICES ASSUME cleaner.phase # "rest" PROVE CleanerOK'
    BY DEF CleanerOK, Apart
  <2> DEFINE c == cleaner.on
  <2>1. c \in Id
    <3>1. cleaner \in {Resting} \union
            [phase : {"volumes", "directory"}, on : Id, wipe : BOOLEAN, remove : BOOLEAN]
      BY DEF Coherent, TypeOK
    <3> QED BY <3>1 DEF Resting
  <2>2. c # i /\ ~Busy(c)
    BY <1>1 DEF Coherent, CleanerOK
  <2>3. /\ files'[c] = files[c] /\ engine'[c] = engine[c] /\ cleaner' = cleaner
        /\ ~stale' => ~stale /\ inventory'[c] = inventory[c]
    BY <2>1, <2>2 DEF Apart
  <2>4. ~Busy(c)'
    BY <1>4, <2>1, <2>2, <2>3
  <2> QED BY <2>3, <2>4 DEF Coherent, CleanerOK
<1>7. ASSUME NEW x \in Id PROVE Whole(x)' /\ Rested(x)'
  <2>1. CASE x = i
    <3>1. ~Busy(i)' => ~Runs(k)'
      <4> SUFFICES ASSUME Runs(k)' PROVE Busy(i)'
        OBVIOUS
      <4>1. job'[k].on = i /\ job'[k].kind # "none"
        BY DEF Same, Runs
      <4> QED BY <4>1, <1>1 DEF Busy
    <3> QED BY <2>1, <3>1 DEF Rested
  <2>2. CASE x # i
    <3>1. /\ files'[x] = files[x] /\ engine'[x] = engine[x] /\ backups'[x] = backups[x]
          /\ x \in broken' <=> x \in broken
          /\ ~stale' => ~stale /\ inventory'[x] = inventory[x]
          /\ Form(inventory'[x])
      BY <2>2 DEF Apart
    <3>2. Whole(x) /\ Rested(x)
      BY DEF Coherent
    <3>3. Whole(x)'
      BY <3>1, <3>2 DEF Whole, Opens, Open, Empty, Saved, Form, Sane
    <3>4. ~Busy(x)' => ~Busy(x)
      <4> SUFFICES ASSUME Busy(x) PROVE Busy(x)'
        OBVIOUS
      <4>1. PICK e \in Id : Runs(e) /\ job[e].on = x
        BY DEF Busy, Runs
      <4>2. e # k /\ job'[e] = job[e]
        BY <2>2, <4>1 DEF Apart, Others
      <4> QED BY <4>1, <4>2 DEF Busy, Runs
    <3>5. Rested(x)'
      BY <3>1, <3>2, <3>4 DEF Rested, Good, Agree, Fits, Lists, NotUp, Listed
    <3> QED BY <3>3, <3>5
  <2> QED BY <2>1, <2>2
<1>8. ASSUME NEW e \in Id, Runs(e)' PROVE JobOK(e)'
  <2>1. CASE e = k
    BY <1>8, <2>1
  <2>2. CASE e # k
    BY <1>3, <1>8, <2>2, OthersOK
  <2> QED BY <2>1, <2>2
<1> QED BY <1>5, <1>6, <1>7, <1>8 DEF Coherent

----------------------------------------------------------------------------
(* What an operation that goes on leaves as it was                          *)

LEMMA FilesKept ==
  ASSUME Coherent, NEW k \in Id, Runs(k), Goes(k), files'[job[k].on] = files[job[k].on],
         \A t \in {"compose", "manifest", "lock", "rmdir"} : ~At(k, t)
  PROVE  FilesJob(k)'
<1>1. \A t \in {"compose", "manifest", "lock", "rmdir"} : Done(k, t)' <=> Done(k, t)
  BY DoneGoes DEF Coherent
<1>2. FilesJob(k) /\ Same(job[k], job'[k]) /\ broken' = broken
  BY DEF Coherent, JobOK, Goes
<1> QED BY <1>1, <1>2 DEF FilesJob, Same, Agree

LEMMA SecretsKept ==
  ASSUME Coherent, NEW k \in Id, Runs(k), Goes(k), ~At(k, "reclaim"),
         files'[job[k].on].secrets = files[job[k].on].secrets,
         engine'[job[k].on].volume = engine[job[k].on].volume
  PROVE  SecretsJob(k)'
<1>1. /\ Done(k, "reclaim")' <=> Done(k, "reclaim")
      /\ Done(k, "copy") => Done(k, "copy")'
      /\ Done(k, "import") => Done(k, "import")'
  BY DoneGoes DEF Coherent
<1>2. SecretsJob(k) /\ Same(job[k], job'[k])
  BY DEF Coherent, JobOK, Goes
<1> QED BY <1>1, <1>2 DEF SecretsJob, Same

LEMMA DataKept ==
  ASSUME Coherent, NEW k \in Id, Runs(k), Goes(k), Apart(k),
         files'[job[k].on].secrets = files[job[k].on].secrets,
         IF At(k, "compose") THEN files'[job[k].on].compose = job[k].config
         ELSE files'[job[k].on].compose = files[job[k].on].compose,
         engine'[job[k].on] = engine[job[k].on],
         \A t \in {"reclaim", "up", "copy", "import", "down"} : ~At(k, t)
  PROVE  DataJob(k)'
<1>1. \A t \in {"reclaim", "up", "copy", "import", "down"} : Done(k, t)' <=> Done(k, t)
  BY DoneGoes DEF Coherent
<1>2. DataJob(k) /\ Same(job[k], job'[k]) /\ broken' = broken
  BY DEF Coherent, JobOK, Goes
<1>3. engine'[k] = engine[k]
  BY DEF Apart
<1>4. CASE ~At(k, "compose")
  BY <1>1, <1>2, <1>3, <1>4 DEF DataJob, Same, Fits, Sane
<1>5. CASE At(k, "compose")
  <2>1. /\ job[k].kind \in Writers \union {"address"} /\ job[k].config \in Config
        /\ job[k].kind = "restore" => Done(k, "import")
    BY <1>5, AtIs DEF Coherent, JobOK, FilesJob, Has, Ordered, Done
  <2>2. job[k].config # NoConfig
    BY <2>1, InstancesAssumption DEF Config, NoConfig
  <2>3. FilesJob(k)
    BY DEF Coherent, JobOK
  <2>4. PICK i \in Id : i = job[k].on
    BY RunIs DEF Coherent
  <2>5. job[k].kind = "address" /\ i \notin broken => Fits(i)'
    BY <1>2, <1>5, <2>2, <2>3, <2>4 DEF FilesJob, DataJob, Fits, Writers
  <2> QED BY <1>1, <1>2, <1>3, <2>1, <2>4, <2>5 DEF DataJob, Same, Fits, Sane
<1> QED BY <1>4, <1>5

LEMMA ListKept ==
  ASSUME Coherent, NEW k \in Id, Runs(k), Goes(k),
         inventory'[job[k].on] = inventory[job[k].on], stale' = stale,
         IF At(k, "manifest") THEN files'[job[k].on].manifest = job[k].config
         ELSE files'[job[k].on].manifest = files[job[k].on].manifest,
         job'[k].seen = job[k].seen,
         engine'[job[k].on].stack = "up" => engine[job[k].on].stack = "up" \/ At(k, "up"),
         \A t \in {"look", "register", "relist", "stop"} : ~At(k, t)
  PROVE  ListJob(k)'
<1> DEFINE i == job[k].on
<1>1. /\ \A t \in {"register", "relist", "stop"} : Done(k, t)' <=> Done(k, t)
      /\ Done(k, "save") => Done(k, "save")'
  BY DoneGoes DEF Coherent
<1>2. ListJob(k) /\ Same(job[k], job'[k]) /\ broken' = broken
  BY DEF Coherent, JobOK, Goes
<1>3. ~At(k, "register")' /\ ~At(k, "relist")'
  <2>1. job[k].kind \in DOMAIN Steps /\ job[k].at \in 1..LastPlace(k) /\ job[k].at < LastPlace(k)
    BY RunIs DEF Coherent, Goes
  <2>2. Steps[job[k].kind][job[k].at] # "look"
    BY DEF At, Runs
  <2>3. Steps[job[k].kind][job[k].at + 1] \notin {"register", "relist"}
    BY <2>1, <2>2, StepFacts DEF LastPlace
  <2> QED BY <1>2, <2>3 DEF At, Goes, Same
<1>4. At(k, "up") => /\ job[k].kind \notin {"disable", "backup", "repair"}
                     /\ job[k].kind = "restore" => Done(k, "save")
  BY AtIs DEF Coherent, Has, Ordered, Done
<1>5. job'[k].on = i /\ job'[k].kind = job[k].kind
  BY <1>2 DEF Same
<1>6. CASE ~At(k, "manifest")
  BY <1>1, <1>2, <1>3, <1>4, <1>5, <1>6 DEF ListJob, Same, Lists, NotUp, Listed
<1>7. CASE At(k, "manifest")
  <2>1. /\ job[k].kind \in Writers \union {"address", "env", "repair"} /\ ~At(k, "up")
        /\ job[k].kind = "restore" => Done(k, "save")
    BY <1>7, AtIs DEF Coherent, Has, Ordered, Done
  <2>2. FilesJob(k)
    BY DEF Coherent, JobOK
  <2>3. job[k].kind \in {"env", "repair"} /\ i \notin broken =>
          files'[i].manifest = files[i].manifest
    BY <1>7, <2>2 DEF FilesJob
  <2> QED BY <1>1, <1>2, <1>3, <1>5, <2>1, <2>3
        DEF ListJob, Same, Lists, NotUp, Listed, Keepers, Writers, Marks
<1> QED BY <1>6, <1>7

LEMMA RestoreKept ==
  ASSUME Coherent, NEW k \in Id, Runs(k), Goes(k), ~At(k, "save"),
         job[k].kind = "restore" /\ ~Done(k, "save") =>
           engine'[job[k].on].content = engine[job[k].on].content,
         backups'[job[k].on] = backups[job[k].on],
         job'[k].saved = job[k].saved
  PROVE  RestoreJob(k)'
<1>1. Done(k, "save")' <=> Done(k, "save")
  BY DoneGoes DEF Coherent
<1>2. RestoreJob(k) /\ Same(job[k], job'[k])
  BY DEF Coherent, JobOK, Goes
<1> QED BY <1>1, <1>2 DEF RestoreJob, Same

----------------------------------------------------------------------------
(* The steps on the directory                                               *)

\* A step that proceeds, for short.
LEMMA StepGoes ==
  ASSUME Coherent, NEW k \in Id, NEW s, At(k, s), NEW j \in Job, Same(job[k], j),
         j.at = job[k].at, Proceed(k, j)
  PROVE  /\ Runs(k) /\ JobsOK' /\ broken' \subseteq Id /\ UNCHANGED <<cleaner, count>>
         /\ job[k].on \in Id
         /\ IF Ends(job[k].kind, s) THEN Over(k)
            ELSE Goes(k) /\ job'[k].seen = j.seen /\ job'[k].saved = j.saved
<1>1. Runs(k) /\ (job[k].at = LastPlace(k) <=> Ends(job[k].kind, s))
  BY AtIs DEF Coherent
<1> QED BY <1>1, RunIs, Proceeds DEF Coherent, Goes, Over

LEMMA SameSelf == ASSUME TypeOK, NEW k \in Id PROVE job[k] \in Job /\ Same(job[k], job[k])
BY DEF TypeOK, Same

FileType == [manifest : Config \union {NoConfig}, compose : Config \union {NoConfig},
             lock : Schema, secrets : Nat]
EngineType == [stack : {"none", "stopped", "up"}, release : Schema,
               volume : Nat, content : Nat, schema : Schema]

\* What is left of the types once those of the operations are known.
LEMMA TypesGo ==
  ASSUME TypeOK, JobsOK', broken' \subseteq Id, UNCHANGED <<cleaner, count>>,
         inventory' \in [Id -> Listing], files' \in [Id -> FileType],
         engine' \in [Id -> EngineType], backups' \in [Id -> Seq(Snapshots)], stale' \in BOOLEAN
  PROVE  TypeOK'
BY DEF TypeOK, JobsOK, FileType, EngineType

LEMMA TypesAre ==
  ASSUME TypeOK
  PROVE  /\ inventory \in [Id -> Listing] /\ files \in [Id -> FileType]
         /\ engine \in [Id -> EngineType] /\ backups \in [Id -> Seq(Snapshots)]
         /\ stale \in BOOLEAN
BY DEF TypeOK, FileType, EngineType

LEMMA WriteFileKeeps ==
  ASSUME Coherent, NEW k \in Id, WriteFile(k)
  PROVE  Coherent'
<1>1. PICK s \in {"compose", "manifest", "lock"} : At(k, s)
  BY DEF WriteFile
<1>2. Runs(k) /\ \A t : At(k, t) => t = s
  BY <1>1, AtIs DEF Coherent
<1>0. PICK i \in Id, c \in Config \union {NoConfig} : i = job[k].on /\ c = job[k].config
  BY <1>2, RunIs DEF Coherent, Job
<1>3. /\ Has(job[k].kind, s) /\ Ordered(job[k].kind, job[k].at, s)
      /\ ~Ends(job[k].kind, s)
  BY <1>1, AtIs DEF Coherent, Has, Ends
<1>4. Proceed(k, job[k]) /\ UNCHANGED <<inventory, engine, backups, stale>>
  BY DEF WriteFile
<1>5. /\ Runs(k) /\ JobsOK' /\ UNCHANGED <<cleaner, count>>
      /\ Goes(k) /\ job'[k].seen = job[k].seen /\ job'[k].saved = job[k].saved
  BY <1>1, <1>3, <1>4, SameSelf, StepGoes DEF Coherent
<1>6. c.release \in Schema
  BY DEF Config, NoConfig, Schema
<1>7. files \in [Id -> FileType]
  BY TypesAre DEF Coherent
<1>8. /\ files' \in [Id -> FileType] /\ \A x \in Id \ {i} : files'[x] = files[x]
      /\ files'[i].secrets = files[i].secrets
      /\ files'[i].compose = IF s = "compose" THEN c ELSE files[i].compose
      /\ files'[i].manifest = IF s = "manifest" THEN c ELSE files[i].manifest
      /\ files'[i].lock = IF s = "lock" THEN c.release ELSE files[i].lock
  <2>1. CASE s = "compose"
    <3>1. files' = [files EXCEPT ![i].compose = c]
      BY <1>0, <1>2, <2>1 DEF WriteFile
    <3> QED BY <1>5, <1>6, <1>7, <2>1, <3>1 DEF FileType
  <2>2. CASE s = "manifest"
    <3>1. files' = [files EXCEPT ![i].manifest = c]
      BY <1>0, <1>2, <2>2 DEF WriteFile
    <3> QED BY <1>5, <1>6, <1>7, <2>2, <3>1 DEF FileType
  <2>3. CASE s = "lock"
    <3>1. files' = [files EXCEPT ![i].lock = c.release]
      BY <1>0, <1>2, <2>3 DEF WriteFile
    <3> QED BY <1>5, <1>6, <1>7, <2>3, <3>1 DEF FileType
  <2> QED BY <1>1, <2>1, <2>2, <2>3
<1>9. TypeOK'
  BY <1>4, <1>5, <1>8, TypesAre, TypesGo DEF Coherent, Goes, TypeOK
<1>10. Apart(k) /\ Whole(i)'
  BY <1>0, <1>4, <1>5, <1>8 DEF Coherent, Whole, Apart, Goes, Opens, Open, Empty, Saved, Form, Sane
<1>11. FilesJob(k)'
  <2>1. /\ \A t \in {"compose", "manifest", "lock", "rmdir"} :
               Done(k, t)' <=> Done(k, t) \/ t = s
        /\ job[k].kind \in Writers \union {"address", "env", "repair"}
        /\ s # "manifest" => job[k].kind \in Writers \union {"address"}
        /\ s = "lock" => job[k].kind \in Writers
        /\ s # "compose" /\ job[k].kind \notin {"env", "repair"} => Done(k, "compose")
    BY <1>1, <1>2, <1>3, <1>5, DoneGoes DEF Coherent, Has, Ordered, Done
  <2>2. FilesJob(k) /\ Same(job[k], job'[k]) /\ broken' = broken /\ job'[k].on = i
    BY <1>0, <1>2, <1>5 DEF Coherent, JobOK, Goes, Same
  <2>3. job[k].kind \in {"env", "repair"} /\ i \notin broken => files'[i] = files[i]
    BY <1>0, <1>5, <1>7, <1>8, <2>1, <2>2 DEF FilesJob, FileType, Writers
  <2>4. CASE job[k].kind \in {"env", "repair"}
    <3>1. i \notin broken => Agree(i)' \/ Done(k, "compose")
      BY <1>0, <2>2, <2>3, <2>4 DEF FilesJob, Agree
    <3>2. i \notin broken => files'[i].manifest = c
      BY <1>0, <2>2, <2>3, <2>4 DEF FilesJob
    <3> QED BY <1>0, <2>1, <2>2, <2>4, <3>1, <3>2 DEF FilesJob, Same, Writers
  <2>5. CASE job[k].kind \in Writers \union {"address"}
    <3>1. Done(k, "compose")'
      BY <2>1, <2>5 DEF Writers
    <3>2. job[k].kind \notin {"env", "repair", "update", "delete", "purge"}
      BY <2>5 DEF Writers
    <3>3. /\ c \in Config /\ files'[i].compose = c
          /\ Done(k, "manifest")' => files'[i].manifest = c
          /\ job[k].kind \in Writers /\ Done(k, "lock")' => files'[i].lock = c.release
          /\ job[k].kind = "address" => files'[i].lock = c.release
      BY <1>0, <1>8, <2>1, <2>2, <2>5 DEF FilesJob, Writers
    <3>4. c # NoConfig
      BY <3>3, InstancesAssumption DEF Config, NoConfig
    <3> QED BY <1>0, <2>2, <3>1, <3>2, <3>3, <3>4 DEF FilesJob, Same
  <2> QED BY <2>1, <2>4, <2>5
<1>12. SecretsJob(k)' /\ RestoreJob(k)'
  BY <1>0, <1>2, <1>4, <1>5, <1>8, SecretsKept, RestoreKept
<1>13. DataJob(k)' /\ ListJob(k)'
  BY <1>0, <1>1, <1>2, <1>4, <1>5, <1>8, <1>10, DataKept, ListKept
<1>14. Runs(k)' /\ Same(job[k], job'[k])
  BY <1>5 DEF Goes, Same, Runs
<1> QED BY <1>0, <1>5, <1>9, <1>10, <1>11, <1>12, <1>13, <1>14, StepKeeps DEF JobOK

----------------------------------------------------------------------------
(* Numbers nobody has                                                       *)

LEMMA LeastIs ==
  ASSUME NEW S, IsFiniteSet(S)
  PROVE  Least(S) \in Nat \ S
<1>1. Cardinality(S) \in Nat
  BY FS_CardinalityType
<1> DEFINE T == 1..(Cardinality(S) + 1)
<1>2. IsFiniteSet(T) /\ Cardinality(T) = Cardinality(S) + 1
  BY <1>1, FS_Interval
<1>3. ~(T \subseteq S)
  <2> SUFFICES ASSUME T \in SUBSET S PROVE FALSE
    OBVIOUS
  <2>1. Cardinality(T) <= Cardinality(S)
    BY FS_Subset
  <2> QED BY <1>1, <1>2, <2>1
<1>4. \E n \in T : n \notin S
  BY <1>3
<1>5. Least(S) \in T /\ Least(S) \notin S
  BY <1>4 DEF Least
<1> QED BY <1>1, <1>5

\* The values of a function on the instances.
LEMMA ValuesFinite ==
  ASSUME NEW f, f = [i \in Id |-> f[i]]
  PROVE  IsFiniteSet({f[i] : i \in Id})
<1> DEFINE T == {f[i] : i \in Id}
<1>1. f \in Surjection(Id, T)
  BY DEF Surjection
<1> QED BY <1>1, FS_Surjection, InstancesAssumption

LEMMA FreshSecretsIs == FreshSecrets \in Nat
<1> DEFINE f == [i \in Id |-> files[i].secrets]
           g == [i \in Id |-> engine[i].volume]
           S == {f[i] : i \in Id}
           T == {g[i] : i \in Id}
<1>1. S = {files[i].secrets : i \in Id} /\ T = {engine[i].volume : i \in Id}
  OBVIOUS
<1>2. f = [i \in Id |-> f[i]] /\ g = [i \in Id |-> g[i]]
  OBVIOUS
<1> HIDE DEF f, g
<1>3. IsFiniteSet(S) /\ IsFiniteSet(T)
  BY <1>2, ValuesFinite
<1> HIDE DEF S, T
<1>4. IsFiniteSet(S \union T)
  BY <1>3, FS_Union
<1> QED BY <1>1, <1>4, LeastIs DEF FreshSecrets

LEMMA FreshContentIs ==
  ASSUME TypeOK
  PROVE  FreshContent \in Nat
<1> DEFINE f == [i \in Id |-> engine[i].content]
           g == [k \in Id |-> job[k].had]
           h == [k \in Id |-> job[k].snap.content]
           S == {f[i] : i \in Id}
           T == {g[i] : i \in Id}
           U == {h[i] : i \in Id}
           b(i) == {backups[i][n].content : n \in DOMAIN backups[i]}
           B == [i \in Id |-> b(i)]
           V == {B[i] : i \in Id}
<1>1. /\ S = {engine[i].content : i \in Id} /\ T = {job[k].had : k \in Id}
      /\ U = {job[k].snap.content : k \in Id} /\ V = {b(i) : i \in Id}
  OBVIOUS
<1>2. /\ f = [i \in Id |-> f[i]] /\ g = [i \in Id |-> g[i]] /\ h = [i \in Id |-> h[i]]
      /\ B = [i \in Id |-> B[i]]
  OBVIOUS
<1>3. ASSUME NEW i \in Id PROVE IsFiniteSet(B[i])
  <2> DEFINE q == [n \in DOMAIN backups[i] |-> backups[i][n].content]
  <2>1. backups[i] \in Seq(Snapshots)
    BY DEF TypeOK
  <2>2. DOMAIN backups[i] = 1..Len(backups[i]) /\ Len(backups[i]) \in Nat
    BY <2>1
  <2>3. IsFiniteSet(DOMAIN backups[i])
    BY <2>2, FS_Interval
  <2>4. q \in Surjection(DOMAIN backups[i], B[i])
    BY DEF Surjection
  <2> QED BY <2>3, <2>4, FS_Surjection
<1> HIDE DEF f, g, h, B
<1>4. IsFiniteSet(S) /\ IsFiniteSet(T) /\ IsFiniteSet(U) /\ IsFiniteSet(V)
  BY <1>2, ValuesFinite
<1>5. IsFiniteSet(UNION V)
  <2>1. \A v \in V : IsFiniteSet(v)
    BY <1>3
  <2> HIDE DEF V
  <2> QED BY <1>4, <2>1, FS_UNION
<1> HIDE DEF S, T, U, V
<1>6. IsFiniteSet(S \union T \union U \union UNION V)
  <2>1. IsFiniteSet(S \union T)
    BY <1>4, FS_Union
  <2>2. IsFiniteSet(S \union T \union U)
    BY <1>4, <2>1, FS_Union
  <2> QED BY <1>5, <2>2, FS_Union
<1>7. FreshContent = Least(S \union T \union U \union UNION V)
  BY <1>1 DEF FreshContent
<1> QED BY <1>6, <1>7, LeastIs

----------------------------------------------------------------------------
(* The steps on the secrets, the directory and the read of the inventory    *)

LEMMA WriteSecretsKeeps ==
  ASSUME Coherent, NEW k \in Id, WriteSecrets(k)
  PROVE  Coherent'
<1>1. PICK s \in {"secrets", "renew"} : At(k, s)
  BY DEF WriteSecrets
<1>2. Runs(k) /\ \A t : At(k, t) => t = s
  BY <1>1, AtIs DEF Coherent
<1>0. PICK i \in Id : i = job[k].on
  BY <1>2, RunIs DEF Coherent
<1>3. /\ Has(job[k].kind, s) /\ Ordered(job[k].kind, job[k].at, s)
      /\ ~Ends(job[k].kind, s)
  BY <1>1, AtIs DEF Coherent, Has, Ends
<1>4. Proceed(k, job[k]) /\ UNCHANGED <<inventory, engine, backups, stale>>
  BY DEF WriteSecrets
<1>5. /\ Runs(k) /\ JobsOK' /\ UNCHANGED <<cleaner, count>>
      /\ Goes(k) /\ job'[k].seen = job[k].seen /\ job'[k].saved = job[k].saved
  BY <1>1, <1>3, <1>4, SameSelf, StepGoes DEF Coherent
<1>6. PICK n \in Nat : n = SecretsFor(k)
  <2>1. files[i].secrets \in Nat
    BY TypesAre DEF Coherent, FileType
  <2> QED BY <1>0, <2>1, FreshSecretsIs DEF SecretsFor
<1>7. files \in [Id -> FileType]
  BY TypesAre DEF Coherent
<1>8. /\ files' \in [Id -> FileType] /\ \A x \in Id \ {i} : files'[x] = files[x]
      /\ files'[i].secrets = n
      /\ files'[i].compose = files[i].compose /\ files'[i].manifest = files[i].manifest
      /\ files'[i].lock = files[i].lock
  <2>1. files' = [files EXCEPT ![i].secrets = n]
    BY <1>0, <1>6 DEF WriteSecrets
  <2> QED BY <1>6, <1>7, <2>1 DEF FileType
<1>9. TypeOK'
  BY <1>4, <1>5, <1>8, TypesAre, TypesGo DEF Coherent, Goes, TypeOK
<1>10. Apart(k)
  BY <1>0, <1>4, <1>5, <1>8 DEF Coherent, Apart, Goes, Whole, Form
<1>11. /\ SecretsJob(k) /\ FilesJob(k) /\ DataJob(k)
       /\ Same(job[k], job'[k]) /\ broken' = broken /\ job'[k].on = i
  BY <1>0, <1>2, <1>5 DEF Coherent, JobOK, Goes, Same
<1>12. /\ Done(k, "copy")' <=> Done(k, "copy")
       /\ Done(k, "import")' <=> Done(k, "import")
       /\ Done(k, "reclaim")' <=> Done(k, "reclaim")
       /\ \A t \in {"compose", "manifest", "lock", "rmdir", "up", "down"} :
            Done(k, t)' <=> Done(k, t)
  BY <1>2, <1>5, DoneGoes DEF Coherent
<1>13. /\ job[k].kind = "install" => s = "secrets" /\ Done(k, "reclaim")
       /\ s = "renew" => ~Done(k, "copy") /\ ~Done(k, "import") /\ job[k].kind \in Fresh
       /\ job[k].kind \in Fresh \union {"install"}
       /\ ~Done(k, "copy") /\ ~Done(k, "import")
  <2>1. \A t : Done(k, t) => Has(job[k].kind, t)
    BY <1>2, DoneHas DEF Coherent
  <2> QED BY <1>1, <1>3, <2>1 DEF Has, Ordered, Done, Fresh
<1>14. engine[i].volume = 0 \/ (n = files[i].secrets /\ files[i].secrets # 0)
  BY <1>0, <1>1, <1>6, <1>11, <1>13 DEF SecretsFor, SecretsJob, Fresh
<1>15. Whole(i)'
  <2>1. Whole(i)
    BY DEF Coherent
  <2> QED BY <1>4, <1>8, <1>14, <2>1 DEF Whole, Opens, Open, Empty, Saved, Form, Sane
<1>16. FilesJob(k)'
  BY <1>0, <1>8, <1>11, <1>12, <1>13 DEF FilesJob, Same, Agree, Fresh
<1>17. SecretsJob(k)'
  BY <1>0, <1>4, <1>8, <1>11, <1>12, <1>13, <1>14 DEF SecretsJob, Same, Fresh
<1>18. DataJob(k)'
  <2>1. engine'[i] = engine[i] /\ engine'[k] = engine[k] /\ job[k].kind \in Writers
    BY <1>4, <1>13 DEF Fresh, Writers
  <2> QED BY <1>0, <1>8, <1>11, <1>12, <1>13, <2>1 DEF DataJob, Same, Fits, Sane, Fresh
<1>19. ListJob(k)' /\ RestoreJob(k)'
  BY <1>0, <1>1, <1>2, <1>4, <1>5, <1>8, ListKept, RestoreKept
<1>20. Runs(k)'
  BY <1>5 DEF Goes, Same, Runs
<1> QED BY <1>0, <1>2, <1>9, <1>10, <1>11, <1>15, <1>16, <1>17, <1>18, <1>19, <1>20, StepKeeps DEF JobOK

LEMMA LookKeeps ==
  ASSUME Coherent, NEW k \in Id, Look(k)
  PROVE  Coherent'
<1> DEFINE j == [job[k] EXCEPT !.seen = inventory]
<1>1. At(k, "look") /\ Proceed(k, j) /\ UNCHANGED <<inventory, files, engine, backups, stale>>
  BY DEF Look
<1>2. Runs(k) /\ \A t : At(k, t) => t = "look"
  BY <1>1, AtIs DEF Coherent
<1>0. PICK i \in Id : i = job[k].on
  BY <1>2, RunIs DEF Coherent
<1>3. /\ Has(job[k].kind, "look") /\ Ordered(job[k].kind, job[k].at, "look")
      /\ ~Ends(job[k].kind, "look")
  BY <1>1, AtIs DEF Coherent, Has, Ends
<1>4. /\ j \in Job /\ Same(job[k], j) /\ j.at = job[k].at
      /\ j.seen = inventory /\ j.saved = job[k].saved
  BY <1>2, RunIs, TypesAre DEF Coherent, Job, Same
<1> HIDE DEF j
<1>5. /\ JobsOK' /\ UNCHANGED <<cleaner, count>>
      /\ Goes(k) /\ job'[k].seen = inventory /\ job'[k].saved = job[k].saved
  BY <1>1, <1>3, <1>4, StepGoes
<1>6. TypeOK'
  BY <1>1, <1>5, TypesAre, TypesGo DEF Coherent, Goes, TypeOK
<1>7. Apart(k) /\ Whole(i)'
  BY <1>0, <1>1, <1>5 DEF Coherent, Apart, Goes, Whole, Opens, Open, Empty, Saved, Form, Sane
<1>8. FilesJob(k)' /\ SecretsJob(k)' /\ RestoreJob(k)' /\ DataJob(k)'
  BY <1>0, <1>1, <1>2, <1>5, <1>7, FilesKept, SecretsKept, RestoreKept, DataKept
<1>9. ListJob(k)'
  <2>1. /\ ListJob(k) /\ Same(job[k], job'[k]) /\ job'[k].on = i /\ broken' = broken
        /\ \A x \in Id : Form(inventory[x])
    BY <1>0, <1>2, <1>5 DEF Coherent, JobOK, Goes, Same, Whole
  <2>2. job[k].kind \in Writers \union {"address"}
    BY <1>3 DEF Has
  <2>3. job[k].kind \notin Marks \union Keepers
    BY <2>2 DEF Writers, Marks, Keepers
  <2>4. /\ Done(k, "register")' <=> Done(k, "register")
        /\ Done(k, "relist")' <=> Done(k, "relist")
        /\ Done(k, "save")' <=> Done(k, "save")
    BY <1>2, <1>5, DoneGoes DEF Coherent
  <2>5. job'[k].kind = job[k].kind /\ job'[k].config = job[k].config
    BY <2>1 DEF Same
  <2>6. job[k].kind \notin {"disable", "delete", "purge", "repair"}
    BY <2>2 DEF Writers
  <2> QED BY <1>0, <1>1, <1>5, <2>1, <2>3, <2>4, <2>5, <2>6
          DEF ListJob, Lists, NotUp, Listed, Form, Keepers
<1>10. Runs(k)'
  BY <1>2, <1>5 DEF Goes, Same, Runs
<1> QED BY <1>0, <1>2, <1>5, <1>6, <1>7, <1>8, <1>9, <1>10, StepKeeps DEF JobOK, Goes

LEMMA RemoveDirKeeps ==
  ASSUME Coherent, NEW k \in Id, RemoveDir(k)
  PROVE  Coherent'
<1>1. /\ At(k, "rmdir") /\ Proceed(k, job[k]) /\ UNCHANGED <<inventory, engine, stale>>
  BY DEF RemoveDir
<1>2. Runs(k) /\ \A t : At(k, t) => t = "rmdir"
  BY <1>1, AtIs DEF Coherent
<1>0. PICK i \in Id : i = job[k].on
  BY <1>2, RunIs DEF Coherent
<1>3. /\ job[k].kind \in {"delete", "purge"} /\ Done(k, "down") /\ ~Ends(job[k].kind, "rmdir")
  BY <1>1, AtIs DEF Coherent, Has, Ends, Ordered, Done
<1>4. /\ JobsOK' /\ UNCHANGED <<cleaner, count>>
      /\ Goes(k) /\ job'[k].seen = job[k].seen /\ job'[k].saved = job[k].saved
  BY <1>1, <1>3, SameSelf, StepGoes DEF Coherent
<1>5. /\ files' \in [Id -> FileType] /\ files'[i] = NoFiles
      /\ \A x \in Id \ {i} : files'[x] = files[x]
  <2>1. files' = [files EXCEPT ![i] = NoFiles]
    BY <1>0 DEF RemoveDir
  <2>2. NoFiles \in FileType
    BY DEF NoFiles, FileType, NoConfig, Schema
  <2> QED BY <2>1, <2>2, TypesAre DEF Coherent
<1>6. /\ backups' \in [Id -> Seq(Snapshots)]
      /\ backups'[i] = backups[i] \/ backups'[i] = <<>>
      /\ \A x \in Id \ {i} : backups'[x] = backups[x]
  <2>1. backups' = backups \/ backups' = [backups EXCEPT ![i] = <<>>]
    BY <1>0 DEF RemoveDir
  <2>2. <<>> \in Seq(Snapshots)
    OBVIOUS
  <2> QED BY <2>1, <2>2, TypesAre DEF Coherent
<1>7. TypeOK'
  BY <1>1, <1>4, <1>5, <1>6, TypesAre, TypesGo DEF Coherent, Goes, TypeOK
<1>8. Apart(k)
  BY <1>0, <1>1, <1>4, <1>5, <1>6 DEF Coherent, Apart, Goes, Whole, Form
<1>9. Whole(i)'
  <2>1. Whole(i) /\ engine'[i] = engine[i] /\ files'[i].secrets = 0 /\ inventory'[i] = inventory[i]
    BY <1>1, <1>5 DEF Coherent, NoFiles
  <2>2. Saved(i)'
    BY <1>6, <2>1 DEF Whole, Saved, Sane
  <2> QED BY <2>1, <2>2 DEF Whole, Opens, Open, Empty, Form
<1>10. /\ JobOK(k) /\ Same(job[k], job'[k]) /\ broken' = broken /\ job'[k].on = i
       /\ job'[k].kind = job[k].kind
  BY <1>0, <1>2, <1>4 DEF Coherent, Goes, Same
<1>11. Agree(i)'
  BY <1>5 DEF Agree, NoFiles, NoConfig
<1>12. FilesJob(k)'
  <2>1. job[k].kind \notin Writers \union {"address", "repair", "env", "update"}
    BY <1>3 DEF Writers
  <2> QED BY <1>5, <1>10, <1>11, <2>1 DEF FilesJob, Agree
<1>13. SecretsJob(k)' /\ RestoreJob(k)'
  BY <1>3, <1>10 DEF SecretsJob, RestoreJob, Fresh
<1>14. DataJob(k)'
  <2>1. engine[i].stack = "none" /\ engine'[i] = engine[i]
    BY <1>0, <1>1, <1>3, <1>10 DEF JobOK, DataJob
  <2>2. Fits(i)'
    BY <1>5, <2>1 DEF Fits, NoFiles
  <2> QED BY <1>3, <1>10, <2>1, <2>2 DEF DataJob, Fits
<1>15. ListJob(k)'
  <2>1. ~At(k, "manifest")
    BY <1>2
  <2>2. job[k].kind \notin Keepers \union Marks \union {"restore", "address"}
    BY <1>3 DEF Keepers, Marks
  <2>3. ~Done(k, "register")'
    <3>1. TypeOK' /\ Runs(k)'
      BY <1>2, <1>7, <1>10 DEF Runs
    <3> QED BY <1>2, <1>3, <1>4, <1>10, DoneGoes, DoneHas DEF Has, Writers, Coherent
  <2>4. At(k, "register")' \/ At(k, "relist")' => job[k].kind \in {"delete", "purge"}
    BY <1>3
  <2> QED BY <1>0, <1>1, <1>3, <1>4, <1>10, <2>2, <2>3 DEF JobOK, ListJob, Form, Keepers, Marks
<1>16. Runs(k)'
  BY <1>2, <1>4 DEF Goes, Same, Runs
<1> QED BY <1>0, <1>2, <1>7, <1>8, <1>9, <1>10, <1>12, <1>13, <1>14, <1>15, <1>16, StepKeeps DEF JobOK

----------------------------------------------------------------------------
(* The steps on the inventory                                               *)

Writings == {"register", "enlist", "relist", "mark", "unlist"}

LEMMA EntryIs ==
  ASSUME Coherent, NEW k \in Id, NEW s \in Writings, At(k, s), NEW i \in Id, i = job[k].on
  PROVE  /\ Entry(k) \in Listing /\ Form(Entry(k))
         /\ s = "register" => Entry(k) = [status |-> "active", domain |-> job[k].config.domain]
         /\ s = "enlist" => Entry(k) =
              IF job[k].seen[i] = Unlisted
              THEN [status |-> "active", domain |-> job[k].config.domain] ELSE job[k].seen[i]
         /\ s = "relist" /\ job[k].seen[i] # Unlisted =>
              /\ Entry(k).status = job[k].seen[i].status
              /\ Entry(k).domain = job[k].config.domain
         /\ s = "mark" =>
              /\ Entry(k).domain = job[k].seen[i].domain
              /\ Entry(k).status = CASE job[k].kind = "disable" -> "disabled"
                                     [] job[k].kind = "keep" -> "removed_keep_data"
                                     [] OTHER -> "active"
         /\ s = "unlist" => Entry(k) = Unlisted
<1>1. Runs(k) /\ (\A t : At(k, t) => t = s) /\ Has(job[k].kind, s)
  BY AtIs DEF Coherent
<1>2. PICK old \in Listing : old = job[k].seen[i]
  BY <1>1, RunIs DEF Coherent, Job
<1>3. PICK d \in Domain \union {NoDomain} :
        /\ d = job[k].config.domain
        /\ s \in {"register", "enlist", "relist"} => d \in Domain
  <2>1. job[k].config \in Config \union {NoConfig}
    BY <1>1, RunIs DEF Coherent, Job
  <2>2. s \in {"register", "enlist", "relist"} =>
          job[k].kind \in Writers \union {"address", "repair"}
    BY <1>1 DEF Has
  <2>3. s \in {"register", "enlist", "relist"} => job[k].config \in Config
    BY <1>1, <2>2 DEF Coherent, JobOK, FilesJob
  <2> QED BY <2>1, <2>3 DEF Config, NoConfig
<1>4. Form(old)
  BY <1>1, <1>2 DEF Coherent, JobOK, ListJob
<1> DEFINE new == [status |-> "active", domain |-> d]
<1>5. new \in Listing /\ (d \in Domain => Form(new)) /\ new.status = "active" /\ new.domain = d
  BY <1>3 DEF Listing, Form
<1> HIDE DEF new
<1>6. CASE s = "register"
  <2>1. Entry(k) = new
    BY <1>1, <1>3, <1>6 DEF Entry, new
  <2> QED BY <1>3, <1>5, <1>6, <2>1 DEF new
<1>7. CASE s = "enlist"
  <2>1. Entry(k) = IF old = Unlisted THEN new ELSE old
    BY <1>1, <1>2, <1>3, <1>7 DEF Entry, new
  <2> QED BY <1>2, <1>3, <1>4, <1>5, <1>7, <2>1 DEF new
<1>8. CASE s = "relist"
  <2> DEFINE moved == [old EXCEPT !.domain = d]
  <2>1. moved \in Listing /\ moved.status = old.status /\ moved.domain = d
    BY <1>3 DEF Listing
  <2> HIDE DEF moved
  <2>2. Entry(k) = IF old = Unlisted THEN old ELSE moved
    <3>1. [status |-> "active", domain |-> job[k].config.domain].domain = d
      BY <1>3
    <3> QED BY <1>1, <1>2, <1>3, <1>8, <3>1 DEF Entry, moved
  <2> QED BY <1>2, <1>3, <1>4, <1>8, <2>1, <2>2 DEF Form
<1>9. CASE s = "mark"
  <2> DEFINE st == CASE job[k].kind = "disable" -> "disabled"
                     [] job[k].kind = "keep" -> "removed_keep_data"
                     [] OTHER -> "active"
             marked == [old EXCEPT !.status = st]
  <2>1. job[k].kind \in Marks
    BY <1>1, <1>9 DEF Has
  <2>2. [disable |-> "disabled", keep |-> "removed_keep_data", enable |-> "active"][job[k].kind] = st
    BY <2>1 DEF Marks
  <2>3. st \in {"disabled", "removed_keep_data", "active"}
    BY <2>1 DEF Marks
  <2> HIDE DEF st
  <2>4. marked \in Listing /\ marked.status = st /\ marked.domain = old.domain
    BY <2>3 DEF Listing
  <2> HIDE DEF marked
  <2>5. Entry(k) = marked
    BY <1>1, <1>2, <1>9, <2>2 DEF Entry, marked
  <2>6. Form(marked)
    <3>1. old.status # "unlisted"
      BY <1>1, <1>2, <2>1 DEF Coherent, JobOK, ListJob
    <3> QED BY <1>4, <2>3, <2>4, <3>1 DEF Form
  <2> QED BY <1>2, <1>9, <2>4, <2>5, <2>6 DEF st
<1>10. CASE s = "unlist"
  <2>1. Entry(k) = Unlisted
    BY <1>1, <1>10 DEF Entry
  <2>2. Unlisted \in Listing
    BY DEF Unlisted, Listing
  <2> QED BY <1>10, <2>1, <2>2 DEF Form, Unlisted
<1> QED BY <1>6, <1>7, <1>8, <1>9, <1>10 DEF Writings

\* What the inventory says after a write, if no write was based on an outdated read.
LEMMA Written ==
  ASSUME Coherent, NEW k \in Id, WriteInventory(k), NEW s \in Writings, At(k, s),
         NEW i \in Id, i = job[k].on
  PROVE  /\ inventory' \in [Id -> Listing] /\ stale' \in BOOLEAN
         /\ \A x \in Id : Form(inventory'[x])
         /\ ~stale' => /\ ~stale /\ inventory'[i] = Entry(k) /\ job[k].seen[i] = inventory[i]
                       /\ \A x \in Id \ {i} : inventory'[x] = inventory[x]
<1>1. Runs(k) /\ (\A t : At(k, t) => t = s) /\ Has(job[k].kind, s)
  BY AtIs DEF Coherent
<1>2. PICK seen \in [Id -> Listing] : seen = job[k].seen
  BY <1>1, RunIs DEF Coherent, Job
<1> DEFINE wanted == [seen EXCEPT ![i] = Entry(k)]
           writes == At(k, "enlist") \/ At(k, "relist") => wanted # seen
<1>3. wanted \in [Id -> Listing] /\ wanted[i] = Entry(k) /\ \A x \in Id \ {i} : wanted[x] = seen[x]
  BY <1>2, EntryIs
<1>4. /\ inventory' = IF writes THEN wanted ELSE inventory
      /\ stale' = (stale \/ (writes /\ seen # inventory))
  BY <1>2 DEF WriteInventory
<1>5. \A x \in Id : Form(seen[x]) /\ Form(inventory[x])
  BY <1>1, <1>2 DEF Coherent, JobOK, ListJob, Whole
<1>6. Form(Entry(k))
  BY EntryIs
<1>7. inventory' \in [Id -> Listing] /\ stale' \in BOOLEAN
  BY <1>3, <1>4, TypesAre DEF Coherent
<1>8. \A x \in Id : Form(inventory'[x])
  BY <1>3, <1>4, <1>5, <1>6
<1>9. ~stale => seen[i] = inventory[i]
  <2>1. job[k].kind \in Marks \union {"delete", "purge", "repair"}
          \/ At(k, "register") \/ At(k, "relist")
    BY <1>1 DEF Writings, Has
  <2> QED BY <1>1, <1>2, <2>1 DEF Coherent, JobOK, ListJob
<1>10. ASSUME ~stale' PROVE
         /\ ~stale /\ inventory'[i] = Entry(k)
         /\ \A x \in Id \ {i} : inventory'[x] = inventory[x]
  <2>1. ~stale /\ (writes => seen = inventory)
    BY <1>4, <1>10
  <2>2. CASE writes
    BY <1>3, <1>4, <2>1, <2>2
  <2>3. CASE ~writes
    BY <1>3, <1>4, <1>9, <2>1, <2>3
  <2> QED BY <2>1, <2>2, <2>3
<1> QED BY <1>2, <1>7, <1>8, <1>9, <1>10

LEMMA WriteInventoryKeeps ==
  ASSUME Coherent, NEW k \in Id, WriteInventory(k)
  PROVE  Coherent'
<1> DEFINE j == [job[k] EXCEPT !.seen = NoOne]
<1>1. PICK s \in Writings : At(k, s)
  BY DEF WriteInventory, Writings
<1>2. Runs(k) /\ (\A t : At(k, t) => t = s) /\ Has(job[k].kind, s)
  BY <1>1, AtIs DEF Coherent
<1>0. PICK i \in Id, c \in Config \union {NoConfig} : i = job[k].on /\ c = job[k].config
  BY <1>2, RunIs DEF Coherent, Job
<1>3. Proceed(k, j) /\ UNCHANGED <<files, engine, backups>>
  BY DEF WriteInventory
<1>4. NoOne \in [Id -> Listing]
  BY DEF NoOne, Unlisted, Listing
<1>5. /\ j \in Job /\ Same(job[k], j) /\ j.at = job[k].at
      /\ j.seen = NoOne /\ j.saved = job[k].saved
  BY <1>2, <1>4, RunIs DEF Coherent, Job, Same
<1> HIDE DEF j
<1>6. /\ JobsOK' /\ broken' \subseteq Id /\ UNCHANGED <<cleaner, count>>
      /\ IF Ends(job[k].kind, s) THEN Over(k)
         ELSE Goes(k) /\ job'[k].seen = NoOne /\ job'[k].saved = job[k].saved
  BY <1>1, <1>3, <1>5, StepGoes
<1>7. /\ inventory' \in [Id -> Listing] /\ stale' \in BOOLEAN
      /\ \A x \in Id : Form(inventory'[x])
      /\ ~stale' => /\ ~stale /\ inventory'[i] = Entry(k) /\ job[k].seen[i] = inventory[i]
                    /\ \A x \in Id \ {i} : inventory'[x] = inventory[x]
  BY <1>0, <1>1, Written
<1>8. TypeOK'
  BY <1>3, <1>6, <1>7, TypesAre, TypesGo DEF Coherent
<1>9. Apart(k) /\ Whole(i)'
  <2>1. /\ Others(k) /\ \A x \in Id \ {i} : x \in broken' <=> x \in broken
    BY <1>0, <1>6 DEF Goes, Over
  <2>2. Whole(i)
    BY DEF Coherent
  <2> QED BY <1>0, <1>3, <1>6, <1>7, <2>1, <2>2 DEF Apart, Whole, Opens, Open, Empty, Saved, Sane
<1>10. JobOK(k)
  BY <1>2 DEF Coherent
<1>11. CASE Ends(job[k].kind, s)
  <2>1. Over(k) /\ ~Runs(k)'
    BY <1>6, <1>11, IdleIs DEF Over, Runs
  <2>2. Done(k, "compose") => job[k].kind \in Writers \union {"address"}
    BY <1>2, DoneHas DEF Has, Coherent
  <2>3. CASE s = "register"
    <3>1. job[k].kind = "prepare"
      BY <1>11, <2>3 DEF Ends
    <3>2. /\ Done(k, "compose") /\ Done(k, "manifest") /\ Done(k, "lock")
          /\ ~Done(k, "copy") /\ ~Done(k, "import")
      BY <1>1, <1>2, <2>3, <3>1, AtIs, DoneHas DEF Coherent, Ordered, Done, Has
    <3>3. /\ files[i].compose = c /\ files[i].manifest = c /\ files[i].lock = c.release
          /\ c \in Config /\ engine[i].volume = 0
      BY <1>0, <1>10, <3>1, <3>2 DEF JobOK, FilesJob, SecretsJob, Writers, Fresh
    <3>4. c # NoConfig
      BY <3>3, InstancesAssumption DEF Config, NoConfig
    <3>5. Agree(i)' /\ Fits(i)'
      BY <1>3, <1>9, <3>3 DEF Agree, Fits, Whole, Empty
    <3>6. ~stale' => inventory'[i] = [status |-> "active", domain |-> c.domain]
      BY <1>0, <1>1, <1>7, <2>3, EntryIs
    <3>7. ~stale' => Lists(i)' /\ NotUp(i)'
      BY <1>3, <3>3, <3>4, <3>6 DEF Lists, NotUp, Listed
    <3> QED BY <1>0, <1>2, <1>8, <1>9, <2>1, <3>5, <3>7, StepKeeps DEF Good
  <2>4. CASE s = "mark"
    <3>1. job[k].kind \in Marks
      BY <1>2, <2>4 DEF Has
    <3>2. job[k].kind \notin Writers \union {"address"} /\ job[k].kind \in Keepers
      BY <3>1 DEF Marks, Writers, Keepers
    <3>3. broken' = broken
      BY <2>1, <3>1 DEF Over, Mends, Spoils, Marks
    <3>4. i \notin broken => Agree(i) /\ Fits(i)
      BY <1>0, <1>10, <2>2, <3>2 DEF JobOK, FilesJob, DataJob
    <3>5. ~stale' /\ i \notin broken => Lists(i)
      BY <1>0, <1>7, <1>10, <3>2 DEF JobOK, ListJob
    <3>6. job[k].seen[i].status # "unlisted"
      BY <1>0, <1>10, <3>1 DEF JobOK, ListJob
    <3>7. job[k].kind = "disable" => Done(k, "stop")
      BY <1>1, <2>4, AtIs DEF Coherent, Ordered, Done
    <3>8. ~stale' /\ job[k].kind = "disable" => engine[i].stack # "up"
      BY <1>0, <1>7, <1>10, <3>7 DEF JobOK, ListJob
    <3>9. /\ Entry(k).domain = job[k].seen[i].domain
          /\ Entry(k).status # "unlisted"
          /\ Entry(k).status = "disabled" => job[k].kind = "disable"
      BY <1>0, <1>1, <2>4, <3>1, EntryIs DEF Marks
    <3>10. ~stale' /\ i \notin broken' => Lists(i)' /\ NotUp(i)'
      BY <1>3, <1>7, <3>3, <3>5, <3>6, <3>8, <3>9 DEF Lists, NotUp, Listed
    <3>11. i \notin broken' => Agree(i)' /\ Fits(i)'
      BY <1>3, <3>3, <3>4 DEF Agree, Fits
    <3> QED BY <1>0, <1>2, <1>8, <1>9, <2>1, <3>10, <3>11, StepKeeps DEF Good
  <2>5. CASE s = "unlist"
    <3>1. /\ job[k].kind \in {"delete", "purge"} /\ Done(k, "rmdir") /\ Done(k, "down")
      BY <1>1, <1>2, <2>5, AtIs DEF Coherent, Has, Ordered, Done
    <3>2. files[i] = NoFiles /\ engine[i].stack = "none"
      BY <1>0, <1>10, <3>1 DEF JobOK, FilesJob, DataJob
    <3>3. Agree(i)' /\ Fits(i)'
      BY <1>3, <3>2 DEF Agree, Fits, NoFiles, NoConfig
    <3>4. ~stale' => inventory'[i] = Unlisted
      BY <1>0, <1>1, <1>7, <2>5, EntryIs
    <3>5. ~stale' => Lists(i)' /\ NotUp(i)'
      BY <1>3, <3>2, <3>4 DEF Lists, NotUp, Listed, Unlisted, NoFiles, NoConfig
    <3> QED BY <1>0, <1>2, <1>8, <1>9, <2>1, <3>3, <3>5, StepKeeps DEF Good
  <2>6. CASE s = "enlist"
    <3>1. job[k].kind = "repair"
      BY <1>2, <2>6 DEF Has
    <3>2. job[k].kind \notin Writers \union {"address"} /\ job[k].kind \in Keepers
      BY <3>1 DEF Marks, Writers, Keepers
    <3>3. broken' = broken
      BY <2>1, <3>1 DEF Over, Mends, Spoils
    <3>4. i \notin broken => Agree(i) /\ Fits(i) /\ files[i].manifest = c /\ c \in Config
      BY <1>0, <1>10, <2>2, <3>1, <3>2 DEF JobOK, FilesJob, DataJob
    <3>5. ~stale' /\ i \notin broken => Lists(i) /\ NotUp(i)
      BY <1>0, <1>7, <1>10, <3>1, <3>2 DEF JobOK, ListJob
    <3>6. c \in Config => c # NoConfig
      BY InstancesAssumption DEF Config, NoConfig
    <3>7. ~stale' /\ i \notin broken => inventory'[i] = inventory[i]
      BY <1>0, <1>1, <1>7, <2>6, <3>4, <3>5, <3>6, EntryIs DEF Lists, Listed, Unlisted
    <3>8. ~stale' /\ i \notin broken' => Lists(i)' /\ NotUp(i)'
      BY <1>3, <3>3, <3>5, <3>7 DEF Lists, NotUp, Listed
    <3>9. i \notin broken' => Agree(i)' /\ Fits(i)'
      BY <1>3, <3>3, <3>4 DEF Agree, Fits
    <3> QED BY <1>0, <1>2, <1>8, <1>9, <2>1, <3>8, <3>9, StepKeeps DEF Good
  <2>7. s # "relist"
    BY <1>2, <1>11 DEF Ends
  <2> QED BY <2>3, <2>4, <2>5, <2>6, <2>7 DEF Writings
<1>12. CASE ~Ends(job[k].kind, s)
  <2>1. Goes(k) /\ job'[k].seen = NoOne /\ job'[k].saved = job[k].saved
    BY <1>6, <1>12
  <2>2. s \in {"register", "relist"}
    BY <1>12 DEF Ends, Writings
  <2>3. FilesJob(k)' /\ SecretsJob(k)' /\ RestoreJob(k)' /\ DataJob(k)'
    BY <1>0, <1>2, <1>3, <1>9, <2>1, <2>2, FilesKept, SecretsKept, RestoreKept, DataKept
  <2>4. /\ Same(job[k], job'[k]) /\ job'[k].on = i /\ job'[k].kind = job[k].kind
        /\ job'[k].config = c /\ broken' = broken
    BY <1>0, <2>1 DEF Goes, Same
  <2>5. job[k].kind \in Writers \union {"address"} /\ (s = "relist" <=> job[k].kind = "address")
    BY <1>2, <2>2 DEF Has, Writers
  <2>6. job[k].kind \notin Marks \union Keepers \union {"delete", "purge", "repair", "disable"}
    BY <2>5 DEF Writers, Marks, Keepers
  <2>7. ~At(k, "register")' /\ ~At(k, "relist")'
    <3>1. job[k].kind \in DOMAIN Steps /\ job[k].at \in 1..LastPlace(k) /\ job[k].at < LastPlace(k)
      BY <1>2, <2>1, RunIs DEF Coherent, Goes
    <3>2. Steps[job[k].kind][job[k].at] # "look"
      BY <1>2, <2>2 DEF At, Runs
    <3>3. Steps[job[k].kind][job[k].at + 1] \notin {"register", "relist"}
      BY <3>1, <3>2, StepFacts DEF LastPlace
    <3> QED BY <2>1, <2>4, <3>3 DEF At, Goes
  <2>8. /\ Done(k, "register")' <=> Done(k, "register") \/ s = "register"
        /\ Done(k, "relist")' <=> Done(k, "relist") \/ s = "relist"
        /\ Done(k, "save") => Done(k, "save")'
        /\ Done(k, "register") => job[k].kind \in Writers
        /\ job[k].kind = "restore" => Done(k, "save")
    <3>1. /\ Done(k, "register")' <=> Done(k, "register") \/ s = "register"
          /\ Done(k, "relist")' <=> Done(k, "relist") \/ s = "relist"
          /\ Done(k, "save") => Done(k, "save")'
      BY <1>1, <1>2, <2>1, DoneGoes DEF Coherent
    <3>2. Done(k, "register") => job[k].kind \in Writers
      BY <1>2, DoneHas DEF Coherent, Has
    <3>3. job[k].kind = "restore" => s = "register"
      BY <2>2, <2>5
    <3>4. job[k].kind = "restore" => Done(k, "save")
      BY <1>1, <3>3, AtIs DEF Coherent, Ordered, Done
    <3> QED BY <3>1, <3>2, <3>4
  <2>9. ~stale' /\ s = "register" => inventory'[i] = [status |-> "active", domain |-> c.domain]
    BY <1>0, <1>1, <1>7, EntryIs
  <2>10. ~stale' /\ s = "relist" =>
           inventory'[i].status = "active" /\ inventory'[i].domain = c.domain
    <3> SUFFICES ASSUME ~stale', s = "relist"
                 PROVE  inventory'[i].status = "active" /\ inventory'[i].domain = c.domain
      OBVIOUS
    <3>1. inventory[i].status = "active"
      BY <1>0, <1>7, <1>10, <2>5 DEF JobOK, ListJob
    <3>2. job[k].seen[i].status = "active" /\ job[k].seen[i] # Unlisted
      BY <1>7, <3>1 DEF Unlisted
    <3> QED BY <1>0, <1>1, <1>7, <3>2, EntryIs
  <2>11. \A x \in Id : Form(NoOne[x])
    BY DEF NoOne, Form, Unlisted
  <2>12. ListJob(k)'
    <3>1. CASE s = "register"
      <4>1. job[k].kind # "address" /\ Done(k, "register")'
        BY <2>5, <2>8, <3>1
      <4> QED BY <2>1, <2>4, <2>6, <2>7, <2>8, <2>9, <2>11, <3>1, <4>1
              DEF ListJob, Form, Keepers, Marks
    <3>2. CASE s = "relist"
      <4>1. job[k].kind = "address" /\ ~Done(k, "register")'
        BY <2>5, <2>8, <3>2 DEF Writers
      <4> QED BY <2>1, <2>4, <2>6, <2>7, <2>8, <2>10, <2>11, <3>2, <4>1
              DEF ListJob, Form, Keepers, Marks
    <3> QED BY <2>2, <3>1, <3>2
  <2>13. Runs(k)'
    BY <1>2, <2>4 DEF Runs
  <2> QED BY <1>0, <1>2, <1>8, <1>9, <2>3, <2>4, <2>12, <2>13, StepKeeps DEF JobOK
<1> QED BY <1>11, <1>12

----------------------------------------------------------------------------
(* The steps on the containers and the volume                               *)

Initial(e, f) == IF e.volume = 0 THEN f.secrets ELSE e.volume

LEMMA CommandedIs ==
  ASSUME Coherent, NEW k \in Id, NEW s \in DockerSteps, At(k, s),
         NEW i \in Id, i = job[k].on, NEW e, e = engine[i], NEW f, f = files[i],
         NEW d, d = Commanded(k)
  PROVE  /\ d \in EngineType
         /\ s = "reclaim" =>
              /\ d.stack = e.stack /\ d.release = e.release
              /\ f.secrets = 0 => d.volume = 0 /\ d.schema = 0
              /\ f.secrets # 0 => d = e
         /\ s = "up" =>
              /\ d.stack = "up" /\ d.release = f.compose.release
              /\ d.volume = Initial(e, f) /\ d.schema = e.schema
         /\ s = "provision" =>
              /\ d.stack = e.stack /\ d.release = e.release /\ d.volume = e.volume
              /\ d.schema = Later(e.schema, e.release)
         /\ s = "stop" =>
              /\ d.stack = IF e.stack = "up" THEN "stopped" ELSE e.stack
              /\ d.volume = e.volume /\ d.schema = e.schema
         /\ s = "down" => d.stack = "none" /\ d.volume = e.volume /\ d.schema = e.schema
         /\ s = "wipe" => d.stack = e.stack /\ d.release = e.release /\ d.volume = 0 /\ d.schema = 0
         /\ s \in {"import", "copy"} =>
              /\ d.stack = IF e.stack = "none" THEN "stopped" ELSE e.stack
              /\ d.volume = Initial(e, f)
              /\ d.schema = IF s = "copy" THEN engine[k].schema ELSE job[k].snap.schema
         /\ s = "migrate" =>
              /\ d.stack = e.stack /\ d.release = e.release /\ d.volume = e.volume
              /\ d.schema \in {e.schema, Later(e.schema, e.release)}
<1>1. Runs(k) /\ (\A t : At(k, t) => t = s) /\ Has(job[k].kind, s)
  BY AtIs DEF Coherent
<1>2. e \in EngineType /\ f \in FileType /\ engine[k] \in EngineType /\ Schema \subseteq Nat
  BY TypesAre, InstancesAssumption DEF Coherent, Schema, Release
<1>3. f.compose.release \in Schema
  BY <1>2 DEF FileType, Config, NoConfig, Schema
<1>4. job[k].snap.content \in Nat /\ job[k].snap.schema \in Schema
  <2>1. job[k].snap \in Snapshots
    BY <1>1, RunIs DEF Coherent, Job
  <2> QED BY <2>1 DEF Snapshots
<1>5. Later(e.schema, e.release) \in Schema
  BY <1>2 DEF Later, EngineType
<1>6. FreshContent \in Nat
  BY FreshContentIs DEF Coherent
<1>7. CASE s = "reclaim"
  <2>1. d = Reclaimed(e, f)
    BY <1>1, <1>7 DEF Commanded
  <2> QED BY <1>2, <1>7, <2>1 DEF Reclaimed, EngineType, Schema
<1>8. CASE s = "up"
  <2>1. d = Up(e, f)
    BY <1>1, <1>8 DEF Commanded
  <2> QED BY <1>2, <1>3, <1>8, <2>1 DEF Up, Initialised, Initial, EngineType, FileType
<1>9. CASE s = "provision"
  <2>1. d = Provisioned(e)
    BY <1>1, <1>9 DEF Commanded
  <2> QED BY <1>2, <1>5, <1>6, <1>9, <2>1 DEF Provisioned, Migrated, EngineType
<1>10. CASE s = "stop"
  <2>1. d = [e EXCEPT !.stack = IF @ = "up" THEN "stopped" ELSE @]
    BY <1>1, <1>10 DEF Commanded
  <2> QED BY <1>2, <1>10, <2>1 DEF EngineType
<1>11. CASE s = "down"
  <2>1. d = [e EXCEPT !.stack = "none", !.release = 0]
    BY <1>1, <1>11 DEF Commanded
  <2> QED BY <1>2, <1>11, <2>1 DEF EngineType, Schema
<1>12. CASE s = "wipe"
  <2>1. d = [e EXCEPT !.volume = 0, !.content = 0, !.schema = 0]
    BY <1>1, <1>12 DEF Commanded
  <2> QED BY <1>2, <1>12, <2>1 DEF EngineType, Schema
<1>13. CASE s = "import"
  <2>1. d = Loaded(e, f, job[k].snap)
    BY <1>1, <1>13 DEF Commanded
  <2> QED BY <1>2, <1>4, <1>13, <2>1 DEF Loaded, Initialised, Initial, EngineType, FileType
<1>14. CASE s = "copy"
  <2>1. d = Loaded(e, f, engine[k])
    BY <1>1, <1>14 DEF Commanded
  <2>2. PICK g \in EngineType : g = engine[k]
    BY <1>2
  <2> QED BY <1>2, <1>14, <2>1, <2>2 DEF Loaded, Initialised, Initial, EngineType, FileType
<1>15. CASE s = "migrate"
  <2>1. d = IF job[k].head \in {0, job[k].config.release} THEN e ELSE Migrated(e)
    BY <1>1, <1>15 DEF Commanded
  <2>2. CASE d = e
    BY <1>2, <1>15, <2>2
  <2>3. CASE d = Migrated(e)
    BY <1>2, <1>5, <1>15, <2>3 DEF Migrated, EngineType
  <2> QED BY <2>1, <2>2, <2>3
<1> QED BY <1>7, <1>8, <1>9, <1>10, <1>11, <1>12, <1>13, <1>14, <1>15 DEF DockerSteps

\* What a step on the engine needs, changes and leaves alone, whichever it is.
LEMMA DockerIs ==
  ASSUME Coherent, NEW k \in Id, Docker(k), NEW s \in DockerSteps, At(k, s),
         NEW i \in Id, i = job[k].on
  PROVE  /\ Runs(k) /\ (\A t : At(k, t) => t = s) /\ Has(job[k].kind, s)
         /\ Ordered(job[k].kind, job[k].at, s) /\ JobOK(k)
         /\ UNCHANGED <<inventory, files, backups, stale>>
         /\ engine'[i] = Commanded(k)
         /\ TypeOK' /\ Apart(k)
         /\ IF Ends(job[k].kind, s) THEN Over(k)
            ELSE Goes(k) /\ job'[k].seen = job[k].seen /\ job'[k].saved = job[k].saved
         /\ Whole(i)'
<1>1. Runs(k) /\ (\A t : At(k, t) => t = s) /\ Has(job[k].kind, s)
      /\ Ordered(job[k].kind, job[k].at, s) /\ JobOK(k)
  BY AtIs DEF Coherent
<1>2. Proceed(k, job[k]) /\ UNCHANGED <<inventory, files, backups, stale>> /\ Able(k)
  BY DEF Docker
<1>3. /\ JobsOK' /\ broken' \subseteq Id /\ UNCHANGED <<cleaner, count>>
      /\ IF Ends(job[k].kind, s) THEN Over(k)
         ELSE Goes(k) /\ job'[k].seen = job[k].seen /\ job'[k].saved = job[k].saved
  BY <1>2, SameSelf, StepGoes DEF Coherent
<1>4. Commanded(k) \in EngineType
  BY CommandedIs
<1>5. /\ engine' \in [Id -> EngineType] /\ engine'[i] = Commanded(k)
      /\ \A x \in Id \ {i} : engine'[x] = engine[x]
  <2>1. engine' = [engine EXCEPT ![i] = Commanded(k)]
    BY DEF Docker
  <2> QED BY <1>4, <2>1, TypesAre DEF Coherent
<1>6. TypeOK'
  BY <1>2, <1>3, <1>5, TypesAre, TypesGo DEF Coherent
<1>7. Apart(k)
  <2>1. Others(k) /\ \A x \in Id \ {i} : x \in broken' <=> x \in broken
    BY <1>3 DEF Goes, Over
  <2> QED BY <1>2, <1>3, <1>5, <2>1 DEF Apart, Coherent, Whole
<1>8. Whole(i)'
  <2>1. Whole(i) /\ files'[i] = files[i]
    BY <1>2 DEF Coherent
  <2>2. PICK e \in EngineType : e = engine[i]
    BY TypesAre DEF Coherent
  <2>3. PICK d \in EngineType : d = Commanded(k)
    BY <1>4
  <2>4. files[i] \in FileType
    BY TypesAre DEF Coherent
  <2>5. e.volume = 0 => e.schema = 0 /\ e.stack = "none"
    BY <2>1, <2>2 DEF Whole, Empty
  <2>6. files[i].secrets # 0 /\ e.volume # 0 => e.volume = files[i].secrets
    BY <2>1, <2>2 DEF Whole, Opens, Open
  <2>7. /\ d.volume = 0 => d.schema = 0 /\ d.stack = "none"
        /\ files[i].secrets # 0 /\ d.volume # 0 => d.volume = files[i].secrets
    <3>1. CASE s = "reclaim"
      <4>1. files[i].secrets # 0 \/ e.volume = 0 \/ e.stack = "none"
        BY <1>1, <1>2, <2>2, <3>1 DEF Able
      <4> QED BY <2>2, <2>3, <2>5, <2>6, <3>1, <4>1, CommandedIs
    <3>2. CASE s \in {"up", "import", "copy"}
      <4>1. files[i].secrets # 0
        BY <1>1, <1>2, <3>2 DEF Able
      <4>2. d.volume = Initial(e, files[i])
        BY <2>2, <2>3, <3>2, CommandedIs
      <4> QED BY <2>6, <4>1, <4>2 DEF Initial
    <3>3. CASE s \in {"provision", "migrate"}
      <4>1. e.stack = "up"
        BY <1>1, <1>2, <2>2, <3>3 DEF Able
      <4> QED BY <2>2, <2>3, <2>5, <2>6, <3>3, <4>1, CommandedIs
    <3>4. CASE s \in {"stop", "down"}
      BY <2>2, <2>3, <2>5, <2>6, <3>4, CommandedIs
    <3>5. CASE s = "wipe"
      <4>1. e.stack = "none"
        BY <1>1, <1>2, <2>2, <3>5 DEF Able
      <4> QED BY <2>2, <2>3, <3>5, <4>1, CommandedIs
    <3> QED BY <3>1, <3>2, <3>3, <3>4, <3>5 DEF DockerSteps
  <2>8. Opens(i)' /\ Empty(i)'
    BY <1>5, <2>1, <2>3, <2>7 DEF Opens, Open, Empty
  <2> QED BY <1>2, <2>1, <2>8 DEF Whole, Saved, Form, Sane
<1> QED BY <1>1, <1>2, <1>3, <1>5, <1>6, <1>7, <1>8

LEMMA EngineGoes ==
  ASSUME Coherent, NEW k \in Id, Docker(k), NEW s \in DockerSteps, At(k, s),
         ~Ends(job[k].kind, s)
  PROVE  Coherent'
<1>1. PICK i \in Id, c \in Config \union {NoConfig} : i = job[k].on /\ c = job[k].config
  <2>1. Runs(k)
    BY DEF At, Runs
  <2> QED BY <2>1, RunIs DEF Coherent, Job
<1>2. /\ Runs(k) /\ (\A t : At(k, t) => t = s) /\ Has(job[k].kind, s)
      /\ Ordered(job[k].kind, job[k].at, s) /\ JobOK(k)
      /\ UNCHANGED <<inventory, files, backups, stale>>
      /\ TypeOK' /\ Apart(k) /\ Whole(i)'
      /\ Goes(k) /\ job'[k].seen = job[k].seen /\ job'[k].saved = job[k].saved
  BY <1>1, DockerIs
<1>3. PICK e \in EngineType, d \in EngineType : e = engine[i] /\ d = Commanded(k)
  BY <1>1, CommandedIs, TypesAre DEF Coherent
<1>4. engine'[i] = d
  BY <1>1, <1>3, DockerIs
<1>5. /\ Same(job[k], job'[k]) /\ job'[k].on = i /\ job'[k].kind = job[k].kind
      /\ job'[k].config = c /\ job'[k].snap = job[k].snap /\ broken' = broken
  BY <1>1, <1>2 DEF Goes, Same
<1>6. FilesJob(k)'
  BY <1>1, <1>2, FilesKept DEF DockerSteps
<1>7. RestoreJob(k)'
  <2>1. job[k].kind = "restore" => Done(k, "save") \/ s \notin {"stop", "import", "up"}
    BY <1>2 DEF Ordered, Done
  <2>2. job[k].kind = "restore" => s \in {"stop", "import", "up"}
    BY <1>2 DEF Has, DockerSteps
  <2>3. ~At(k, "save")
    BY <1>2 DEF DockerSteps
  <2> QED BY <1>1, <1>2, <2>1, <2>2, <2>3, RestoreKept
<1>8. /\ \A t \in DockerSteps : Done(k, t)' <=> Done(k, t) \/ t = s
      /\ \A t : Done(k, t) => Has(job[k].kind, t)
      /\ Done(k, "save")' <=> Done(k, "save")
      /\ Done(k, "compose")' <=> Done(k, "compose")
  <2>1. \A t : Done(k, t)' <=> Done(k, t) \/ At(k, t)
    BY <1>2, DoneGoes DEF Coherent
  <2>2. \A t : Done(k, t) => Has(job[k].kind, t)
    BY <1>2, DoneHas DEF Coherent
  <2>3. ~At(k, "save") /\ ~At(k, "compose") /\ At(k, s)
    BY <1>2 DEF DockerSteps
  <2> QED BY <1>2, <2>1, <2>2, <2>3
<1>9. Able(k)
  BY DEF Docker
<1>10. SecretsJob(k) /\ DataJob(k) /\ ListJob(k) /\ FilesJob(k) /\ Whole(i)
  BY <1>2 DEF JobOK, Coherent
<1>11. CASE s = "reclaim"
  <2>1. job[k].kind = "install"
    BY <1>2, <1>11 DEF Has
  <2>2. /\ files[i].secrets = 0 => d.volume = 0 /\ d.schema = 0
        /\ files[i].secrets # 0 => d = e
        /\ d.stack = e.stack /\ d.release = e.release
    BY <1>1, <1>3, <1>11, CommandedIs
  <2>3. SecretsJob(k)'
    BY <1>2, <1>4, <1>5, <2>1, <2>2 DEF SecretsJob, Fresh
  <2>4. ~Done(k, "up")'
    <3>1. ~Done(k, "up")
      BY <1>2, <1>11 DEF Ordered, Done
    <3> QED BY <1>8, <1>11, <3>1 DEF DockerSteps
  <2>5. DataJob(k)'
    BY <1>1, <1>2, <1>3, <1>4, <1>5, <1>10, <2>1, <2>2, <2>4 DEF DataJob, Writers
  <2>6. ListJob(k)'
    BY <1>1, <1>2, <1>3, <1>4, <1>11, <2>2, ListKept
  <2> QED BY <1>1, <1>2, <1>5, <1>6, <1>7, <2>3, <2>5, <2>6, StepKeeps DEF JobOK, Runs
<1>12. CASE s = "up"
  <2>1. job[k].kind \in {"install", "enable", "import"}
    BY <1>2, <1>12 DEF Ends
  <2>2. /\ d.stack = "up" /\ d.release = files[i].compose.release /\ d.schema = e.schema
        /\ files[i].compose # NoConfig /\ files[i].secrets # 0
    BY <1>1, <1>2, <1>3, <1>9, <1>12, CommandedIs DEF Able
  <2>3. job[k].kind # "enable" => Done(k, "compose")
    BY <1>2, <1>12, <2>1 DEF Ordered, Done, Writers
  <2>4. job[k].kind = "import" => Done(k, "import")
    BY <1>2, <1>12 DEF Ordered, Done
  <2>5. SecretsJob(k)'
    BY <1>2, <1>5, <1>8, <2>1, <2>2, <2>4 DEF SecretsJob, Fresh, DockerSteps
  <2>6. job[k].kind # "enable" => files[i].compose = c
    BY <1>1, <1>10, <2>1, <2>3 DEF FilesJob, Writers
  <2>7. /\ Done(k, "up")'
        /\ Done(k, "reclaim")' <=> Done(k, "reclaim")
        /\ Done(k, "import")' <=> Done(k, "import")
        /\ Done(k, "copy")' <=> Done(k, "copy")
    BY <1>8, <1>12 DEF DockerSteps
  <2>8. DataJob(k)'
    <3>1. CASE job[k].kind = "enable"
      <4>1. i \notin broken => Fits(i)'
        BY <1>1, <1>2, <1>3, <1>4, <1>10, <2>2, <3>1 DEF DataJob, Fits, Writers
      <4> QED BY <1>5, <3>1, <4>1 DEF DataJob, Fits
    <3>2. CASE job[k].kind # "enable"
      <4>1. job[k].kind \in Writers /\ job[k].kind \in {"install", "import"}
        BY <2>1, <3>2 DEF Writers
      <4> QED BY <1>1, <1>2, <1>3, <1>4, <1>5, <1>10, <2>2, <2>6, <2>7, <4>1 DEF DataJob, Sane
    <3> QED BY <3>1, <3>2
  <2>9. ListJob(k)'
    BY <1>1, <1>2, <1>12, ListKept
  <2> QED BY <1>1, <1>2, <1>5, <1>6, <1>7, <2>5, <2>8, <2>9, StepKeeps DEF JobOK, Runs
<1>13. CASE s = "stop"
  <2>1. job[k].kind \in {"disable", "restore", "import"}
    BY <1>2, <1>13 DEF Has
  <2>2. /\ d.stack = IF e.stack = "up" THEN "stopped" ELSE e.stack
        /\ d.volume = e.volume /\ d.schema = e.schema
    BY <1>1, <1>3, <1>13, CommandedIs
  <2>3. ~Done(k, "import") /\ ~Done(k, "up") /\ (job[k].kind = "restore" => Done(k, "save"))
    BY <1>2, <1>13 DEF Ordered, Done
  <2>4. /\ Done(k, "up")' <=> Done(k, "up")
        /\ Done(k, "import")' <=> Done(k, "import")
        /\ Done(k, "copy")' <=> Done(k, "copy")
    BY <1>8, <1>13 DEF DockerSteps
  <2>5. SecretsJob(k)'
    BY <1>1, <1>3, <1>4, <1>5, <1>10, <2>1, <2>2, <2>4 DEF SecretsJob
  <2>6. Fits(i) => Fits(i)'
    BY <1>2, <1>3, <1>4, <2>2 DEF Fits
  <2>7. DataJob(k)'
    <3>1. ~Done(k, "copy")
      BY <1>8, <2>1 DEF Has
    <3> QED BY <1>1, <1>5, <1>10, <2>1, <2>3, <2>4, <2>6, <3>1 DEF DataJob, Fits, Sane
  <2>8. d.stack # "up"
    BY <2>2
  <2>9. ListJob(k)'
    <3>1. /\ Done(k, "save")' <=> Done(k, "save")
          /\ Done(k, "register")' <=> Done(k, "register")
          /\ ~At(k, "register")' /\ ~At(k, "relist")'
      <4>1. Done(k, "register")' <=> Done(k, "register")
        BY <1>2, <1>13, DoneGoes DEF Coherent
      <4>2. job[k].kind \in DOMAIN Steps /\ job[k].at \in 1..LastPlace(k) /\ job[k].at < LastPlace(k)
        BY <1>2, RunIs DEF Coherent, Goes
      <4>3. Steps[job[k].kind][job[k].at] # "look"
        BY <1>2, <1>13 DEF At, Runs
      <4>4. Steps[job[k].kind][job[k].at + 1] \notin {"register", "relist"}
        BY <4>2, <4>3, StepFacts DEF LastPlace
      <4> QED BY <1>2, <1>5, <1>8, <4>1, <4>4 DEF At, Goes
    <3>2. Lists(i)' <=> Lists(i)
      BY <1>2 DEF Lists, Listed
    <3>3. job[k].kind \notin {"backup", "repair", "address", "env", "mailer", "update", "delete", "purge"}
      BY <2>1
    <3> QED BY <1>1, <1>2, <1>4, <1>5, <1>10, <2>1, <2>3, <2>8, <3>1, <3>2, <3>3
            DEF ListJob, Lists, Listed, Form
  <2> QED BY <1>1, <1>2, <1>5, <1>6, <1>7, <2>5, <2>7, <2>9, StepKeeps DEF JobOK, Runs
<1>14. CASE s = "down"
  <2>1. job[k].kind \in {"keep", "delete", "purge"}
    BY <1>2, <1>14 DEF Has
  <2>2. d.stack = "none" /\ d.volume = e.volume /\ d.schema = e.schema
    BY <1>1, <1>3, <1>14, CommandedIs
  <2>3. SecretsJob(k)'
    BY <1>5, <2>1 DEF SecretsJob, Fresh
  <2>4. Fits(i) => Fits(i)'
    BY <1>2, <1>3, <1>4, <2>2 DEF Fits
  <2>5. DataJob(k)'
    BY <1>1, <1>4, <1>5, <1>10, <2>1, <2>2, <2>4 DEF DataJob, Fits
  <2>6. ListJob(k)'
    BY <1>1, <1>2, <1>4, <1>14, <2>2, ListKept
  <2> QED BY <1>1, <1>2, <1>5, <1>6, <1>7, <2>3, <2>5, <2>6, StepKeeps DEF JobOK, Runs
<1>15. CASE s = "wipe"
  <2>1. job[k].kind = "purge" /\ Done(k, "down")
    BY <1>2, <1>15 DEF Has, Ordered, Done
  <2>2. d.stack = e.stack /\ d.schema = 0 /\ d.release = e.release
    BY <1>1, <1>3, <1>15, CommandedIs
  <2>3. SecretsJob(k)'
    BY <1>5, <2>1 DEF SecretsJob, Fresh
  <2>4. e.stack = "none"
    BY <1>1, <1>3, <1>10, <2>1 DEF DataJob
  <2>5. Fits(i)'
    BY <1>4, <2>2, <2>4 DEF Fits
  <2>6. DataJob(k)'
    BY <1>4, <1>5, <2>1, <2>2, <2>4, <2>5 DEF DataJob, Fits
  <2>7. ListJob(k)'
    BY <1>1, <1>2, <1>3, <1>4, <1>15, <2>2, ListKept
  <2> QED BY <1>1, <1>2, <1>5, <1>6, <1>7, <2>3, <2>6, <2>7, StepKeeps DEF JobOK, Runs
<1>16. CASE s \in {"import", "copy"}
  <2>1. job[k].kind \in {"clone", "restore", "import"} /\ (s = "copy" <=> job[k].kind = "clone")
    BY <1>2, <1>16 DEF Has
  <2>2. /\ d.stack = IF e.stack = "none" THEN "stopped" ELSE e.stack
        /\ d.schema = IF s = "copy" THEN engine[k].schema ELSE job[k].snap.schema
    BY <1>1, <1>3, <1>16, CommandedIs
  <2>3. Done(k, "copy")' \/ Done(k, "import")'
    BY <1>8, <1>16 DEF DockerSteps
  <2>4. /\ job[k].kind = "restore" => Done(k, "import")'
        /\ job[k].kind = "import" => Done(k, "import")'
        /\ job[k].kind = "clone" => Done(k, "copy")'
    BY <1>8, <1>16, <2>1 DEF DockerSteps
  <2>5. SecretsJob(k)'
    BY <1>5, <2>1, <2>3 DEF SecretsJob, Fresh
  <2>6. job[k].snap.sound => d.schema \in {0, c.release}
    BY <1>1, <1>10, <1>16, <2>1, <2>2 DEF DataJob, Sane
  <2>7. job[k].kind = "import" => d.stack # "up"
    <3> SUFFICES ASSUME job[k].kind = "import" PROVE d.stack # "up"
      OBVIOUS
    <3>1. ~Done(k, "import") /\ ~Done(k, "copy")
      <4>1. s = "import"
        BY <1>16, <2>1
      <4>2. ~Done(k, "import")
        BY <1>2, <4>1 DEF Ordered, Done
      <4> QED BY <1>8, <4>2 DEF Has
    <3>2. e.volume = 0
      BY <1>1, <1>3, <1>10, <3>1 DEF SecretsJob, Fresh
    <3>3. e.stack = "none"
      BY <1>3, <1>10, <3>2 DEF Whole, Empty
    <3> QED BY <2>2, <3>3
  <2>8. job[k].kind = "clone" => engine'[k] = engine[k]
    BY <1>1, <1>2 DEF Apart, Coherent, Alone
  <2>9. DataJob(k)'
    <3>1. job[k].kind \in Writers /\ job[k].kind \notin {"install", "delete", "purge"}
      BY <2>1 DEF Writers
    <3>2. job[k].kind = "import" => Done(k, "up")' <=> Done(k, "up")
      BY <1>8, <1>16 DEF DockerSteps
    <3>3. job[k].kind = "import" => ~Done(k, "up")'
      <4> SUFFICES ASSUME job[k].kind = "import" PROVE ~Done(k, "up")
        BY <3>2
      <4>1. s = "import"
        BY <1>16, <2>1
      <4> QED BY <1>2, <4>1 DEF Ordered, Done
    <3> QED BY <1>1, <1>4, <1>5, <1>10, <2>1, <2>3, <2>4, <2>6, <2>7, <2>8, <3>1, <3>3
            DEF DataJob, Sane
  <2>10. ListJob(k)'
    BY <1>1, <1>2, <1>3, <1>4, <1>16, <2>2, ListKept
  <2> QED BY <1>1, <1>2, <1>5, <1>6, <1>7, <2>5, <2>9, <2>10, StepKeeps DEF JobOK, Runs
<1>17. s \notin {"provision", "migrate"}
  BY DEF Ends
<1> QED BY <1>11, <1>12, <1>13, <1>14, <1>15, <1>16, <1>17 DEF DockerSteps

LEMMA EngineEnds ==
  ASSUME Coherent, NEW k \in Id, Docker(k), NEW s \in DockerSteps, At(k, s),
         Ends(job[k].kind, s)
  PROVE  Coherent'
<1>1. PICK i \in Id, c \in Config \union {NoConfig} : i = job[k].on /\ c = job[k].config
  <2>1. Runs(k)
    BY DEF At, Runs
  <2> QED BY <2>1, RunIs DEF Coherent, Job
<1>2. /\ Runs(k) /\ (\A t : At(k, t) => t = s) /\ Has(job[k].kind, s)
      /\ Ordered(job[k].kind, job[k].at, s) /\ JobOK(k)
      /\ UNCHANGED <<inventory, files, backups, stale>>
      /\ TypeOK' /\ Apart(k) /\ Whole(i)' /\ Over(k)
  BY <1>1, DockerIs
<1>3. PICK e \in EngineType, d \in EngineType : e = engine[i] /\ d = Commanded(k)
  BY <1>1, CommandedIs, TypesAre DEF Coherent
<1>4. engine'[i] = d
  BY <1>1, <1>3, DockerIs
<1>5. ~Runs(k)'
  BY <1>2, IdleIs DEF Over, Runs
<1>6. \A t : Done(k, t) => Has(job[k].kind, t)
  BY <1>2, DoneHas DEF Coherent
<1>7. Able(k)
  BY DEF Docker
<1>8. SecretsJob(k) /\ DataJob(k) /\ ListJob(k) /\ FilesJob(k)
  BY <1>2 DEF JobOK
<1>9. c \in Config => c # NoConfig /\ c.release \in Nat \ {0}
  BY InstancesAssumption DEF Config, NoConfig, Release
\* Whoever has written the directory and the entry anew has made them agree.
<1>10. CASE job[k].kind \in Writers
  <2>1. /\ Done(k, "compose") /\ Done(k, "manifest") /\ Done(k, "lock") /\ Done(k, "register")
    <3>1. CASE s = "up"
      BY <1>2, <1>10, <3>1 DEF Ordered, Done
    <3>2. CASE s \in {"provision", "migrate"}
      BY <1>2, <3>2 DEF Ordered, Done
    <3> QED BY <3>1, <3>2 DEF Ends, DockerSteps
  <2>2. /\ files[i].compose = c /\ files[i].manifest = c /\ files[i].lock = c.release
        /\ c \in Config
    BY <1>1, <1>8, <1>10, <2>1 DEF FilesJob
  <2>3. ~stale => inventory[i].status = "active" /\ inventory[i].domain = c.domain
    BY <1>1, <1>8, <2>1 DEF ListJob
  <2>4. Agree(i)' /\ (~stale' => Lists(i)' /\ NotUp(i)')
    BY <1>2, <1>9, <2>2, <2>3 DEF Agree, Lists, NotUp, Listed
  <2>5. i \notin broken' => Fits(i)'
    <3> SUFFICES ASSUME i \notin broken' PROVE Fits(i)'
      OBVIOUS
    <3>1. job[k].kind \in {"clone", "restore", "import"} => job[k].snap.sound
      BY <1>1, <1>2 DEF Over, Mends, Spoils
    <3>2. CASE s = "up"
      <4>1. job[k].kind \in {"clone", "restore"}
        BY <1>10, <1>2, <3>2 DEF Ends, Has, Writers
      <4>2. Done(k, "copy") \/ Done(k, "import")
        BY <1>2, <3>2, <4>1 DEF Ordered, Done
      <4>3. e.schema \in {0, c.release}
        BY <1>1, <1>3, <1>8, <3>1, <4>1, <4>2 DEF DataJob
      <4>4. d.stack = "up" /\ d.release = files[i].compose.release /\ d.schema = e.schema
        BY <1>1, <1>3, <3>2, CommandedIs
      <4> QED BY <1>2, <1>4, <1>9, <2>2, <4>3, <4>4 DEF Fits
    <3>3. CASE s = "provision"
      <4>1. job[k].kind = "install" /\ Done(k, "reclaim") /\ Done(k, "up")
        BY <1>2, <3>3 DEF Has, Ordered, Done
      <4>2. e.schema \in {0, c.release} /\ e.release = c.release
        BY <1>1, <1>3, <1>8, <4>1 DEF DataJob
      <4>3. d.stack = e.stack /\ d.release = e.release /\ d.schema = Later(e.schema, e.release)
        BY <1>1, <1>3, <3>3, CommandedIs
      <4>4. d.schema = c.release
        BY <1>9, <2>2, <4>2, <4>3 DEF Later
      <4> QED BY <1>2, <1>4, <1>9, <2>2, <4>2, <4>3, <4>4 DEF Fits
    <3>4. CASE s = "migrate"
      <4>1. job[k].kind = "import" /\ Done(k, "import") /\ Done(k, "up")
        BY <1>2, <3>4 DEF Has, Ordered, Done
      <4>2. e.schema \in {0, c.release} /\ e.release = c.release
        BY <1>1, <1>3, <1>8, <3>1, <4>1 DEF DataJob
      <4>3. /\ d.stack = e.stack /\ d.release = e.release
            /\ d.schema \in {e.schema, Later(e.schema, e.release)}
        BY <1>1, <1>3, <3>4, CommandedIs
      <4>4. d.schema \in {0, c.release}
        BY <4>2, <4>3 DEF Later
      <4> QED BY <1>2, <1>4, <1>9, <2>2, <4>2, <4>3, <4>4 DEF Fits
    <3> QED BY <3>2, <3>3, <3>4 DEF Ends, DockerSteps
  <2> QED BY <1>1, <1>2, <1>5, <2>4, <2>5, StepKeeps DEF Good
<1>11. CASE job[k].kind \notin Writers
  <2>1. s = "up" /\ job[k].kind \in {"address", "env", "mailer"}
    BY <1>2, <1>11 DEF Ends, Has, DockerSteps, Writers
  <2>2. /\ d.stack = "up" /\ d.release = files[i].compose.release /\ d.schema = e.schema
        /\ files[i].compose # NoConfig
    BY <1>1, <1>2, <1>3, <1>7, <2>1, CommandedIs DEF Able
  <2>3. broken' = broken
    BY <1>2, <2>1 DEF Over, Mends, Spoils
  <2>4. i \notin broken => Fits(i)'
    BY <1>1, <1>2, <1>3, <1>4, <1>8, <1>11, <2>2 DEF DataJob, Fits
  <2>5. ~stale => inventory[i].status = "active"
    BY <1>1, <1>8, <2>1 DEF ListJob
  <2>6. CASE job[k].kind = "address"
    <3>1. Done(k, "compose") /\ Done(k, "manifest") /\ Done(k, "relist")
      BY <1>2, <2>1, <2>6 DEF Ordered, Done
    <3>2. /\ files[i].compose = c /\ files[i].manifest = c /\ files[i].lock = c.release
          /\ c \in Config
      BY <1>1, <1>8, <2>6, <3>1 DEF FilesJob
    <3>3. ~stale => inventory[i].domain = c.domain
      BY <1>1, <1>8, <2>6, <3>1 DEF ListJob
    <3>4. Agree(i)' /\ (~stale' => Lists(i)' /\ NotUp(i)')
      BY <1>2, <1>9, <2>5, <3>2, <3>3 DEF Agree, Lists, NotUp, Listed
    <3> QED BY <1>1, <1>2, <1>5, <2>3, <2>4, <3>4, StepKeeps DEF Good
  <2>7. CASE job[k].kind # "address"
    <3>1. ~Done(k, "compose") /\ job[k].kind \in Keepers
      BY <1>6, <1>11, <2>1, <2>7 DEF Has, Keepers
    <3>2. i \notin broken => Agree(i) /\ (~stale => Lists(i))
      BY <1>1, <1>8, <3>1 DEF FilesJob, ListJob
    <3>3. i \notin broken => Agree(i)' /\ (~stale' => Lists(i)' /\ NotUp(i)')
      BY <1>2, <2>5, <3>2 DEF Agree, Lists, NotUp, Listed
    <3> QED BY <1>1, <1>2, <1>5, <2>3, <2>4, <3>3, StepKeeps DEF Good
  <2> QED BY <2>6, <2>7
<1> QED BY <1>10, <1>11

LEMMA DockerKeeps ==
  ASSUME Coherent, NEW k \in Id, Docker(k)
  PROVE  Coherent'
<1>1. PICK s \in DockerSteps : At(k, s)
  BY DEF Docker
<1> QED BY <1>1, EngineGoes, EngineEnds

----------------------------------------------------------------------------
(* A backup, an update, and a step that fails                               *)

\* Before the backup it begins with, or is, an operation finds the instance as it was.
LEMMA BeforeSave ==
  ASSUME Coherent, NEW k \in Id, At(k, "save"), NEW i \in Id, i = job[k].on
  PROVE  i \notin broken => Good(i)
<1> SUFFICES ASSUME i \notin broken PROVE Good(i)
  OBVIOUS
<1>1. Runs(k) /\ Has(job[k].kind, "save") /\ Ordered(job[k].kind, job[k].at, "save")
  BY AtIs DEF Coherent
<1>2. job[k].kind \in {"backup", "update", "restore"} /\ ~Done(k, "save")
  BY <1>1 DEF Has, Ordered, Done
<1>3. FilesJob(k) /\ DataJob(k) /\ ListJob(k)
  BY <1>1 DEF Coherent, JobOK
<1>4. job[k].kind = "restore" => ~Done(k, "import") /\ ~Done(k, "compose")
  BY <1>1 DEF Ordered, Done
<1>5. ~Done(k, "compose")
  <2>1. Done(k, "compose") => job[k].kind \in Writers \union {"address"}
    BY <1>1, DoneHas DEF Coherent, Has
  <2> QED BY <1>2, <1>4, <2>1 DEF Writers
<1>6. Agree(i) /\ Fits(i)
  BY <1>2, <1>3, <1>4, <1>5 DEF FilesJob, DataJob, Writers
<1>7. ~stale => Lists(i) /\ NotUp(i)
  BY <1>2, <1>3 DEF ListJob, Keepers, NotUp
<1> QED BY <1>6, <1>7 DEF Good

LEMMA SaveKeeps ==
  ASSUME Coherent, NEW k \in Id, Save(k)
  PROVE  Coherent'
<1> DEFINE j == [job[k] EXCEPT !.saved = job[k].kind = "restore"]
<1>1. At(k, "save") /\ Proceed(k, j) /\ UNCHANGED <<inventory, files, engine, stale>> /\ Able(k)
  BY DEF Save
<1>2. Runs(k) /\ (\A t : At(k, t) => t = "save") /\ Has(job[k].kind, "save")
  BY <1>1, AtIs DEF Coherent
<1>0. PICK i \in Id : i = job[k].on
  BY <1>2, RunIs DEF Coherent
<1>3. PICK snap : snap = Snapshot(i)
  OBVIOUS
<1>4. /\ engine[i] \in EngineType /\ files[i] \in FileType
      /\ files[i].manifest # NoConfig
  BY <1>0, <1>1, TypesAre DEF Coherent, Able
<1>5. /\ snap \in Snapshots /\ snap.config = files[i].manifest
      /\ snap.content = engine[i].content /\ snap.schema = engine[i].schema
      /\ snap.sound = (i \notin broken)
  BY <1>3, <1>4 DEF Snapshot, Snapshots, EngineType, FileType
<1>6. i \notin broken => Good(i)
  BY <1>0, <1>1, BeforeSave
<1>7. snap.config \in Config /\ Sane(snap.config, snap)
  <2>1. snap.config \in Config
    BY <1>4, <1>5 DEF FileType
  <2>2. i \notin broken => snap.schema \in {0, snap.config.release}
    BY <1>4, <1>5, <1>6 DEF Good, Agree, Fits
  <2> QED BY <1>5, <2>1, <2>2 DEF Sane
<1>8. PICK old \in Seq(Snapshots) : old = backups[i]
  BY TypesAre DEF Coherent
<1>9. backups' = [backups EXCEPT ![i] = Append(old, snap)]
  <2>1. backups' = [backups EXCEPT ![i] = Append(@, Snapshot(i))]
    BY <1>0, Zenon DEF Save
  <2> QED BY <1>3, <1>8, <2>1
<1>10. PICK new : new = Append(old, snap)
  OBVIOUS
<1>11. /\ new \in Seq(Snapshots) /\ Len(new) = Len(old) + 1 /\ new[Len(old) + 1] = snap /\ Len(old) \in Nat
       /\ \A n \in 1..Len(old) : new[n] = old[n]
  BY <1>5, <1>8, <1>10
<1>12. /\ backups' \in [Id -> Seq(Snapshots)] /\ backups'[i] = new
       /\ \A x \in Id \ {i} : backups'[x] = backups[x]
  BY <1>9, <1>10, <1>11, TypesAre DEF Coherent
<1>13. /\ j \in Job /\ Same(job[k], j) /\ j.at = job[k].at
       /\ j.seen = job[k].seen /\ j.saved = (job[k].kind = "restore")
  BY <1>2, RunIs DEF Coherent, Job, Same
<1> HIDE DEF j
<1>14. /\ JobsOK' /\ broken' \subseteq Id /\ UNCHANGED <<cleaner, count>>
       /\ IF Ends(job[k].kind, "save") THEN Over(k)
          ELSE Goes(k) /\ job'[k].seen = job[k].seen /\ job'[k].saved = (job[k].kind = "restore")
  BY <1>1, <1>13, StepGoes
<1>15. TypeOK'
  BY <1>1, <1>12, <1>14, TypesAre, TypesGo DEF Coherent
<1>16. Apart(k)
  <2>1. Others(k) /\ \A x \in Id \ {i} : x \in broken' <=> x \in broken
    BY <1>0, <1>14 DEF Goes, Over
  <2> QED BY <1>0, <1>1, <1>12, <1>14, <2>1 DEF Apart, Coherent, Whole
<1>17. Whole(i)'
  <2>1. Whole(i)
    BY DEF Coherent
  <2>2. ASSUME NEW n \in 1..Len(new)
        PROVE  new[n].config \in Config /\ Sane(new[n].config, new[n])
    <3>1. CASE n = Len(old) + 1
      BY <1>7, <1>11, <3>1
    <3>2. CASE n \in 1..Len(old)
      BY <1>8, <1>11, <2>1, <3>2 DEF Whole, Saved
    <3> QED BY <1>11, <3>1, <3>2
  <2>3. Saved(i)'
    BY <1>12, <2>2 DEF Saved, Sane
  <2> QED BY <1>1, <2>1, <2>3 DEF Whole, Opens, Open, Empty, Form
<1>18. CASE Ends(job[k].kind, "save")
  <2>1. Over(k) /\ ~Runs(k)' /\ job[k].kind = "backup"
    BY <1>14, <1>18, IdleIs DEF Over, Runs, Ends
  <2>2. broken' = broken
    BY <2>1 DEF Over, Mends, Spoils
  <2>3. i \notin broken' => Good(i)'
    BY <1>1, <1>6, <2>2 DEF Good, Agree, Fits, Lists, NotUp, Listed
  <2> QED BY <1>0, <1>2, <1>15, <1>16, <1>17, <2>1, <2>3, StepKeeps
<1>19. CASE ~Ends(job[k].kind, "save")
  <2>1. /\ Goes(k) /\ job'[k].seen = job[k].seen
        /\ job'[k].saved = (job[k].kind = "restore")
    BY <1>14, <1>19
  <2>2. FilesJob(k)' /\ SecretsJob(k)' /\ DataJob(k)' /\ ListJob(k)'
    BY <1>0, <1>1, <1>2, <1>16, <2>1, FilesKept, SecretsKept, DataKept, ListKept
  <2>3. Done(k, "save")' /\ ~Done(k, "save")
    BY <1>1, <1>2, <2>1, DoneGoes, AtIs DEF Coherent, Ordered, Done
  <2>4. Same(job[k], job'[k]) /\ job'[k].on = i /\ RestoreJob(k)
    BY <1>0, <1>2, <2>1 DEF Goes, Same, Coherent, JobOK
  <2>5. RestoreJob(k)'
    <3> SUFFICES ASSUME job[k].kind = "restore"
                 PROVE  /\ job'[k].saved
                        /\ \E n \in 1..Len(new) : new[n].content = job[k].had
      BY <1>12, <2>3, <2>4 DEF RestoreJob, Same
    <3>1. engine[i].content = job[k].had
      BY <1>0, <2>3, <2>4 DEF RestoreJob
    <3>2. Len(old) + 1 \in 1..Len(new) /\ new[Len(old) + 1].content = job[k].had
      BY <1>5, <1>11, <3>1
    <3> QED BY <2>1, <3>2
  <2>6. Runs(k)'
    BY <1>2, <2>4 DEF Runs, Same
  <2> QED BY <1>0, <1>2, <1>15, <1>16, <1>17, <2>2, <2>4, <2>5, <2>6, StepKeeps DEF JobOK
<1> QED BY <1>18, <1>19

LEMMA UpgradeKeeps ==
  ASSUME Coherent, NEW k \in Id, Upgrade(k)
  PROVE  Coherent'
<1>1. /\ At(k, "upgrade") /\ Able(k) /\ Proceed(k, job[k])
      /\ UNCHANGED <<inventory, backups, stale>>
  BY DEF Upgrade
<1>2. Runs(k) /\ (\A t : At(k, t) => t = "upgrade") /\ job[k].kind = "update"
  BY <1>1, AtIs DEF Coherent, Has
<1>3. FilesJob(k) /\ DataJob(k) /\ ListJob(k)
  BY <1>2 DEF Coherent, JobOK
<1>4. PICK i \in Id, c \in Config : i = job[k].on /\ c = job[k].config
  BY <1>2, <1>3, RunIs DEF Coherent, FilesJob
<1>5. PICK e \in EngineType, f \in FileType : e = engine[i] /\ f = files[i]
  BY TypesAre DEF Coherent
<1>6. /\ c # NoConfig /\ c.release \in Schema /\ c.release \in Nat \ {0} /\ Schema \subseteq Nat
  BY InstancesAssumption DEF Config, NoConfig, Release, Schema
<1>7. e.stack = "up"
  BY <1>1, <1>2, <1>4, <1>5 DEF Able
<1> DEFINE g == [f EXCEPT !.compose = c, !.manifest = c, !.lock = c.release]
           d == Migrated([e EXCEPT !.release = c.release])
<1>8. /\ g \in FileType /\ g.compose = c /\ g.manifest = c /\ g.lock = c.release
      /\ g.secrets = f.secrets
  BY <1>5, <1>6 DEF FileType
<1>9. /\ d \in EngineType /\ d.stack = e.stack /\ d.release = c.release
      /\ d.volume = e.volume /\ d.schema = Later(e.schema, c.release)
  <2>1. Later(e.schema, c.release) \in Schema
    BY <1>5, <1>6 DEF Later, EngineType
  <2> QED BY <1>5, <1>6, <2>1 DEF Migrated, EngineType
<1>10. files' = [files EXCEPT ![i] = g] /\ engine' = [engine EXCEPT ![i] = d]
  BY <1>4, <1>5 DEF Upgrade
<1> HIDE DEF g, d
<1>11. /\ files' \in [Id -> FileType] /\ engine' \in [Id -> EngineType]
       /\ files'[i] = g /\ engine'[i] = d
       /\ \A x \in Id \ {i} : files'[x] = files[x] /\ engine'[x] = engine[x]
  BY <1>8, <1>9, <1>10, TypesAre DEF Coherent
<1>12. JobsOK' /\ broken' \subseteq Id /\ UNCHANGED <<cleaner, count>> /\ Over(k)
  BY <1>1, <1>2, SameSelf, StepGoes DEF Coherent, Ends
<1>13. TypeOK'
  BY <1>1, <1>11, <1>12, TypesAre, TypesGo DEF Coherent
<1>14. Apart(k)
  BY <1>1, <1>4, <1>11, <1>12 DEF Apart, Over, Coherent, Whole
<1>15. Whole(i)'
  <2>1. Whole(i)
    BY DEF Coherent
  <2>2. e.volume # 0
    BY <1>5, <1>7, <2>1 DEF Whole, Empty
  <2> QED BY <1>1, <1>5, <1>8, <1>9, <1>11, <2>1, <2>2
          DEF Whole, Opens, Open, Empty, Saved, Form, Sane
<1>16. broken' = broken /\ ~Runs(k)'
  BY <1>2, <1>12, IdleIs DEF Over, Mends, Spoils, Runs
<1>17. ~Done(k, "compose")
  BY <1>2, DoneHas DEF Coherent, Has, Writers
<1>18. i \notin broken => Agree(i) /\ Fits(i)
  BY <1>2, <1>3, <1>4, <1>17 DEF FilesJob, DataJob, Writers
<1>19. c.domain = f.manifest.domain /\ c.release = f.lock + 1 /\ f.lock \in Nat
  BY <1>2, <1>3, <1>4, <1>5, <1>6 DEF FilesJob, FileType
<1>20. i \notin broken => d.schema = c.release
  <2> SUFFICES ASSUME i \notin broken PROVE d.schema = c.release
    OBVIOUS
  <2>1. e.schema # 0 => e.schema = f.lock
    BY <1>5, <1>7, <1>18 DEF Agree, Fits
  <2> QED BY <1>6, <1>9, <1>19, <2>1 DEF Later
<1>21. i \notin broken => Agree(i)' /\ Fits(i)'
  BY <1>6, <1>8, <1>9, <1>11, <1>20 DEF Agree, Fits
<1>22. ~stale /\ i \notin broken => inventory[i].status = "active" /\ inventory[i].domain = c.domain
  BY <1>2, <1>3, <1>4, <1>5, <1>19 DEF ListJob, Keepers, Lists
<1>23. ~stale' /\ i \notin broken => Lists(i)' /\ NotUp(i)'
  BY <1>1, <1>6, <1>8, <1>11, <1>22 DEF Lists, NotUp, Listed
<1> QED BY <1>2, <1>4, <1>13, <1>14, <1>15, <1>16, <1>21, <1>23, StepKeeps DEF Good

\* An operation that has failed is gone; unless it failed in its backup, its instance
\* counts as broken from then on.
LEMMA FailKeeps ==
  ASSUME Coherent, NEW k \in Id, Fail(k)
  PROVE  Coherent'
<1>1. /\ Runs(k) /\ job' = [job EXCEPT ![k] = Idle(k)]
      /\ broken' = IF At(k, "save") THEN broken ELSE broken \union {job[k].on}
      /\ UNCHANGED <<inventory, backups, cleaner, stale>>
  BY DEF Fail, Runs
<1>2. PICK i \in Id : i = job[k].on
  BY <1>1, RunIs DEF Coherent
<1>3. JobsOK' /\ Others(k) /\ ~Runs(k)'
  BY <1>1, IdleIs DEF Coherent, TypeOK, JobsOK, Others, Runs
<1>4. broken' \subseteq Id
  BY <1>1, <1>2 DEF Coherent, TypeOK
<1>5. count' \in [ops : 0..MaxOps, faults : 0..MaxFaults, edits : 0..MaxEdits]
  <2>1. count \in [ops : 0..MaxOps, faults : 0..MaxFaults, edits : 0..MaxEdits]
    BY DEF Coherent, TypeOK
  <2>2. CASE UNCHANGED count
    BY <2>1, <2>2
  <2>3. CASE count.faults < MaxFaults /\ count' = [count EXCEPT !.faults = @ + 1]
    <3>1. count.faults + 1 \in 0..MaxFaults
      BY <2>1, <2>3, InstancesAssumption
    <3> QED BY <2>1, <2>3, <3>1
  <2> QED BY <2>2, <2>3 DEF Fail
<1>6. PICK e \in EngineType, f \in FileType : e = engine[i] /\ f = files[i]
  BY TypesAre DEF Coherent
<1>7. Whole(i) /\ inventory[i] = inventory'[i] /\ backups[i] = backups'[i]
  BY <1>1 DEF Coherent
\* What a step that fails half way leaves is no worse than what was there.
<1>8. /\ files' \in [Id -> FileType] /\ engine' \in [Id -> EngineType]
      /\ \A x \in Id \ {i} : files'[x] = files[x] /\ engine'[x] = engine[x]
      /\ Opens(i)' /\ Empty(i)'
      /\ At(k, "save") => files' = files /\ engine' = engine
  <2>1. CASE UNCHANGED <<files, engine>>
    BY <1>7, <2>1, TypesAre DEF Coherent, Whole, Opens, Open, Empty
  <2>2. CASE /\ At(k, "rmdir") /\ UNCHANGED engine
             /\ \E gone \in SUBSET DOMAIN NoFiles :
                  files' = [files EXCEPT ![i] =
                              [p \in DOMAIN NoFiles |-> IF p \in gone THEN NoFiles[p] ELSE @[p]]]
    <3>1. PICK gone \in SUBSET DOMAIN NoFiles :
            files' = [files EXCEPT ![i] =
                        [p \in DOMAIN NoFiles |-> IF p \in gone THEN NoFiles[p] ELSE f[p]]]
      BY <1>6, <2>2
    <3> DEFINE g == [p \in DOMAIN NoFiles |-> IF p \in gone THEN NoFiles[p] ELSE f[p]]
    <3>2. g \in FileType /\ (g.secrets = 0 \/ g.secrets = f.secrets)
      <4>1. DOMAIN NoFiles = {"manifest", "compose", "lock", "secrets"}
        BY DEF NoFiles
      <4>2. /\ NoFiles["manifest"] = NoConfig /\ NoFiles["compose"] = NoConfig
            /\ NoFiles["lock"] = 0 /\ NoFiles["secrets"] = 0
        BY DEF NoFiles
      <4>3. /\ f["manifest"] \in Config \union {NoConfig} /\ f["compose"] \in Config \union {NoConfig}
            /\ f["lock"] \in Schema /\ f["secrets"] \in Nat
        BY <1>6 DEF FileType
      <4>4. /\ g["manifest"] \in Config \union {NoConfig} /\ g["compose"] \in Config \union {NoConfig}
            /\ g["lock"] \in Schema /\ g["secrets"] \in Nat
            /\ g["secrets"] = 0 \/ g["secrets"] = f["secrets"]
        BY <4>1, <4>2, <4>3 DEF Schema
      <4>5. DOMAIN g = {"manifest", "compose", "lock", "secrets"} /\ g = [p \in DOMAIN g |-> g[p]]
        BY <4>1
      <4> HIDE DEF g
      <4>6. g = [manifest |-> g["manifest"], compose |-> g["compose"], lock |-> g["lock"],
                 secrets |-> g["secrets"]]
        BY <4>5
      <4> QED BY <4>4, <4>6 DEF FileType
    <3> HIDE DEF g
    <3>3. files' = [files EXCEPT ![i] = g]
      BY <3>1 DEF g
    <3>4. /\ files' \in [Id -> FileType] /\ files'[i] = g
          /\ \A x \in Id \ {i} : files'[x] = files[x]
      BY <3>2, <3>3, TypesAre DEF Coherent
    <3>5. engine' = engine /\ engine \in [Id -> EngineType] /\ ~At(k, "save")
      BY <2>2, TypesAre, AtIs DEF Coherent
    <3> QED BY <1>6, <1>7, <3>2, <3>4, <3>5 DEF Whole, Opens, Open, Empty
  <2>3. CASE /\ At(k, "import") /\ Able(k) /\ UNCHANGED files
             /\ engine' = [engine EXCEPT ![i] = Loaded(@, files[i], NoSnapshot)]
    <3> DEFINE d == Loaded(e, f, NoSnapshot)
    <3>1. f.secrets # 0 /\ e.volume \in {0, f.secrets}
      BY <1>2, <1>6, <2>3 DEF Able
    <3>2. d \in EngineType /\ d.volume = f.secrets
      BY <1>6, <3>1 DEF Loaded, Initialised, NoSnapshot, EngineType, FileType, Schema
    <3> HIDE DEF d
    <3>3. engine' = [engine EXCEPT ![i] = d]
      BY <1>6, <2>3 DEF d
    <3>4. /\ engine' \in [Id -> EngineType] /\ engine'[i] = d
          /\ \A x \in Id \ {i} : engine'[x] = engine[x]
      BY <3>2, <3>3, TypesAre DEF Coherent
    <3>5. files' = files /\ files \in [Id -> FileType] /\ ~At(k, "save")
      BY <2>3, TypesAre, AtIs DEF Coherent
    <3> QED BY <1>6, <3>1, <3>2, <3>4, <3>5 DEF Opens, Open, Empty
  <2> QED BY <1>2, <2>1, <2>2, <2>3 DEF Fail, Halfway
<1>9. TypeOK'
  <2>1. /\ inventory' \in [Id -> Listing] /\ backups' \in [Id -> Seq(Snapshots)]
        /\ stale' \in BOOLEAN
    BY <1>1, TypesAre DEF Coherent
  <2>2. cleaner' \in {Resting} \union
          [phase : {"volumes", "directory"}, on : Id, wipe : BOOLEAN, remove : BOOLEAN]
    BY <1>1 DEF Coherent, TypeOK
  <2> QED BY <1>3, <1>4, <1>5, <1>8, <2>1, <2>2 DEF TypeOK, JobsOK, FileType, EngineType
<1>10. Apart(k)
  BY <1>1, <1>2, <1>3, <1>8 DEF Apart, Coherent, Whole
<1>11. Whole(i)'
  BY <1>7, <1>8 DEF Whole, Saved, Form, Sane
<1>12. i \notin broken' => Good(i)'
  <2> SUFFICES ASSUME i \notin broken' PROVE Good(i)'
    OBVIOUS
  <2>1. At(k, "save") /\ broken' = broken
    BY <1>1, <1>2
  <2>2. Good(i)
    BY <1>2, <2>1, BeforeSave
  <2>3. files' = files /\ engine' = engine /\ inventory' = inventory /\ stale' = stale
    BY <1>1, <1>8, <2>1
  <2> QED BY <2>2, <2>3 DEF Good, Agree, Fits, Lists, NotUp, Listed
<1> QED BY <1>1, <1>2, <1>3, <1>9, <1>10, <1>11, <1>12, StepKeeps

LEMMA StepKeepsCoherent ==
  ASSUME Coherent, NEW k \in Id, Step(k)
  PROVE  Coherent'
BY WriteFileKeeps, WriteSecretsKeeps, LookKeeps, WriteInventoryKeeps, DockerKeeps,
   SaveKeeps, UpgradeKeeps, RemoveDirKeeps, FailKeeps DEF Step

----------------------------------------------------------------------------
(* Users, and the clean-up of orphans                                       *)

LEMMA EditKeeps ==
  ASSUME Coherent, NEW i \in Id, Edit(i)
  PROVE  Coherent'
<1>1. UNCHANGED <<inventory, files, backups, cleaner, broken, stale>>
  BY DEF Edit
<1>2. PICK n \in Nat : n = FreshContent
  BY FreshContentIs DEF Coherent
<1>3. /\ engine' \in [Id -> EngineType] /\ engine'[i].content = n
      /\ \A x \in Id \ {i} : engine'[x] = engine[x]
      /\ \A x \in Id : /\ engine'[x].stack = engine[x].stack /\ engine'[x].release = engine[x].release
                       /\ engine'[x].volume = engine[x].volume
                       /\ engine'[x].schema = engine[x].schema
  <2>1. engine' = [engine EXCEPT ![i].content = n]
    BY <1>2 DEF Edit
  <2> QED BY <1>2, <2>1, TypesAre DEF Coherent, EngineType
<1>4. /\ job' \in [Id -> Job] /\ \A x \in Id \ {i} : job'[x] = job[x]
      /\ \A x \in Id : /\ job'[x].kind = job[x].kind /\ job'[x].on = job[x].on
                       /\ job'[x].at = job[x].at /\ job'[x].config = job[x].config
                       /\ job'[x].head = job[x].head /\ job'[x].seen = job[x].seen
                       /\ job'[x].snap = job[x].snap /\ job'[x].saved = job[x].saved
      /\ job'[i].had = IF job[i].kind = "restore" /\ ~job[i].saved THEN n ELSE job[i].had
  <2>1. job' = [job EXCEPT ![i].had =
                  IF job[i].kind = "restore" /\ ~job[i].saved THEN n ELSE @]
    BY <1>2 DEF Edit
  <2>2. job \in [Id -> Job]
    BY DEF Coherent, TypeOK
  <2> QED BY <1>2, <2>1, <2>2 DEF Job
<1>5. TypeOK'
  <2>1. count \in [ops : 0..MaxOps, faults : 0..MaxFaults, edits : 0..MaxEdits]
    BY DEF Coherent, TypeOK
  <2>2. count.edits < MaxEdits /\ count' = [count EXCEPT !.edits = @ + 1]
    BY DEF Edit
  <2>3. count' \in [ops : 0..MaxOps, faults : 0..MaxFaults, edits : 0..MaxEdits]
    <3>1. count.edits + 1 \in 0..MaxEdits
      BY <2>1, <2>2, InstancesAssumption
    <3> QED BY <2>1, <2>2, <3>1
  <2> QED BY <1>1, <1>3, <1>4, <2>3 DEF Coherent, TypeOK, EngineType
<1>6. \A e \in Id : (Runs(e)' <=> Runs(e))
  BY <1>4 DEF Runs
<1>7. \A e \in Id : \A t : (Done(e, t)' <=> Done(e, t)) /\ (At(e, t)' <=> At(e, t))
  BY <1>4 DEF Done, Prior, At
<1>8. \A x \in Id : Busy(x)' <=> Busy(x)
  BY <1>4 DEF Busy
<1>9. Alone'
  BY <1>4, <1>6 DEF Coherent, Alone
<1>10. CleanerOK'
  <2>1. cleaner.phase # "rest" => cleaner.on \in Id
    BY DEF Coherent, TypeOK, Resting
  <2> QED BY <1>1, <1>3, <1>8, <2>1 DEF Coherent, CleanerOK
<1>11. ASSUME NEW x \in Id PROVE Whole(x)' /\ Rested(x)'
  <2>1. Whole(x) /\ Rested(x)
    BY DEF Coherent
  <2> QED BY <1>1, <1>3, <1>8, <2>1 DEF Whole, Opens, Open, Empty, Saved, Form, Sane,
          Rested, Good, Agree, Fits, Lists, NotUp, Listed
<1>12. ASSUME NEW e \in Id, Runs(e)' PROVE JobOK(e)'
  <2>1. PICK x \in Id : x = job[e].on
    BY <1>6, <1>12, RunIs DEF Coherent
  <2>2. JobOK(e)
    BY <1>6, <1>12 DEF Coherent
  <2>3. FilesJob(e)' /\ SecretsJob(e)'
    BY <1>1, <1>3, <1>4, <1>7, <2>1, <2>2 DEF JobOK, FilesJob, SecretsJob, Agree
  <2>4. DataJob(e)'
    BY <1>1, <1>3, <1>4, <1>7, <2>1, <2>2 DEF JobOK, DataJob, Fits, Sane
  <2>5. ListJob(e)'
    BY <1>1, <1>3, <1>4, <1>7, <2>1, <2>2 DEF JobOK, ListJob, Lists, NotUp, Listed, Form
  <2>6. RestoreJob(e)'
    <3> SUFFICES ASSUME job[e].kind = "restore" PROVE RestoreJob(e)'
      BY <1>4 DEF RestoreJob
    <3>1. x = e
      BY <1>6, <1>12, <2>1 DEF Coherent, Alone
    <3>2. RestoreJob(e)
      BY <2>2 DEF JobOK
    <3>3. /\ Done(e, "save")' <=> Done(e, "save")
          /\ job'[e].kind = "restore" /\ job'[e].on = e /\ job'[e].saved = job[e].saved
          /\ backups' = backups
      BY <1>1, <1>4, <1>7, <2>1, <3>1
    <3>4. ~Done(e, "save") => engine'[e].content = job'[e].had
      <4>1. ~Done(e, "save") => ~job[e].saved /\ engine[e].content = job[e].had
        BY <2>1, <3>1, <3>2 DEF RestoreJob
      <4> QED BY <1>3, <1>4, <4>1
    <3>5. Done(e, "save") =>
            job[e].saved /\ \E m \in 1..Len(backups[e]) : backups[e][m].content = job[e].had
      BY <2>1, <3>1, <3>2 DEF RestoreJob
    <3>6. job[e].saved => job'[e].had = job[e].had
      BY <1>4
    <3>7. ~Done(e, "save") => ~job[e].saved
      BY <2>1, <3>1, <3>2 DEF RestoreJob
    <3> QED BY <3>3, <3>4, <3>5, <3>6, <3>7 DEF RestoreJob
  <2> QED BY <2>3, <2>4, <2>5, <2>6 DEF JobOK
<1> QED BY <1>5, <1>9, <1>10, <1>11, <1>12 DEF Coherent

\* The clean-up, and the start of an operation, leave what runs as it is.
LEMMA JobsStay ==
  ASSUME Coherent, NEW e \in Id, Runs(e), job'[e] = job[e],
         UNCHANGED <<inventory, broken, stale>>,
         NEW x \in Id, x = job[e].on, files'[x] = files[x], engine'[x] = engine[x],
         backups'[x] = backups[x],
         job[e].kind = "clone" => engine'[e].schema \in {0, engine[e].schema}
  PROVE  Runs(e)' /\ JobOK(e)'
<1>1. JobOK(e)
  BY DEF Coherent
<1>2. \A t : (Done(e, t)' <=> Done(e, t)) /\ (At(e, t)' <=> At(e, t))
  BY DEF Done, Prior, At
<1>3. FilesJob(e)' /\ SecretsJob(e)' /\ RestoreJob(e)'
  BY <1>1, <1>2 DEF JobOK, FilesJob, SecretsJob, RestoreJob, Agree
<1>4. DataJob(e)'
  BY <1>1, <1>2 DEF JobOK, DataJob, Fits, Sane
<1>5. ListJob(e)'
  BY <1>1, <1>2 DEF JobOK, ListJob, Lists, NotUp, Listed, Form
<1> QED BY <1>3, <1>4, <1>5 DEF JobOK, Runs

Cleaners == [phase : {"volumes", "directory"}, on : Id, wipe : BOOLEAN, remove : BOOLEAN]

\* What the clean-up changes is of its own instance alone.
LEMMA CleaningKeeps ==
  ASSUME Coherent, NEW i \in Id, ~Busy(i), UNCHANGED <<inventory, job, broken, stale>>,
         files' \in [Id -> FileType], engine' \in [Id -> EngineType],
         backups' \in [Id -> Seq(Snapshots)],
         count' \in [ops : 0..MaxOps, faults : 0..MaxFaults, edits : 0..MaxEdits],
         cleaner' \in {Resting} \union Cleaners,
         \A x \in Id \ {i} : /\ files'[x] = files[x] /\ engine'[x] = engine[x]
                             /\ backups'[x] = backups[x],
         engine'[i].schema \in {0, engine[i].schema},
         Whole(i)', i \notin broken => Good(i)', CleanerOK'
  PROVE  Coherent'
<1>1. TypeOK'
  BY DEF Coherent, TypeOK, FileType, EngineType, Cleaners
<1>2. Alone'
  BY DEF Coherent, Alone, Runs
<1>3. \A x \in Id : Busy(x)' <=> Busy(x)
  BY DEF Busy
<1>4. ASSUME NEW x \in Id PROVE Whole(x)' /\ Rested(x)'
  <2>1. CASE x = i
    BY <2>1 DEF Rested
  <2>2. CASE x # i
    <3>1. Whole(x) /\ Rested(x)
      BY DEF Coherent
    <3> QED BY <1>3, <2>2, <3>1 DEF Whole, Opens, Open, Empty, Saved, Form, Sane,
            Rested, Good, Agree, Fits, Lists, NotUp, Listed
  <2> QED BY <2>1, <2>2
<1>5. ASSUME NEW e \in Id, Runs(e)' PROVE JobOK(e)'
  <2>1. Runs(e) /\ job'[e] = job[e]
    BY <1>5 DEF Runs
  <2>2. PICK x \in Id : x = job[e].on
    BY <2>1, RunIs DEF Coherent
  <2>3. x # i
    BY <2>1, <2>2 DEF Busy, Runs
  <2>4. engine'[e].schema \in {0, engine[e].schema}
    BY <2>1
  <2> QED BY <2>1, <2>2, <2>3, <2>4, JobsStay
<1> QED BY <1>1, <1>2, <1>4, <1>5 DEF Coherent

LEMMA ScanKeeps ==
  ASSUME Coherent, NEW i \in Id, Careful, Scan(i)
  PROVE  Coherent'
<1>1. /\ UNCHANGED <<inventory, files, engine, backups, job, broken, stale>>
      /\ ~Busy(i) /\ ~Listed(inventory, i) /\ count.ops < MaxOps
      /\ cleaner' = [phase |-> "volumes", on |-> i, wipe |-> engine[i].volume # 0,
                     remove |-> files[i] # NoFiles \/ backups[i] # <<>>]
      /\ count' = [count EXCEPT !.ops = @ + 1]
  BY DEF Scan
<1>2. count' \in [ops : 0..MaxOps, faults : 0..MaxFaults, edits : 0..MaxEdits]
  <2>1. count \in [ops : 0..MaxOps, faults : 0..MaxFaults, edits : 0..MaxEdits]
    BY DEF Coherent, TypeOK
  <2>2. count.ops + 1 \in 0..MaxOps
    BY <1>1, <2>1, InstancesAssumption
  <2> QED BY <1>1, <2>1, <2>2
<1>3. cleaner' \in Cleaners
  BY <1>1 DEF Cleaners
<1>4. Whole(i) /\ Rested(i)
  BY DEF Coherent
<1>5. inventory[i] = Unlisted
  BY <1>1, <1>4 DEF Whole, Form, Listed
<1>6. ~Busy(i)'
  BY <1>1 DEF Busy
<1>7. CleanerOK'
  BY <1>1, <1>5, <1>6 DEF CleanerOK
<1>8. Whole(i)' /\ (i \notin broken => Good(i)')
  BY <1>1, <1>4 DEF Whole, Opens, Open, Empty, Saved, Form, Sane,
            Rested, Good, Agree, Fits, Lists, NotUp, Listed
<1>9. /\ files' \in [Id -> FileType] /\ engine' \in [Id -> EngineType]
      /\ backups' \in [Id -> Seq(Snapshots)]
      /\ engine'[i].schema \in {0, engine[i].schema}
  BY <1>1, TypesAre DEF Coherent
<1> QED BY <1>1, <1>2, <1>3, <1>7, <1>8, <1>9, CleaningKeeps

LEMMA CleanerIs ==
  ASSUME TypeOK, cleaner.phase # "rest"
  PROVE  cleaner \in Cleaners
BY DEF TypeOK, Resting, Cleaners

LEMMA WipeOrphanKeeps ==
  ASSUME Coherent, WipeOrphan
  PROVE  Coherent'
<1>1. /\ cleaner.phase = "volumes" /\ cleaner \in Cleaners
      /\ UNCHANGED <<inventory, files, backups, job, broken, stale, count>>
  BY CleanerIs DEF WipeOrphan, Coherent
<1>2. PICK i \in Id : i = cleaner.on
  BY <1>1 DEF Cleaners
<1>3. PICK e \in EngineType : e = engine[i]
  BY TypesAre DEF Coherent
<1>4. /\ ~Busy(i) /\ Whole(i) /\ Rested(i) /\ (cleaner.wipe \/ e.volume = 0)
      /\ (cleaner.remove \/ files[i] = NoFiles) /\ (~stale => inventory[i] = Unlisted)
  BY <1>1, <1>2, <1>3 DEF Coherent, CleanerOK
<1>5. e.volume = 0 => e.schema = 0 /\ e.stack = "none"
  BY <1>3, <1>4 DEF Whole, Empty
<1> DEFINE refused == cleaner.wipe /\ e.stack # "none"
           d == [e EXCEPT !.volume = 0, !.content = 0, !.schema = 0]
<1>6. d \in EngineType /\ d.volume = 0 /\ d.schema = 0 /\ d.stack = e.stack /\ d.release = e.release
  BY <1>3 DEF EngineType, Schema
<1>7. /\ engine' = IF cleaner.wipe /\ ~refused THEN [engine EXCEPT ![i] = d] ELSE engine
      /\ cleaner' = IF refused THEN Resting ELSE [cleaner EXCEPT !.phase = "directory"]
  BY <1>2, <1>3 DEF WipeOrphan
<1> HIDE DEF d
<1>8. /\ engine' \in [Id -> EngineType] /\ engine'[i] \in {d, e}
      /\ \A x \in Id \ {i} : engine'[x] = engine[x]
      /\ engine'[i] # e => e.stack = "none"
      /\ ~refused => engine'[i].volume = 0 /\ engine'[i].stack = "none"
  BY <1>3, <1>4, <1>5, <1>6, <1>7, TypesAre DEF Coherent
<1>9. /\ cleaner' \in {Resting} \union Cleaners
      /\ cleaner'.phase # "rest" =>
           /\ ~refused /\ cleaner'.on = i /\ cleaner'.remove = cleaner.remove
           /\ cleaner'.phase = "directory"
  <2>1. CASE refused
    BY <1>7, <2>1 DEF Resting
  <2>2. CASE ~refused
    BY <1>1, <1>2, <1>7, <2>2 DEF Cleaners
  <2> QED BY <2>1, <2>2
<1> HIDE DEF refused
<1>10. ~Busy(i)'
  BY <1>1, <1>4 DEF Busy
<1>11. CleanerOK'
  BY <1>1, <1>4, <1>8, <1>9, <1>10 DEF CleanerOK
<1>12. Whole(i)'
  <2>1. /\ engine'[i].volume = 0 => engine'[i].schema = 0 /\ engine'[i].stack = "none"
        /\ engine'[i].volume \in {0, e.volume}
    BY <1>5, <1>6, <1>8
  <2>2. Opens(i)' /\ Empty(i)'
    BY <1>1, <1>3, <1>4, <2>1 DEF Whole, Opens, Open, Empty
  <2> QED BY <1>1, <1>4, <2>2 DEF Whole, Saved, Form, Sane
<1>13. i \notin broken => Good(i)'
  <2>1. i \notin broken => Good(i)
    BY <1>4 DEF Rested
  <2> QED BY <1>1, <1>3, <1>6, <1>8, <2>1 DEF Good, Agree, Fits, Lists, NotUp, Listed
<1>14. /\ files' \in [Id -> FileType] /\ backups' \in [Id -> Seq(Snapshots)]
       /\ count' \in [ops : 0..MaxOps, faults : 0..MaxFaults, edits : 0..MaxEdits]
  BY <1>1, TypesAre DEF Coherent, TypeOK
<1>15. engine'[i].schema \in {0, engine[i].schema}
  BY <1>3, <1>6, <1>8
<1>16. \A x \in Id \ {i} : /\ files'[x] = files[x] /\ engine'[x] = engine[x]
                           /\ backups'[x] = backups[x]
  BY <1>1, <1>8
<1>17. engine' \in [Id -> EngineType] /\ cleaner' \in {Resting} \union Cleaners
       /\ UNCHANGED <<inventory, job, broken, stale>> /\ ~Busy(i)
  BY <1>1, <1>4, <1>8, <1>9
<1> QED BY <1>11, <1>12, <1>13, <1>14, <1>15, <1>16, <1>17, CleaningKeeps

LEMMA RemoveOrphanKeeps ==
  ASSUME Coherent, RemoveOrphan
  PROVE  Coherent'
<1>1. /\ cleaner.phase = "directory" /\ cleaner \in Cleaners /\ cleaner' = Resting
      /\ UNCHANGED <<inventory, engine, job, broken, stale, count>>
  BY CleanerIs DEF RemoveOrphan, Coherent
<1>2. PICK i \in Id : i = cleaner.on
  BY <1>1 DEF Cleaners
<1>3. /\ ~Busy(i) /\ Whole(i) /\ engine[i].stack = "none"
      /\ (cleaner.remove \/ files[i] = NoFiles) /\ (~stale => inventory[i] = Unlisted)
  BY <1>1, <1>2 DEF Coherent, CleanerOK
<1>4. /\ files' = IF cleaner.remove THEN [files EXCEPT ![i] = NoFiles] ELSE files
      /\ backups' = IF cleaner.remove THEN [backups EXCEPT ![i] = <<>>] ELSE backups
  BY <1>2 DEF RemoveOrphan
<1>5. /\ files' \in [Id -> FileType] /\ files'[i] = NoFiles
      /\ \A x \in Id \ {i} : files'[x] = files[x]
  <2>1. NoFiles \in FileType
    BY DEF NoFiles, FileType, NoConfig, Schema
  <2> QED BY <1>3, <1>4, <2>1, TypesAre DEF Coherent
<1>6. /\ backups' \in [Id -> Seq(Snapshots)]
      /\ backups'[i] = backups[i] \/ backups'[i] = <<>>
      /\ \A x \in Id \ {i} : backups'[x] = backups[x]
  <2>1. <<>> \in Seq(Snapshots)
    OBVIOUS
  <2> QED BY <1>4, <2>1, TypesAre DEF Coherent
<1>7. Whole(i)'
  <2>1. Saved(i)'
    BY <1>3, <1>6 DEF Whole, Saved, Sane
  <2>2. files'[i].secrets = 0
    BY <1>5 DEF NoFiles
  <2> QED BY <1>1, <1>3, <2>1, <2>2 DEF Whole, Opens, Open, Empty, Form
<1>8. Good(i)'
  <2>1. Agree(i)' /\ Fits(i)'
    BY <1>1, <1>3, <1>5 DEF Agree, Fits, NoFiles, NoConfig
  <2>2. ~stale' => Lists(i)' /\ NotUp(i)'
    BY <1>1, <1>3, <1>5 DEF Lists, NotUp, Listed, NoFiles, NoConfig, Unlisted
  <2> QED BY <2>1, <2>2 DEF Good
<1>9. CleanerOK'
  BY <1>1 DEF CleanerOK, Resting
<1>10. /\ engine' \in [Id -> EngineType] /\ engine'[i].schema \in {0, engine[i].schema}
       /\ count' \in [ops : 0..MaxOps, faults : 0..MaxFaults, edits : 0..MaxEdits]
       /\ cleaner' \in {Resting} \union Cleaners
       /\ UNCHANGED <<inventory, job, broken, stale>> /\ ~Busy(i)
  BY <1>1, <1>3, TypesAre DEF Coherent, TypeOK
<1>11. \A x \in Id \ {i} : /\ files'[x] = files[x] /\ engine'[x] = engine[x]
                           /\ backups'[x] = backups[x]
  BY <1>1, <1>5, <1>6
<1> QED BY <1>5, <1>6, <1>7, <1>8, <1>9, <1>10, <1>11, CleaningKeeps

----------------------------------------------------------------------------
(* The start of an operation                                                *)

Listers == {"disable", "keep", "delete", "purge", "enable", "repair"}

LEMMA FirstPlace ==
  ASSUME NEW kind \in DOMAIN Steps
  PROVE  /\ 1 \in 1..Len(Steps[kind]) /\ \A t : ~Prior(kind, 1, t)
         /\ Steps[kind][1] \notin {"register", "relist"}
<1>1. 1 \in 1..Len(Steps[kind])
  <2>1. Len(Steps[kind]) \in Nat /\ Len(Steps[kind]) >= 1
    BY KindsAre, WriterSteps, OtherSteps DEF Writers, Marks
  <2> QED BY <2>1
<1>2. \A t : ~Prior(kind, 1, t)
  BY DEF Prior
<1>3. Ordered(kind, 1, Steps[kind][1]) /\ Has(kind, Steps[kind][1])
  BY <1>1, StepFacts
<1> QED BY <1>1, <1>2, <1>3 DEF Ordered, Has

\* What is so once an operation has started: between two operations an instance is
\* good, unless one has failed on it.
Begun(kind, k, i, c, s) ==
  /\ UNCHANGED <<inventory, files, engine, backups, cleaner, broken, stale>>
  /\ job' \in [Id -> Job] /\ job'[k].kind = kind /\ job'[k].on = i /\ job'[k].at = 1
  /\ job'[k].config = c /\ job'[k].snap = s /\ job'[k].saved = FALSE
  /\ job'[k].seen = IF kind \in Listers THEN inventory ELSE NoOne
  /\ kind = "restore" => job'[k].had = engine[i].content
  /\ Prudent(kind, k, i, c)
  /\ i \notin broken => Good(i)

LEMMA StartIs ==
  ASSUME Coherent, Careful, NEW kind \in DOMAIN Steps, NEW k \in Id, NEW i \in Id,
         i = k <=> kind # "clone", NEW c \in Config \union {NoConfig}, NEW s \in Snapshots,
         Start(kind, k, i, c, s)
  PROVE  Begun(kind, k, i, c, s) /\ (JobOK(k)' => Coherent')
<1>1. /\ count.ops < MaxOps /\ count' = [count EXCEPT !.ops = @ + 1]
      /\ UNCHANGED <<inventory, files, engine, backups, cleaner, broken, stale>>
      /\ Prudent(kind, k, i, c) /\ ~Runs(k)
  BY DEF Start, Runs
<1>2. (\A e \in Id : e = i \/ job[e].on \in {i, k} => ~Runs(e)) /\ ~Cleaning(i)
  BY <1>1 DEF Prudent, Runs
<1> DEFINE j == [kind |-> kind, on |-> i, at |-> 1, config |-> c,
                 head |-> IF kind = "import" THEN files[i].lock ELSE 0,
                 seen |-> IF kind \in Listers THEN inventory ELSE NoOne,
                 snap |-> s, had |-> IF kind = "restore" THEN engine[i].content ELSE 0,
                 saved |-> FALSE]
<1>3. job' = [job EXCEPT ![k] = j]
  BY DEF Start, Listers
<1>4. /\ files[i].lock \in Schema /\ inventory \in [Id -> Listing] /\ NoOne \in [Id -> Listing]
      /\ engine[i].content \in Nat /\ 0 \in Schema
  BY TypesAre DEF Coherent, FileType, EngineType, NoOne, Unlisted, Listing, Schema
<1>5. j \in Job
  BY <1>4 DEF Job
<1>6. /\ j.kind = kind /\ j.on = i /\ j.at = 1 /\ j.config = c /\ j.snap = s /\ j.saved = FALSE
      /\ j.seen = (IF kind \in Listers THEN inventory ELSE NoOne)
      /\ kind = "restore" => j.had = engine[i].content
  OBVIOUS
<1> HIDE DEF j
<1>7. job' \in [Id -> Job] /\ job'[k] = j /\ \A e \in Id \ {k} : job'[e] = job[e]
  BY <1>3, <1>5 DEF Coherent, TypeOK
<1>8. ~Busy(i) /\ ~Busy(k)
  BY <1>2 DEF Busy, Runs
<1>9. i \notin broken => Good(i)
  BY <1>8 DEF Coherent, Rested
<1>10. ASSUME JobOK(k)' PROVE Coherent'
  <2>1. kind # "none"
    BY KindsAre DEF Writers, Marks
  <2>2. TypeOK'
    <3>1. count' \in [ops : 0..MaxOps, faults : 0..MaxFaults, edits : 0..MaxEdits]
      <4>1. count \in [ops : 0..MaxOps, faults : 0..MaxFaults, edits : 0..MaxEdits]
        BY DEF Coherent, TypeOK
      <4>2. count.ops + 1 \in 0..MaxOps
        BY <1>1, <4>1, InstancesAssumption
      <4> QED BY <1>1, <4>1, <4>2
    <3>2. job'[k].at \in 1..Len(Steps[job'[k].kind])
      BY <1>6, <1>7, FirstPlace
    <3>3. \A e \in Id : job'[e].kind # "none" => job'[e].at \in 1..Len(Steps[job'[e].kind])
      BY <1>7, <3>2 DEF Coherent, TypeOK
    <3> QED BY <1>1, <1>7, <3>1, <3>3 DEF Coherent, TypeOK
  <2>3. \A e \in Id \ {k} : Runs(e)' <=> Runs(e)
    BY <1>7 DEF Runs
  <2>4. Alone'
    <3>1. ASSUME NEW e \in Id, Runs(e)' PROVE job'[e].on = e <=> job'[e].kind # "clone"
      BY <1>6, <1>7, <2>3, <3>1 DEF Coherent, Alone
    <3>2. ASSUME NEW a \in Id, NEW e \in Id, Runs(a)', Runs(e)', a # e
          PROVE  /\ job'[a].on # job'[e].on
                 /\ job'[a].kind = "clone" => job'[e].on # a /\ job'[a].on # e
      <4>1. CASE a # k /\ e # k
        BY <1>7, <2>3, <3>2, <4>1 DEF Coherent, Alone
      <4>2. CASE a = k
        <5>1. Runs(e) /\ job'[e] = job[e] /\ e # i /\ job[e].on \notin {i, k}
          BY <1>2, <1>7, <2>3, <3>2, <4>2
        <5> QED BY <1>6, <1>7, <4>2, <5>1
      <4>3. CASE e = k
        <5>1. Runs(a) /\ job'[a] = job[a] /\ a # i /\ job[a].on \notin {i, k}
          BY <1>2, <1>7, <2>3, <3>2, <4>3
        <5> QED BY <1>6, <1>7, <4>3, <5>1
      <4> QED BY <4>1, <4>2, <4>3, <3>2
    <3> QED BY <3>1, <3>2 DEF Alone
  <2>5. \A x \in Id : Busy(x)' <=> Busy(x) \/ x = i
    <3>1. \A x \in Id : Busy(x) => Busy(x)'
      BY <1>1, <1>7 DEF Busy, Runs
    <3>2. Busy(i)'
      BY <1>6, <1>7, <2>1 DEF Busy
    <3>3. \A x \in Id : Busy(x)' => Busy(x) \/ x = i
      BY <1>6, <1>7 DEF Busy
    <3> QED BY <3>1, <3>2, <3>3
  <2>6. CleanerOK'
    <3>1. cleaner.phase # "rest" => cleaner.on \in Id /\ cleaner.on # i
      BY <1>2, CleanerIs DEF Cleaning, Cleaners, Coherent
    <3>2. cleaner' = cleaner
      BY <1>1
    <3>3. cleaner.phase # "rest" => ~Busy(cleaner.on)
      BY DEF Coherent, CleanerOK
    <3>4. cleaner.phase # "rest" => ~Busy(cleaner.on)'
      BY <2>5, <3>1, <3>2, <3>3
    <3> QED BY <1>1, <3>1, <3>4 DEF Coherent, CleanerOK
  <2>7. ASSUME NEW x \in Id PROVE Whole(x)' /\ Rested(x)'
    <3>1. Whole(x) /\ Rested(x)
      BY DEF Coherent
    <3> QED BY <1>1, <2>5, <3>1 DEF Whole, Opens, Open, Empty, Saved, Form, Sane,
            Rested, Good, Agree, Fits, Lists, NotUp, Listed
  <2>8. ASSUME NEW e \in Id, Runs(e)' PROVE JobOK(e)'
    <3>1. CASE e = k
      BY <1>10, <3>1
    <3>2. CASE e # k
      <4>1. Runs(e) /\ job'[e] = job[e]
        BY <1>7, <2>3, <2>8, <3>2
      <4>2. PICK x \in Id : x = job[e].on
        BY <4>1, RunIs DEF Coherent
      <4>3. /\ files'[x] = files[x] /\ engine'[x] = engine[x] /\ backups'[x] = backups[x]
            /\ engine'[e].schema \in {0, engine[e].schema}
            /\ UNCHANGED <<inventory, broken, stale>>
        BY <1>1
      <4> QED BY <4>1, <4>2, <4>3, JobsStay
    <3> QED BY <3>1, <3>2
  <2> QED BY <2>2, <2>4, <2>6, <2>7, <2>8 DEF Coherent
<1> QED BY <1>1, <1>6, <1>7, <1>9, <1>10 DEF Begun

\* What the five parts of the invariant ask of an operation at its first step.
LEMMA StartKeeps ==
  ASSUME Coherent, Careful, NEW kind \in DOMAIN Steps, NEW k \in Id, NEW i \in Id,
         i = k <=> kind # "clone", NEW c \in Config \union {NoConfig}, NEW s \in Snapshots,
         Start(kind, k, i, c, s),
         kind \in Writers \union {"address", "repair", "update"} => c \in Config,
         kind = "address" =>
           c.release = files[i].lock /\ files[i].manifest # NoConfig,
         kind \in {"env", "repair"} /\ i \notin broken => files[i].manifest = c,
         kind = "update" =>
           c.domain = files[i].manifest.domain /\ c.release = files[i].lock + 1,
         kind \in {"clone", "restore", "import"} => Sane(c, s),
         kind = "clone" /\ s.sound => engine[k].schema \in {0, c.release},
         kind \in Marks => Listed(inventory, i)
  PROVE  Coherent'
<1>0. Begun(kind, k, i, c, s) /\ (JobOK(k)' => Coherent')
  BY StartIs
<1>1. /\ UNCHANGED <<inventory, files, engine, backups, cleaner, broken, stale>>
      /\ job' \in [Id -> Job]
      /\ job'[k].kind = kind /\ job'[k].on = i /\ job'[k].at = 1 /\ job'[k].config = c
      /\ job'[k].snap = s /\ job'[k].saved = FALSE
      /\ job'[k].seen = IF kind \in Listers THEN inventory ELSE NoOne
      /\ kind = "restore" => job'[k].had = engine[i].content
      /\ Prudent(kind, k, i, c)
      /\ i \notin broken => Good(i)
  BY <1>0 DEF Begun
<1>2. \A t : ~Done(k, t)'
  BY <1>1, FirstPlace DEF Done
<1>3. ~At(k, "register")' /\ ~At(k, "relist")'
  BY <1>1, FirstPlace DEF At
<1>4. files[i] \in FileType /\ engine[i] \in EngineType /\ Schema \subseteq Nat
  BY TypesAre, InstancesAssumption DEF Coherent, Schema, Release
<1>5. FilesJob(k)'
  <2>1. kind = "address" /\ i \notin broken =>
          files[i].compose # NoConfig /\ files[i].compose.release = c.release
    BY <1>1 DEF Good, Agree
  <2>2. i \notin broken => Agree(i)'
    BY <1>1 DEF Good, Agree
  <2> QED BY <1>1, <1>2, <2>1, <2>2 DEF FilesJob, Agree
<1>6. SecretsJob(k)'
  BY <1>1, <1>2 DEF SecretsJob, Fresh, Prudent
<1>7. DataJob(k)'
  <2>1. kind = "install" /\ engine[i].schema # 0 /\ files[i].secrets # 0 =>
          engine[i].schema = c.release
    <3>1. engine[i].schema \in Nat /\ files[i].secrets \in Nat
      BY <1>4 DEF EngineType, FileType
    <3> QED BY <1>1, <3>1 DEF Prudent
  <2>2. i \notin broken => Fits(i)'
    BY <1>1 DEF Good, Fits
  <2> QED BY <1>1, <1>2, <2>1, <2>2 DEF DataJob, Fits, Sane
<1>8. ListJob(k)'
  <2>1. \A x \in Id : Form(job'[k].seen[x])
    <3>1. \A x \in Id : Form(inventory[x]) /\ Form(NoOne[x])
      BY DEF Coherent, Whole, NoOne, Form, Unlisted
    <3> QED BY <1>1, <3>1
  <2>2. kind \in Marks => job'[k].seen[i].status # "unlisted"
    BY <1>1 DEF Listers, Marks, Listed
  <2>3. kind \in Marks \union {"delete", "purge", "repair"} => job'[k].seen[i] = inventory[i]
    BY <1>1 DEF Listers, Marks
  <2>4. kind \in {"env", "mailer", "address", "update", "restore"} => inventory[i].status = "active"
    BY <1>1 DEF Prudent
  <2>5. ~stale /\ i \notin broken => Lists(i)' /\ NotUp(i)'
    BY <1>1 DEF Good, Lists, NotUp, Listed
  <2>6. ~stale' => ~stale /\ inventory'[i] = inventory[i]
    BY <1>1
  <2> QED BY <1>1, <1>2, <1>3, <2>1, <2>2, <2>3, <2>4, <2>5, <2>6
          DEF ListJob, Form, Lists, NotUp, Listed
<1>9. RestoreJob(k)'
  BY <1>1, <1>2 DEF RestoreJob
<1> QED BY <1>0, <1>5, <1>6, <1>7, <1>8, <1>9 DEF JobOK

\* Every kind of operation starts with what it needs.
LEMMA StartSomeKeeps ==
  ASSUME Coherent, Careful, StartSome
  PROVE  Coherent'
<1>1. /\ DOMAIN Steps = Writers \union Marks \union
           {"address", "env", "mailer", "delete", "purge", "backup", "update", "repair"}
      /\ NoConfig \in Config \union {NoConfig}
      /\ NoSnapshot \in Snapshots
  BY KindsAre DEF NoSnapshot, Snapshots, Schema
<1>2. PICK i \in Id :
        \/ \E kind \in {"install", "prepare"} : Install(kind, i)
        \/ \E k \in Id : Clone(k, i)
        \/ SetAddress(i) \/ SetEnv(i) \/ SetMailer(i) \/ Enable(i)
        \/ \E kind \in {"disable", "keep", "delete", "purge"} : Remove(kind, i)
        \/ Backup(i) \/ Update(i) \/ Restore(i) \/ Import(i) \/ Repair(i)
  BY DEF StartSome
<1>3. /\ files \in [Id -> FileType] /\ engine \in [Id -> EngineType]
      /\ backups[i] \in Seq(Snapshots) /\ inventory \in [Id -> Listing]
  BY TypesAre DEF Coherent
<1>4. Saved(i) /\ Form(inventory[i])
  BY DEF Coherent, Whole
<1>5. \A x \in Id : Readable(x) =>
        files[x].manifest \in Config /\ files[x].lock \in Release
  BY <1>3 DEF Readable, FileType, Schema
<1>6. ASSUME NEW kind \in {"install", "prepare"}, Install(kind, i) PROVE Coherent'
  <2>1. PICK d \in Free(i), r \in Release :
          Start(kind, i, i, [domain |-> d, release |-> r], NoSnapshot)
    BY <1>6 DEF Install
  <2>2. PICK c \in Config : c = [domain |-> d, release |-> r]
    BY <2>1 DEF Config, Free
  <2>3. kind \in DOMAIN Steps /\ kind \notin Marks
    BY <1>1 DEF Writers, Marks
  <2> QED BY <1>1, <2>1, <2>2, <2>3, StartKeeps
<1>7. ASSUME NEW k \in Id, Clone(k, i) PROVE Coherent'
  <2>1. PICK d \in Domain : Cloneable(k, i, d) /\ Start("clone", k, i, Pinned(k, d), Snapshot(k))
    BY <1>7 DEF Clone
  <2>2. Readable(k) /\ i # k
    BY <1>7, <2>1 DEF Clone, Cloneable
  <2>3. PICK c \in Config : c = Pinned(k, d) /\ c.release = files[k].lock
    BY <1>5, <2>1, <2>2 DEF Config, Pinned
  <2>4. PICK s \in Snapshots : s = Snapshot(k) /\ s.schema = engine[k].schema
                               /\ s.sound = (k \notin broken)
    <3>1. PICK s : s = Snapshot(k)
      OBVIOUS
    <3>2. files[k] \in FileType /\ engine[k] \in EngineType
      BY <1>3
    <3>3. /\ s \in Snapshots /\ s.schema = engine[k].schema
          /\ s.sound = (k \notin broken)
      BY <3>1, <3>2 DEF Snapshot, Snapshots, FileType, EngineType
    <3> QED BY <3>1, <3>3
  <2>5. Start("clone", k, i, c, s)
    BY <2>1, <2>3, <2>4
  <2>6. ~Busy(k)
    BY <2>5 DEF Start, Prudent, Busy
  <2>7. k \notin broken => engine[k].schema \in {0, c.release}
    <3> SUFFICES ASSUME k \notin broken PROVE engine[k].schema \in {0, c.release}
      OBVIOUS
    <3>1. Agree(k) /\ Fits(k)
      BY <2>6 DEF Coherent, Rested, Good
    <3> QED BY <2>2, <2>3, <3>1 DEF Agree, Fits, Readable
  <2>8. Sane(c, s) /\ (s.sound => engine[k].schema \in {0, c.release})
    BY <2>4, <2>7 DEF Sane
  <2>9. "clone" \in DOMAIN Steps /\ "clone" \notin Marks
    BY <1>1 DEF Writers, Marks
  <2> QED BY <2>2, <2>5, <2>8, <2>9, StartKeeps
<1>8. ASSUME SetAddress(i) PROVE Coherent'
  <2>1. PICK d \in Free(i) : Start("address", i, i, Pinned(i, d), NoSnapshot)
    BY <1>8 DEF SetAddress
  <2>2. Readable(i)
    BY <1>8 DEF SetAddress
  <2>3. PICK c \in Config : c = Pinned(i, d) /\ c.release = files[i].lock
    BY <1>5, <2>1, <2>2 DEF Config, Pinned, Free
  <2>4. Start("address", i, i, c, NoSnapshot) /\ files[i].manifest # NoConfig
    BY <2>1, <2>2, <2>3 DEF Readable
  <2>5. "address" \in DOMAIN Steps /\ "address" \notin Marks
    BY <1>1 DEF Marks
  <2> QED BY <1>1, <2>3, <2>4, <2>5, StartKeeps
<1>9. ASSUME SetEnv(i) PROVE Coherent'
  <2>1. Readable(i) /\ Start("env", i, i, Pinned(i, files[i].manifest.domain), NoSnapshot)
    BY <1>9 DEF SetEnv
  <2>2. PICK c \in Config : c = Pinned(i, files[i].manifest.domain)
    BY <1>5, <2>1 DEF Config, Pinned
  <2>3. Start("env", i, i, c, NoSnapshot)
    BY <2>1, <2>2
  <2>4. ~Busy(i)
    BY <2>3 DEF Start, Prudent, Busy
  <2>5. i \notin broken => files[i].manifest = c
    <3> SUFFICES ASSUME i \notin broken PROVE files[i].manifest = c
      OBVIOUS
    <3>1. files[i].lock = files[i].manifest.release
      BY <2>4 DEF Coherent, Rested, Good, Agree
    <3>2. PICK m \in Config : m = files[i].manifest
      BY <1>5, <2>1
    <3>3. m = [domain |-> m.domain, release |-> m.release]
      BY <3>2 DEF Config
    <3> QED BY <2>2, <3>1, <3>2, <3>3 DEF Pinned
  <2>6. "env" \in DOMAIN Steps /\ "env" \notin Marks \union Writers
    BY <1>1 DEF Writers, Marks
  <2> QED BY <1>1, <2>2, <2>3, <2>5, <2>6, StartKeeps
<1>10. ASSUME NEW kind \in {"mailer", "backup"}, Start(kind, i, i, NoConfig, NoSnapshot)
       PROVE  Coherent'
  <2>1. kind \in DOMAIN Steps /\ kind \notin Marks \union Writers
    BY <1>1 DEF Writers, Marks
  <2> QED BY <1>1, <1>10, <2>1, StartKeeps
<1>11. ASSUME NEW kind \in {"enable", "disable", "keep", "delete", "purge"},
              Listed(inventory, i), Start(kind, i, i, NoConfig, NoSnapshot)
       PROVE  Coherent'
  <2>1. kind \in DOMAIN Steps /\ kind \notin Writers
    BY <1>1 DEF Writers, Marks
  <2> QED BY <1>1, <1>11, <2>1, StartKeeps
<1>12. ASSUME Update(i) PROVE Coherent'
  <2>1. /\ Readable(i) /\ files[i].lock \in 1..(Releases - 1)
        /\ Start("update", i, i,
                 [domain |-> files[i].manifest.domain, release |-> files[i].lock + 1], NoSnapshot)
    BY <1>12 DEF Update
  <2>2. PICK c \in Config :
          c = [domain |-> files[i].manifest.domain, release |-> files[i].lock + 1]
    <3>1. files[i].lock + 1 \in Release
      BY <2>1, InstancesAssumption DEF Release
    <3>2. files[i].manifest.domain \in Domain
      BY <1>5, <2>1 DEF Config
    <3> QED BY <3>1, <3>2 DEF Config
  <2>3. "update" \in DOMAIN Steps /\ "update" \notin Marks
    BY <1>1 DEF Marks
  <2> QED BY <1>1, <2>1, <2>2, <2>3, StartKeeps
<1>13. ASSUME NEW n \in Restorable(i)
       PROVE  \E c \in Config, s \in Snapshots :
                c = backups[i][n].config /\ s = backups[i][n] /\ Sane(c, s)
  <2>1. n \in 1..Len(backups[i])
    BY <1>3 DEF Restorable
  <2>2. backups[i][n] \in Snapshots
    BY <1>3, <2>1
  <2> QED BY <1>4, <2>1, <2>2 DEF Saved
<1>14. ASSUME Restore(i) PROVE Coherent'
  <2>1. PICK n \in Restorable(i) : Start("restore", i, i, backups[i][n].config, backups[i][n])
    BY <1>14 DEF Restore
  <2>2. PICK c \in Config, s \in Snapshots :
          c = backups[i][n].config /\ s = backups[i][n] /\ Sane(c, s)
    BY <1>13, <2>1
  <2>3. "restore" \in DOMAIN Steps /\ "restore" \notin Marks
    BY <1>1 DEF Writers, Marks
  <2> QED BY <2>1, <2>2, <2>3, StartKeeps
<1>15. ASSUME Import(i) PROVE Coherent'
  <2>1. PICK n \in Restorable(i), d \in Domain :
          Start("import", i, i, [backups[i][n].config EXCEPT !.domain = d], backups[i][n])
    BY <1>15 DEF Import
  <2>2. PICK b \in Config, s \in Snapshots :
          b = backups[i][n].config /\ s = backups[i][n] /\ Sane(b, s)
    BY <1>13, <2>1
  <2>3. PICK c \in Config : c = [b EXCEPT !.domain = d] /\ c.release = b.release
    BY <2>1, <2>2 DEF Config
  <2>4. Start("import", i, i, c, s) /\ Sane(c, s)
    BY <2>1, <2>2, <2>3 DEF Sane
  <2>5. "import" \in DOMAIN Steps /\ "import" \notin Marks
    BY <1>1 DEF Writers, Marks
  <2> QED BY <2>4, <2>5, StartKeeps
<1>16. ASSUME Repair(i) PROVE Coherent'
  <2>1. PICK found : found = IF files[i].manifest # NoConfig THEN files[i].manifest ELSE Source(i)
    OBVIOUS
  <2>2. found # NoConfig /\ Start("repair", i, i, found, NoSnapshot)
    BY <1>16, <2>1 DEF Repair
  <2>3. found \in Config
    <3>1. CASE files[i].manifest # NoConfig
      BY <1>3, <2>1, <3>1 DEF FileType
    <3>2. CASE files[i].manifest = NoConfig /\ backups[i] # <<>>
      <4>1. Len(backups[i]) \in 1..Len(backups[i])
        BY <1>3, <3>2
      <4>2. found = backups[i][Len(backups[i])].config
        BY <2>1, <3>2 DEF Source
      <4> QED BY <1>4, <4>1, <4>2 DEF Saved
    <3>3. CASE files[i].manifest = NoConfig /\ backups[i] = <<>>
      <4>1. Listed(inventory, i) /\ files[i].lock # 0 /\ found = Pinned(i, inventory[i].domain)
        BY <2>1, <2>2, <3>3 DEF Source
      <4>2. inventory[i].domain \in Domain
        BY <1>4, <4>1 DEF Form, Listed
      <4>3. files[i].lock \in Release
        BY <1>3, <4>1 DEF FileType, Schema
      <4> QED BY <4>1, <4>2, <4>3 DEF Pinned, Config
    <3> QED BY <3>1, <3>2, <3>3
  <2>4. ~Busy(i) /\ files[i].compose # NoConfig
    BY <2>2 DEF Start, Prudent, Busy
  <2>5. i \notin broken => files[i].manifest = found
    <3>1. i \notin broken => files[i].manifest = files[i].compose
      BY <2>4 DEF Coherent, Rested, Good, Agree
    <3> QED BY <2>1, <2>4, <3>1
  <2>6. "repair" \in DOMAIN Steps /\ "repair" \notin Marks \union Writers
    BY <1>1 DEF Writers, Marks
  <2> QED BY <1>1, <2>2, <2>3, <2>5, <2>6, StartKeeps
<1>17. SetMailer(i) \/ Backup(i) => Coherent'
  BY <1>10 DEF SetMailer, Backup
<1>18. Enable(i) \/ (\E kind \in {"disable", "keep", "delete", "purge"} : Remove(kind, i)) =>
         Coherent'
  BY <1>11 DEF Enable, Remove, Listed
<1> QED BY <1>2, <1>6, <1>7, <1>8, <1>9, <1>12, <1>14, <1>15, <1>16, <1>17, <1>18

----------------------------------------------------------------------------
(* The invariant                                                            *)

LEMMA CoherentInit ==
  ASSUME Init
  PROVE  Coherent
<1>1. PICK running, left \in SUBSET Id, own \in [Id -> 1..Cardinality(Id)] :
      \E address \in [running -> Domain] :
        /\ \A i, e \in Id : own[i] = own[e] => i = e
        /\ \A i, e \in running : address[i] = address[e] => i = e
        /\ left \intersect running = {}
        /\ inventory = [i \in Id |-> IF i \in running
                          THEN [status |-> "active", domain |-> address[i]] ELSE Unlisted]
        /\ files = [i \in Id |-> IF i \in running
                      THEN LET c == [domain |-> address[i], release |-> 1]
                           IN  [manifest |-> c, compose |-> c, lock |-> 1, secrets |-> own[i]]
                      ELSE NoFiles]
        /\ engine = [i \in Id |->
             IF i \notin running \union left THEN NoEngine
             ELSE [stack |-> IF i \in running THEN "up" ELSE "none",
                   release |-> IF i \in running THEN 1 ELSE 0,
                   volume |-> own[i], content |-> own[i], schema |-> 1]]
  BY Zenon DEF Init
<1>2. PICK address \in [running -> Domain] :
        /\ inventory = [i \in Id |-> IF i \in running
                          THEN [status |-> "active", domain |-> address[i]] ELSE Unlisted]
        /\ files = [i \in Id |-> IF i \in running
                      THEN LET c == [domain |-> address[i], release |-> 1]
                           IN  [manifest |-> c, compose |-> c, lock |-> 1, secrets |-> own[i]]
                      ELSE NoFiles]
        /\ engine = [i \in Id |->
             IF i \notin running \union left THEN NoEngine
             ELSE [stack |-> IF i \in running THEN "up" ELSE "none",
                   release |-> IF i \in running THEN 1 ELSE 0,
                   volume |-> own[i], content |-> own[i], schema |-> 1]]
  BY <1>1
<1>3. /\ backups = [i \in Id |-> <<>>] /\ job = [k \in Id |-> Idle(k)]
      /\ cleaner = Resting /\ broken = {} /\ stale = FALSE
      /\ count = [ops |-> 0, faults |-> 0, edits |-> 0]
  BY DEF Init
<1>4. 1 \in Release /\ 0 \in Schema /\ 1 \in Schema /\ Releases \in Nat
      /\ {MaxOps, MaxFaults, MaxEdits} \subseteq Nat
  BY InstancesAssumption DEF Release, Schema
<1>5. ASSUME NEW i \in Id
      PROVE  own[i] \in Nat \ {0} /\ (i \in running => address[i] \in Domain)
  <2>1. Cardinality(Id) \in Nat
    BY FS_CardinalityType, InstancesAssumption
  <2> QED BY <2>1
<1>6. ASSUME NEW i \in Id
      PROVE  inventory[i] \in Listing /\ files[i] \in FileType /\ engine[i] \in EngineType
  <2>1. CASE i \in running
    <3> DEFINE c == [domain |-> address[i], release |-> 1]
    <3>1. c \in Config
      BY <1>4, <1>5, <2>1 DEF Config
    <3>2. /\ inventory[i] = [status |-> "active", domain |-> address[i]]
          /\ files[i] = [manifest |-> c, compose |-> c, lock |-> 1, secrets |-> own[i]]
          /\ engine[i] = [stack |-> "up", release |-> 1, volume |-> own[i],
                          content |-> own[i], schema |-> 1]
      BY <1>2, <2>1
    <3> HIDE DEF c
    <3> QED BY <1>4, <1>5, <2>1, <3>1, <3>2 DEF Listing, FileType, EngineType
  <2>2. CASE i \notin running
    <3>1. inventory[i] = Unlisted /\ files[i] = NoFiles
      BY <1>2, <2>2
    <3>2. engine[i] = NoEngine \/ engine[i] = [stack |-> "none", release |-> 0, volume |-> own[i],
                                              content |-> own[i], schema |-> 1]
      BY <1>2, <2>2
    <3>3. engine[i] \in EngineType
      BY <1>4, <1>5, <3>2 DEF EngineType, NoEngine
    <3> QED BY <1>4, <3>1, <3>3 DEF Unlisted, NoFiles, Listing, FileType, NoConfig
  <2> QED BY <2>1, <2>2
<1>7. TypeOK
  <2>1. /\ inventory \in [Id -> Listing] /\ files \in [Id -> FileType]
        /\ engine \in [Id -> EngineType]
    BY <1>2, <1>6
  <2>2. backups \in [Id -> Seq(Snapshots)]
    BY <1>3
  <2>3. job \in [Id -> Job] /\ \A k \in Id : job[k].kind = "none"
    BY <1>3, IdleIs
  <2>4. count \in [ops : 0..MaxOps, faults : 0..MaxFaults, edits : 0..MaxEdits]
    BY <1>3, <1>4
  <2> QED BY <1>3, <2>1, <2>2, <2>3, <2>4 DEF TypeOK, FileType, EngineType
<1>8. \A k \in Id : ~Runs(k)
  BY <1>3, IdleIs DEF Runs
<1>9. Alone /\ CleanerOK
  BY <1>3, <1>8 DEF Alone, CleanerOK, Resting
<1>10. ASSUME NEW i \in Id PROVE Whole(i) /\ Rested(i)
  <2>1. Saved(i)
    BY <1>3 DEF Saved
  <2>2. CASE i \in running
    <3> DEFINE c == [domain |-> address[i], release |-> 1]
    <3>1. c \in Config
      BY <1>4, <1>5, <2>2 DEF Config
    <3>2. c # NoConfig /\ c.release = 1 /\ c.domain = address[i]
      BY <3>1, InstancesAssumption DEF Config, NoConfig
    <3>3. /\ inventory[i] = [status |-> "active", domain |-> address[i]]
          /\ files[i] = [manifest |-> c, compose |-> c, lock |-> 1, secrets |-> own[i]]
          /\ engine[i] = [stack |-> "up", release |-> 1, volume |-> own[i],
                          content |-> own[i], schema |-> 1]
      BY <1>2, <2>2
    <3> HIDE DEF c
    <3>4. Whole(i)
      BY <1>5, <2>1, <2>2, <3>3 DEF Whole, Opens, Open, Empty, Form
    <3>5. Good(i)
      BY <3>2, <3>3 DEF Good, Agree, Fits, Lists, NotUp, Listed
    <3> QED BY <3>4, <3>5 DEF Rested
  <2>3. CASE i \notin running
    <3>1. inventory[i] = Unlisted /\ files[i] = NoFiles
      BY <1>2, <2>3
    <3>2. engine[i] = NoEngine \/ engine[i] = [stack |-> "none", release |-> 0, volume |-> own[i],
                                              content |-> own[i], schema |-> 1]
      BY <1>2, <2>3
    <3>3. engine[i].stack = "none" /\ (engine[i].volume = 0 => engine[i].schema = 0)
      BY <1>5, <3>2 DEF NoEngine
    <3>4. Whole(i)
      BY <2>1, <3>1, <3>3 DEF Whole, Opens, Open, Empty, Form, NoFiles, Unlisted
    <3>5. Good(i)
      BY <3>1, <3>3 DEF Good, Agree, Fits, Lists, NotUp, Listed, NoFiles, NoConfig, Unlisted
    <3> QED BY <3>4, <3>5 DEF Rested
  <2> QED BY <2>2, <2>3
<1> QED BY <1>7, <1>8, <1>9, <1>10 DEF Coherent

LEMMA CoherentNext ==
  ASSUME Careful, Coherent, [Next]_vars
  PROVE  Coherent'
<1>1. CASE StartSome
  BY <1>1, StartSomeKeeps
<1>2. CASE \E k \in Id : Step(k)
  BY <1>2, StepKeepsCoherent
<1>3. CASE \E i \in Id : Edit(i) \/ Scan(i)
  BY <1>3, EditKeeps, ScanKeeps
<1>4. CASE WipeOrphan \/ RemoveOrphan
  BY <1>4, WipeOrphanKeeps, RemoveOrphanKeeps
<1>5. CASE UNCHANGED vars
  <2>1. UNCHANGED <<inventory, files, engine, backups, job, cleaner, broken, stale, count>>
    BY <1>5 DEF vars
  <2>2. TypeOK' /\ Alone' /\ CleanerOK'
    BY <2>1 DEF Coherent, TypeOK, Alone, CleanerOK, Runs, Busy
  <2>3. \A x \in Id : Whole(x)' /\ Rested(x)'
    BY <2>1 DEF Coherent, Whole, Opens, Open, Empty, Saved, Form, Sane,
            Rested, Good, Agree, Fits, Lists, NotUp, Listed, Busy
  <2>4. ASSUME NEW e \in Id, Runs(e)' PROVE JobOK(e)'
    <3>1. Runs(e) /\ job'[e] = job[e]
      BY <2>1, <2>4 DEF Runs
    <3>2. PICK x \in Id : x = job[e].on
      BY <3>1, RunIs DEF Coherent
    <3>3. engine'[e].schema \in {0, engine[e].schema}
      BY <2>1
    <3> QED BY <2>1, <3>1, <3>2, <3>3, JobsStay
  <2> QED BY <2>2, <2>3, <2>4 DEF Coherent
<1> QED BY <1>1, <1>2, <1>3, <1>4, <1>5 DEF Next

LEMMA Coherence ==
  ASSUME Careful
  PROVE  Spec => []Coherent
<1>1. Init => Coherent
  BY CoherentInit
<1>2. Coherent /\ [Next]_vars => Coherent'
  BY CoherentNext
<1> QED BY <1>1, <1>2, PTL DEF Spec

----------------------------------------------------------------------------
(* The theorems                                                             *)

\* The variables stay within their types, and a running operation at one of its steps.
THEOREM Typing == ASSUME Careful PROVE Spec => []TypeOK
<1>1. Coherent => TypeOK
  BY DEF Coherent
<1> QED BY <1>1, Coherence, PTL

\* No operation, failed or not, locks an instance out of its own database: the secrets
\* on disk stay those its volume was initialised with (bootstrap.ts:325-329).
THEOREM SecretsOpenData == ASSUME Careful PROVE Spec => []CredentialsMatch
<1>1. Coherent => CredentialsMatch
  BY DEF Coherent, Whole, Opens, CredentialsMatch
<1> QED BY <1>1, Coherence, PTL

\* On an instance nothing has failed on, manifest, compose file and lock name one
\* release and one address whenever no operation is under way.
THEOREM DirectoryAgrees == ASSUME Careful PROVE Spec => []FilesAgree
<1>1. Coherent => FilesAgree
  BY DEF Coherent, Rested, Good, Agree, FilesAgree, Settled
<1> QED BY <1>1, Coherence, PTL

\* There, the containers run the release whose migrations the database has seen.
THEOREM CodeMeetsData == ASSUME Careful PROVE Spec => []CodeFitsData
<1>1. Coherent => CodeFitsData
  BY DEF Coherent, Rested, Good, Fits, CodeFitsData, Settled
<1> QED BY <1>1, Coherence, PTL

\* And as long as no write was based on an outdated read, the inventory lists exactly
\* what has a manifest, at its address.
THEOREM InventoryTells == ASSUME Careful PROVE Spec => []InventoryTruthful
<1>1. Coherent => InventoryTruthful
  BY DEF Coherent, Rested, Good, Lists, NotUp, InventoryTruthful, Settled
<1> QED BY <1>1, Coherence, PTL

\* What the database held until the backup a restore begins with is in a backup by
\* the time the restore has changed it (adapter.ts:431-434).
THEOREM RestoreSavesFirst == ASSUME Careful PROVE Spec => []RestoreCanBeUndone
<1>1. ASSUME Coherent, NEW k \in Id, job[k].kind = "restore",
             engine[job[k].on].content # job[k].had
      PROVE  \E n \in DOMAIN backups[job[k].on] :
               backups[job[k].on][n].content = job[k].had
  <2>1. Runs(k) /\ RestoreJob(k)
    BY <1>1 DEF Runs, Coherent, JobOK
  <2>2. PICK i \in Id : i = job[k].on
    BY <1>1, <2>1, RunIs DEF Coherent
  <2>3. Done(k, "save")
    BY <1>1, <2>1 DEF RestoreJob
  <2>4. \E n \in 1..Len(backups[i]) : backups[i][n].content = job[k].had
    BY <1>1, <2>1, <2>2, <2>3 DEF RestoreJob
  <2>5. DOMAIN backups[i] = 1..Len(backups[i])
    BY <1>1, <2>2, TypesAre DEF Coherent
  <2> QED BY <2>2, <2>4, <2>5
<1>2. Coherent => RestoreCanBeUndone
  BY <1>1 DEF RestoreCanBeUndone
<1> QED BY <1>2, Coherence, PTL

\* Where no write was based on an outdated read, an entry changes only under an operation
\* on its instance, and goes away only by its deletion (lifecycle.ts:309-320).
THEOREM EntriesAreTheirOwn == ASSUME Careful PROVE Spec => OwnEntryOnly
<1> DEFINE Own == \A i \in Id : ~stale' =>
                    /\ Listed(inventory, i) /\ ~Listed(inventory', i) => Deleting(i)
                    /\ inventory'[i] # inventory[i] => Busy(i)
<1>1. ASSUME Coherent, NEW k \in Id, WriteInventory(k) PROVE Own
  <2>1. PICK s \in Writings : At(k, s)
    BY <1>1 DEF WriteInventory, Writings
  <2>2. Runs(k) /\ Has(job[k].kind, s)
    BY <1>1, <2>1, AtIs DEF Coherent
  <2>3. PICK e \in Id : e = job[k].on
    BY <1>1, <2>2, RunIs DEF Coherent
  <2>4. ~stale' => /\ inventory'[e] = Entry(k) /\ job[k].seen[e] = inventory[e]
                   /\ \A x \in Id \ {e} : inventory'[x] = inventory[x]
    BY <1>1, <2>1, <2>3, Written
  <2>5. Busy(e)
    BY <2>2, <2>3 DEF Busy, Runs
  <2>6. s \in {"register", "mark"} => Entry(k).status # "unlisted"
    <3>1. s = "register" => Entry(k) = [status |-> "active", domain |-> job[k].config.domain]
      BY <1>1, <2>1, <2>3, EntryIs
    <3>2. s = "mark" => Entry(k).status = CASE job[k].kind = "disable" -> "disabled"
                                            [] job[k].kind = "keep" -> "removed_keep_data"
                                            [] OTHER -> "active"
      BY <1>1, <2>1, <2>3, EntryIs
    <3> QED BY <3>1, <3>2
  <2>7. ASSUME s \in {"enlist", "relist"}, job[k].seen[e].status # "unlisted"
        PROVE  Entry(k).status # "unlisted"
    <3>1. job[k].seen[e] # Unlisted
      BY <2>7 DEF Unlisted
    <3>2. s = "enlist" => Entry(k) = job[k].seen[e]
      <4>1. s = "enlist" => Entry(k) =
              IF job[k].seen[e] = Unlisted
              THEN [status |-> "active", domain |-> job[k].config.domain] ELSE job[k].seen[e]
        BY <1>1, <2>1, <2>3, EntryIs
      <4> QED BY <3>1, <4>1
    <3>3. s = "relist" => Entry(k).status = job[k].seen[e].status
      BY <1>1, <2>1, <2>3, <3>1, EntryIs
    <3> QED BY <2>7, <3>2, <3>3
  <2>8. s = "unlist" => Deleting(e)
    BY <1>1, <2>2, <2>3 DEF Coherent, Alone, Has, Deleting
  <2>9. ~stale' /\ Listed(inventory, e) /\ ~Listed(inventory', e) => Deleting(e)
    BY <2>4, <2>6, <2>7, <2>8 DEF Writings, Listed
  <2> QED BY <2>4, <2>5, <2>9 DEF Listed
<1>2. ASSUME Coherent, [Next]_vars PROVE Own
  <2>1. CASE \E k \in Id : WriteInventory(k)
    BY <1>1, <1>2, <2>1
  <2>2. CASE UNCHANGED inventory
    BY <2>2 DEF Listed
  <2>3. (\E k \in Id : WriteInventory(k)) \/ UNCHANGED inventory
    <3>1. CASE StartSome
      <4>1. \E kind, k, i, c, s : Start(kind, k, i, c, s)
        BY <3>1, Zenon DEF StartSome, Install, Clone, SetAddress, SetEnv, SetMailer, Enable,
                           Remove, Backup, Update, Restore, Import, Repair
      <4> QED BY <4>1 DEF Start
    <3>2. CASE \E k \in Id : Step(k)
      BY <3>2 DEF Step, WriteFile, WriteSecrets, Look, Docker, Save, Upgrade, RemoveDir, Fail
    <3>3. CASE UNCHANGED vars \/ WipeOrphan \/ RemoveOrphan
                 \/ \E i \in Id : Edit(i) \/ Scan(i)
      BY <3>3 DEF vars, WipeOrphan, RemoveOrphan, Edit, Scan
    <3> QED BY <1>2, <3>1, <3>2, <3>3 DEF Next
  <2> QED BY <2>1, <2>2, <2>3
<1>3. Spec => [][Own]_vars
  BY <1>2, Coherence, PTL DEF Spec
<1> QED BY <1>3 DEF OwnEntryOnly
==============================================================================
