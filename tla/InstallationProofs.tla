------------------------- MODULE InstallationProofs -------------------------
(***************************************************************************)
(* The install directory of Installation, for any set of files and models  *)
(* and any number of runs: what outlives every sequence of installations,  *)
(* updates and removals, wherever each of them is stopped.  And the        *)
(* settings of SettingsStore, for any files of earlier versions: what they *)
(* keep through migrations, saves that overlap, and stops.  And what the   *)
(* application of AppLifecycle owes the desktop and the user, for any      *)
(* number of processes, retries, loads, requests and dialogs on top of one *)
(* another.                                                                *)
(***************************************************************************)
EXTENDS Installation, SettingsStore, AppLifecycle, FiniteSetTheorems, FunctionTheorems, TLAPS

\* What each place of a program knows of its own job.
JobInv ==
    /\ job.kind = "update" => job.pc \in {"fetch", "verify", "stage", "copy", "replace"}
    /\ job.pc \in {"copy", "replace", "extract", "extracting"} => job.todo \subseteq Payload
    /\ job.pc = "replace" => job.cur \in Files
    /\ job.pc \in {"stage", "copy", "replace"} => unsigned \/ job.cargo = "new"
    /\ job.pc = "extracting" => job.cur \in Payload
    /\ job.pc = "configuring" => job.cargo \in {"new", "user"}
    /\ job.pc \in {"write", "moving", "overwriting"} => job.opt \in {{"start"}, {"user"}}
    /\ job.pc = "idle" <=> job = Idle

\* A program that may write over or remove config.json does so only when nothing is owed.
OwedInv ==
    owed => /\ job.pc \in {"extract", "extracting"} => "config" \notin job.todo
            /\ job.pc = "extracting" => job.cur /= "config"
            /\ job.pc = "configuring" => job.cargo = "user"
            /\ job.pc \in {"write", "moving", "overwriting"} => job.opt = {"user"}
            /\ job.pc \in {"remove", "cleanup"} => job.opt = {}

IInv == TypeOK /\ JobInv /\ OwedInv /\ SettingsSurvive /\ VerifiedOnly /\ NamedModelIsWhole

USE DEF Goto, At, End, StepDone

-----------------------------------------------------------------------------
LEMMA FileNames ==
  /\ Archives = {"llama_zip", "cuda_zip"} /\ Archives \subseteq Names
  /\ Folder["llama_zip"] = "llama" /\ Folder["cuda_zip"] = "cuda"
  /\ Models \subseteq Names /\ Files \subseteq Names /\ Payload \subseteq Names
  /\ Files \cap Models = {} /\ "config" \notin Models \cup Files
  /\ {"llama", "cuda", "llama_zip", "cuda_zip"} \cap (Models \cup {"config"}) = {}
  /\ {"config", "llama", "cuda"} \subseteq Names
  BY InstallationAssumption DEF Archives, Folder, Names, Payload

LEMMA IdleFacts == Idle \in Jobs /\ Idle.kind = "none" /\ Idle.pc = "idle"
  BY DEF Idle, Jobs, Pcs, Contents, Kinds, Options

LEMMA BeginJob ==
  ASSUME NEW k \in Kinds, NEW p \in Pcs, NEW o \in SUBSET Options,
         NEW l \in Seq(Archives \cup Models), Begin(k, p, o, l)
  PROVE  /\ job = Idle /\ job' \in Jobs /\ jobs' = jobs + 1 /\ jobs < MaxJobs
         /\ job'.kind = k /\ job'.pc = p /\ job'.opt = o
  BY DEF Begin, Idle, Jobs, Contents

\* The kinds, places and options the programs start with.
LEMMA StartNames ==
  /\ {"update", "install", "firstrun", "save", "uninstall"} \subseteq Kinds
  /\ {"fetch", "validate", "next", "write", "remove"} \subseteq Pcs
  /\ SUBSET {"allow_unsigned"} \subseteq SUBSET Options
  /\ SUBSET {"backend", "model"} \subseteq SUBSET Options
  /\ {{"start"}, {"user"}, {}, {"purge"}} \subseteq SUBSET Options
  /\ <<>> \in Seq(Archives \cup Models)
  BY DEF Kinds, Pcs, Options

LEMMA SetToSeqFacts ==
  ASSUME NEW S, IsFiniteSet(S)
  PROVE  SetToSeq(S) \in Seq(S)
<1>1. ExistsBijection(1..Cardinality(S), S) /\ Cardinality(S) \in Nat
  BY FS_CardinalityType
<1>2. PICK f \in [1..Cardinality(S) -> S] : IsInjective(f)
  BY <1>1 DEF ExistsBijection, Bijection, Injection, IsInjective
<1>3. SetToSeq(S) \in [1..Cardinality(S) -> S]
  BY <1>2 DEF SetToSeq
<1> QED BY <1>1, <1>3

LEMMA Downloads ==
  ASSUME NEW S \in SUBSET Models, NEW b \in BOOLEAN, NEW c \in BOOLEAN
  PROVE  (IF b THEN Engine ELSE <<>>) \o (IF c THEN SetToSeq(S) ELSE <<>>)
            \in Seq(Archives \cup Models)
<1>1. IsFiniteSet(S) BY FS_Subset, InstallationAssumption
<1>2. SetToSeq(S) \in Seq(S) BY <1>1, SetToSeqFacts
<1>3. SetToSeq(S) \in Seq(Archives \cup Models) BY <1>2
<1>4. Engine \in Seq(Archives \cup Models) BY FileNames DEF Engine
<1>5. <<>> \in Seq(Archives \cup Models) OBVIOUS
<1> QED BY <1>3, <1>4, <1>5

-----------------------------------------------------------------------------
LEMMA InvInit == Init => IInv
<1> SUFFICES ASSUME Init PROVE IInv OBVIOUS
<1>1. disk \in [Names -> Contents]
  <2>1. CASE disk = [f \in Names |-> "none"]
    BY <2>1 DEF Contents
  <2>2. CASE disk = [f \in Names |-> CASE f \in Files -> "old"
                                     [] f = "config" -> "user"
                                     [] f \in {"llama_zip", "cuda_zip"} -> "none"
                                     [] OTHER -> "new"]
    BY <2>2 DEF Contents
  <2> QED BY <2>1, <2>2 DEF Init
<1>i. /\ tmp = {} /\ job = Idle /\ jobs = 0 /\ unsigned = FALSE
      /\ owed \in BOOLEAN /\ registered \in BOOLEAN
  BY DEF Init
<1>2. TypeOK
  <2>1. job \in Jobs /\ job.pc = "idle" BY <1>i, IdleFacts
  <2>2. jobs \in 0..MaxJobs BY <1>i, InstallationAssumption
  <2>3. tmp \subseteq Names \cup {"StetUpdate"} BY <1>i
  <2> QED BY <1>1, <1>i, <2>1, <2>2, <2>3 DEF TypeOK
<1>3. JobInv /\ OwedInv
  BY IdleFacts DEF Init, JobInv, OwedInv
<1>4. SettingsSurvive /\ VerifiedOnly /\ NamedModelIsWhole
  BY FileNames DEF Init, SettingsSurvive, VerifiedOnly, NamedModelIsWhole
<1> QED BY <1>2, <1>3, <1>4 DEF IInv

LEMMA InvNext == IInv /\ [Next]_vars => IInv'
<1> SUFFICES ASSUME IInv, [Next]_vars PROVE IInv' OBVIOUS
<1> USE IdleFacts DEF IInv
<1>1. ASSUME NEW allow \in SUBSET {"allow_unsigned"}, StartUpdate(allow) PROVE IInv'
  <2>b. /\ job = Idle /\ job' \in Jobs /\ jobs' = jobs + 1 /\ jobs < MaxJobs
        /\ job'.kind = "update" /\ job'.pc = "fetch" /\ job'.opt = allow
    BY <1>1, StartNames, BeginJob DEF StartUpdate
  <2>c. UNCHANGED <<disk, tmp, registered, unsigned, owed>>
    BY <1>1 DEF StartUpdate
  <2>1. TypeOK'
    <3>1. job' \in Jobs
      BY <2>b, <2>c DEF TypeOK, Jobs, Pcs, Contents
    <3>2. disk' \in [Names -> Contents] /\ tmp' \subseteq Names \cup {"StetUpdate"}
      BY <2>b, <2>c DEF TypeOK, Jobs, Contents
    <3>3. /\ registered' \in BOOLEAN /\ unsigned' \in BOOLEAN /\ owed' \in BOOLEAN
          /\ jobs' \in 0..MaxJobs
      BY <2>b, <2>c, InstallationAssumption DEF TypeOK
    <3>4. /\ job'.pc \in {"get", "rename"} => job'.cur \in Archives \cup Models
          /\ job'.pc \in {"unpack", "unpacking"} => job'.cur \in Archives
      BY <2>b, <2>c DEF TypeOK, Jobs
    <3> QED BY <3>1, <3>2, <3>3, <3>4 DEF TypeOK
  <2>2. JobInv'
    BY <2>b, <2>c DEF TypeOK, JobInv, Jobs
  <2>3. OwedInv'
    BY <2>b, <2>c DEF TypeOK, JobInv, OwedInv, Jobs, SettingsSurvive, Overwriting
  <2>4. SettingsSurvive'
    BY <2>b, <2>c DEF TypeOK, JobInv, OwedInv, SettingsSurvive, Overwriting, Jobs
  <2>5. VerifiedOnly'
    BY <2>b, <2>c DEF TypeOK, VerifiedOnly, JobInv, Jobs
  <2>6. NamedModelIsWhole'
    BY <2>b, <2>c DEF TypeOK, NamedModelIsWhole, JobInv, Jobs
  <2> QED BY <2>1, <2>2, <2>3, <2>4, <2>5, <2>6
<1>2. ASSUME NEW wanted \in SUBSET {"backend", "model"}, StartInstall(wanted) PROVE IInv'
  <2>b. /\ job = Idle /\ job' \in Jobs /\ jobs' = jobs + 1 /\ jobs < MaxJobs
        /\ job'.kind = "install" /\ job'.pc = "validate" /\ job'.opt = wanted
    BY <1>2, StartNames, BeginJob DEF StartInstall
  <2>c. UNCHANGED <<disk, tmp, registered, unsigned, owed>>
    BY <1>2 DEF StartInstall
  <2>1. TypeOK'
    <3>1. job' \in Jobs
      BY <2>b, <2>c DEF TypeOK, Jobs, Pcs, Contents
    <3>2. disk' \in [Names -> Contents] /\ tmp' \subseteq Names \cup {"StetUpdate"}
      BY <2>b, <2>c DEF TypeOK, Jobs, Contents
    <3>3. /\ registered' \in BOOLEAN /\ unsigned' \in BOOLEAN /\ owed' \in BOOLEAN
          /\ jobs' \in 0..MaxJobs
      BY <2>b, <2>c, InstallationAssumption DEF TypeOK
    <3>4. /\ job'.pc \in {"get", "rename"} => job'.cur \in Archives \cup Models
          /\ job'.pc \in {"unpack", "unpacking"} => job'.cur \in Archives
      BY <2>b, <2>c DEF TypeOK, Jobs
    <3> QED BY <3>1, <3>2, <3>3, <3>4 DEF TypeOK
  <2>2. JobInv'
    BY <2>b, <2>c DEF TypeOK, JobInv, Jobs
  <2>3. OwedInv'
    BY <2>b, <2>c DEF TypeOK, JobInv, OwedInv, Jobs, SettingsSurvive, Overwriting
  <2>4. SettingsSurvive'
    BY <2>b, <2>c DEF TypeOK, JobInv, OwedInv, SettingsSurvive, Overwriting, Jobs
  <2>5. VerifiedOnly'
    BY <2>b, <2>c DEF TypeOK, VerifiedOnly, JobInv, Jobs
  <2>6. NamedModelIsWhole'
    BY <2>b, <2>c DEF TypeOK, NamedModelIsWhole, JobInv, Jobs
  <2> QED BY <2>1, <2>2, <2>3, <2>4, <2>5, <2>6
<1>3. ASSUME NEW withModel \in BOOLEAN, StartFirstRun(withModel) PROVE IInv'
  <2>a. PICK l \in Seq(Archives \cup Models) : Begin("firstrun", "next", {}, l)
    BY <1>3, Downloads DEF StartFirstRun
  <2>b. /\ job = Idle /\ job' \in Jobs /\ jobs' = jobs + 1 /\ jobs < MaxJobs
        /\ job'.kind = "firstrun" /\ job'.pc = "next" /\ job'.opt = {}
    BY <2>a, StartNames, BeginJob
  <2>c. UNCHANGED <<disk, tmp, registered, unsigned, owed>>
    BY <1>3 DEF StartFirstRun
  <2>1. TypeOK'
    <3>1. job' \in Jobs
      BY <2>b, <2>c DEF TypeOK, Jobs, Pcs, Contents
    <3>2. disk' \in [Names -> Contents] /\ tmp' \subseteq Names \cup {"StetUpdate"}
      BY <2>b, <2>c DEF TypeOK, Jobs, Contents
    <3>3. /\ registered' \in BOOLEAN /\ unsigned' \in BOOLEAN /\ owed' \in BOOLEAN
          /\ jobs' \in 0..MaxJobs
      BY <2>b, <2>c, InstallationAssumption DEF TypeOK
    <3>4. /\ job'.pc \in {"get", "rename"} => job'.cur \in Archives \cup Models
          /\ job'.pc \in {"unpack", "unpacking"} => job'.cur \in Archives
      BY <2>b, <2>c DEF TypeOK, Jobs
    <3> QED BY <3>1, <3>2, <3>3, <3>4 DEF TypeOK
  <2>2. JobInv'
    BY <2>b, <2>c DEF TypeOK, JobInv, Jobs
  <2>3. OwedInv'
    BY <2>b, <2>c DEF TypeOK, JobInv, OwedInv, Jobs, SettingsSurvive, Overwriting
  <2>4. SettingsSurvive'
    BY <2>b, <2>c DEF TypeOK, JobInv, OwedInv, SettingsSurvive, Overwriting, Jobs
  <2>5. VerifiedOnly'
    BY <2>b, <2>c DEF TypeOK, VerifiedOnly, JobInv, Jobs
  <2>6. NamedModelIsWhole'
    BY <2>b, <2>c DEF TypeOK, NamedModelIsWhole, JobInv, Jobs
  <2> QED BY <2>1, <2>2, <2>3, <2>4, <2>5, <2>6
<1>4. ASSUME NEW by \in {"start", "user"}, StartSave(by) PROVE IInv'
  <2>b. /\ job = Idle /\ job' \in Jobs /\ jobs' = jobs + 1 /\ jobs < MaxJobs
        /\ job'.kind = "save" /\ job'.pc = "write" /\ job'.opt = {by}
    BY <1>4, StartNames, BeginJob DEF StartSave
  <2>c. UNCHANGED <<disk, tmp, registered, unsigned>>
    BY <1>4 DEF StartSave
  <2>d. owed' = (owed /\ by = "user")
    BY <1>4 DEF StartSave
  <2>1. TypeOK'
    <3>1. job' \in Jobs
      BY <2>b, <2>c, <2>d DEF TypeOK, Jobs, Pcs, Contents
    <3>2. disk' \in [Names -> Contents] /\ tmp' \subseteq Names \cup {"StetUpdate"}
      BY <2>b, <2>c, <2>d DEF TypeOK, Jobs, Contents
    <3>3. /\ registered' \in BOOLEAN /\ unsigned' \in BOOLEAN /\ owed' \in BOOLEAN
          /\ jobs' \in 0..MaxJobs
      BY <2>b, <2>c, <2>d, InstallationAssumption DEF TypeOK
    <3>4. /\ job'.pc \in {"get", "rename"} => job'.cur \in Archives \cup Models
          /\ job'.pc \in {"unpack", "unpacking"} => job'.cur \in Archives
      BY <2>b, <2>c, <2>d DEF TypeOK, Jobs
    <3> QED BY <3>1, <3>2, <3>3, <3>4 DEF TypeOK
  <2>2. JobInv'
    BY <2>b, <2>c, <2>d DEF TypeOK, JobInv, Jobs
  <2>3. OwedInv'
    BY <2>b, <2>c, <2>d DEF TypeOK, JobInv, OwedInv, Jobs, SettingsSurvive, Overwriting
  <2>4. SettingsSurvive'
    BY <2>b, <2>c, <2>d DEF TypeOK, JobInv, OwedInv, SettingsSurvive, Overwriting, Jobs
  <2>5. VerifiedOnly'
    BY <2>b, <2>c, <2>d DEF TypeOK, VerifiedOnly, JobInv, Jobs
  <2>6. NamedModelIsWhole'
    BY <2>b, <2>c, <2>d DEF TypeOK, NamedModelIsWhole, JobInv, Jobs
  <2> QED BY <2>1, <2>2, <2>3, <2>4, <2>5, <2>6
<1>5. ASSUME NEW purge \in SUBSET {"purge"}, StartUninstall(purge) PROVE IInv'
  <2>b. /\ job = Idle /\ job' \in Jobs /\ jobs' = jobs + 1 /\ jobs < MaxJobs
        /\ job'.kind = "uninstall" /\ job'.pc = "remove" /\ job'.opt = purge
    BY <1>5, StartNames, BeginJob DEF StartUninstall
  <2>c. owed' = (owed /\ purge = {}) /\ UNCHANGED <<disk, tmp, registered, unsigned>>
    BY <1>5 DEF StartUninstall
  <2>1. TypeOK'
    <3>1. job' \in Jobs
      BY <2>b, <2>c DEF TypeOK, Jobs, Pcs, Contents
    <3>2. disk' \in [Names -> Contents] /\ tmp' \subseteq Names \cup {"StetUpdate"}
      BY <2>b, <2>c DEF TypeOK, Jobs, Contents
    <3>3. /\ registered' \in BOOLEAN /\ unsigned' \in BOOLEAN /\ owed' \in BOOLEAN
          /\ jobs' \in 0..MaxJobs
      BY <2>b, <2>c, InstallationAssumption DEF TypeOK
    <3>4. /\ job'.pc \in {"get", "rename"} => job'.cur \in Archives \cup Models
          /\ job'.pc \in {"unpack", "unpacking"} => job'.cur \in Archives
      BY <2>b, <2>c DEF TypeOK, Jobs
    <3> QED BY <3>1, <3>2, <3>3, <3>4 DEF TypeOK
  <2>2. JobInv'
    BY <2>b, <2>c DEF TypeOK, JobInv, Jobs
  <2>3. OwedInv'
    BY <2>b, <2>c DEF TypeOK, JobInv, OwedInv, Jobs, SettingsSurvive, Overwriting
  <2>4. SettingsSurvive'
    BY <2>b, <2>c DEF TypeOK, JobInv, OwedInv, SettingsSurvive, Overwriting, Jobs
  <2>5. VerifiedOnly'
    BY <2>b, <2>c DEF TypeOK, VerifiedOnly, JobInv, Jobs
  <2>6. NamedModelIsWhole'
    BY <2>b, <2>c DEF TypeOK, NamedModelIsWhole, JobInv, Jobs
  <2> QED BY <2>1, <2>2, <2>3, <2>4, <2>5, <2>6
<1>6. CASE UpdateFetch
  <2>1. TypeOK'
    <3>1. job' \in Jobs
      BY <1>6 DEF UpdateFetch, TypeOK, Jobs, Pcs, Contents
    <3>2. disk' \in [Names -> Contents] /\ tmp' \subseteq Names \cup {"StetUpdate"}
      BY <1>6 DEF UpdateFetch, TypeOK, Jobs, Contents
    <3>3. /\ registered' \in BOOLEAN /\ unsigned' \in BOOLEAN /\ owed' \in BOOLEAN
          /\ jobs' \in 0..MaxJobs
      BY <1>6, InstallationAssumption DEF UpdateFetch, TypeOK
    <3>4. /\ job'.pc \in {"get", "rename"} => job'.cur \in Archives \cup Models
          /\ job'.pc \in {"unpack", "unpacking"} => job'.cur \in Archives
      BY <1>6 DEF UpdateFetch, TypeOK, Jobs
    <3> QED BY <3>1, <3>2, <3>3, <3>4 DEF TypeOK
  <2>2. JobInv'
    BY <1>6 DEF UpdateFetch, TypeOK, JobInv, Jobs
  <2>3. OwedInv'
    BY <1>6 DEF UpdateFetch, TypeOK, JobInv, OwedInv, Jobs, SettingsSurvive, Overwriting
  <2>4. SettingsSurvive'
    BY <1>6 DEF UpdateFetch, TypeOK, JobInv, OwedInv, SettingsSurvive, Overwriting, Jobs
  <2>5. VerifiedOnly'
    BY <1>6 DEF UpdateFetch, TypeOK, VerifiedOnly, JobInv, Jobs
  <2>6. NamedModelIsWhole'
    BY <1>6 DEF UpdateFetch, TypeOK, NamedModelIsWhole, JobInv, Jobs
  <2> QED BY <2>1, <2>2, <2>3, <2>4, <2>5, <2>6
<1>7. CASE UpdateVerify
  <2>1. TypeOK'
    <3>1. job' \in Jobs
      BY <1>7 DEF UpdateVerify, UpdateFails, Verified, TypeOK, Jobs, Pcs, Contents
    <3>2. disk' \in [Names -> Contents] /\ tmp' \subseteq Names \cup {"StetUpdate"}
      BY <1>7 DEF UpdateVerify, UpdateFails, Verified, TypeOK, Jobs, Contents
    <3>3. /\ registered' \in BOOLEAN /\ unsigned' \in BOOLEAN /\ owed' \in BOOLEAN
          /\ jobs' \in 0..MaxJobs
      BY <1>7, InstallationAssumption DEF UpdateVerify, UpdateFails, Verified, TypeOK
    <3>4. /\ job'.pc \in {"get", "rename"} => job'.cur \in Archives \cup Models
          /\ job'.pc \in {"unpack", "unpacking"} => job'.cur \in Archives
      BY <1>7 DEF UpdateVerify, UpdateFails, Verified, TypeOK, Jobs
    <3> QED BY <3>1, <3>2, <3>3, <3>4 DEF TypeOK
  <2>2. JobInv'
    BY <1>7 DEF UpdateVerify, UpdateFails, Verified, TypeOK, JobInv, Jobs
  <2>3. OwedInv'
    BY <1>7 DEF UpdateVerify, UpdateFails, Verified, TypeOK, JobInv, OwedInv, Jobs, SettingsSurvive, Overwriting
  <2>4. SettingsSurvive'
    BY <1>7 DEF UpdateVerify, UpdateFails, Verified, TypeOK, JobInv, OwedInv, SettingsSurvive, Overwriting, Jobs
  <2>5. VerifiedOnly'
    BY <1>7 DEF UpdateVerify, UpdateFails, Verified, TypeOK, VerifiedOnly, JobInv, Jobs
  <2>6. NamedModelIsWhole'
    BY <1>7 DEF UpdateVerify, UpdateFails, Verified, TypeOK, NamedModelIsWhole, JobInv, Jobs
  <2> QED BY <2>1, <2>2, <2>3, <2>4, <2>5, <2>6
<1>8. CASE UpdateStage
  <2>1. TypeOK'
    <3>1. job' \in Jobs
      <4>1. job' = Idle \/ job' = [job EXCEPT !.pc = "copy", !.todo = Payload]
        BY <1>8 DEF UpdateStage
      <4>2. Payload \subseteq Names BY FileNames
      <4>3. job \in Jobs /\ "copy" \in Pcs BY DEF TypeOK, Pcs
      <4>4. [job EXCEPT !.pc = "copy", !.todo = Payload] \in Jobs BY <4>2, <4>3 DEF Jobs
      <4> QED BY <4>1, <4>4, IdleFacts
    <3>2. disk' \in [Names -> Contents] /\ tmp' \subseteq Names \cup {"StetUpdate"}
      BY <1>8, FileNames DEF UpdateStage, TypeOK, Jobs, Contents
    <3>3. /\ registered' \in BOOLEAN /\ unsigned' \in BOOLEAN /\ owed' \in BOOLEAN
          /\ jobs' \in 0..MaxJobs
      BY <1>8, FileNames, InstallationAssumption DEF UpdateStage, TypeOK
    <3>4. /\ job'.pc \in {"get", "rename"} => job'.cur \in Archives \cup Models
          /\ job'.pc \in {"unpack", "unpacking"} => job'.cur \in Archives
      BY <1>8, FileNames DEF UpdateStage, TypeOK, Jobs
    <3> QED BY <3>1, <3>2, <3>3, <3>4 DEF TypeOK
  <2>2. JobInv'
    BY <1>8, FileNames DEF UpdateStage, TypeOK, JobInv, Jobs
  <2>3. OwedInv'
    BY <1>8, FileNames DEF UpdateStage, TypeOK, JobInv, OwedInv, Jobs, SettingsSurvive, Overwriting
  <2>4. SettingsSurvive'
    BY <1>8, FileNames DEF UpdateStage, TypeOK, JobInv, OwedInv, SettingsSurvive, Overwriting, Jobs
  <2>5. VerifiedOnly'
    BY <1>8, FileNames DEF UpdateStage, TypeOK, VerifiedOnly, JobInv, Jobs
  <2>6. NamedModelIsWhole'
    BY <1>8, FileNames DEF UpdateStage, TypeOK, NamedModelIsWhole, JobInv, Jobs
  <2> QED BY <2>1, <2>2, <2>3, <2>4, <2>5, <2>6
<1>9. CASE UpdateCopy
  <2>a. job.pc = "copy" /\ UNCHANGED <<disk, registered, unsigned, owed, jobs>>
    BY <1>9 DEF UpdateCopy
  <2>b. PICK f \in job.todo :
          \/ job' = [job EXCEPT !.todo = @ \ {f}] /\ tmp' = tmp
          \/ /\ f \in Names \ (Models \cup {"config"}) /\ tmp' = tmp \cup {f}
             /\ job' = [job EXCEPT !.todo = @ \ {f}, !.pc = "replace", !.cur = f]
          \/ job' = Idle /\ tmp' \subseteq tmp
    BY <1>9 DEF UpdateCopy, Skipped, TypeOK, Jobs
  <2>1. CASE job' = [job EXCEPT !.todo = @ \ {f}] /\ tmp' = tmp
    <3>f. /\ job' \in Jobs /\ job'.pc = job.pc /\ job'.todo \subseteq job.todo
          /\ job'.kind = job.kind /\ job'.cargo = job.cargo /\ job'.cur = job.cur
      BY <2>1 DEF TypeOK, Jobs
    <3>1. TypeOK'
      <4>1. job' \in Jobs
        BY <2>a, <2>1, <3>f, FileNames DEF TypeOK, Jobs, Pcs, Contents
      <4>2. disk' \in [Names -> Contents] /\ tmp' \subseteq Names \cup {"StetUpdate"}
        BY <2>a, <2>1, <3>f, FileNames DEF TypeOK, Jobs, Contents
      <4>3. /\ registered' \in BOOLEAN /\ unsigned' \in BOOLEAN /\ owed' \in BOOLEAN
            /\ jobs' \in 0..MaxJobs
        BY <2>a, <2>1, <3>f, FileNames, InstallationAssumption DEF TypeOK
      <4>4. /\ job'.pc \in {"get", "rename"} => job'.cur \in Archives \cup Models
            /\ job'.pc \in {"unpack", "unpacking"} => job'.cur \in Archives
        BY <2>a, <2>1, <3>f, FileNames DEF TypeOK, Jobs
      <4> QED BY <4>1, <4>2, <4>3, <4>4 DEF TypeOK
    <3>2. JobInv'
      BY <2>a, <2>1, <3>f, FileNames DEF TypeOK, JobInv, Jobs
    <3>3. OwedInv'
      BY <2>a, <2>1, <3>f, FileNames DEF TypeOK, JobInv, OwedInv, Jobs, SettingsSurvive, Overwriting
    <3>4. SettingsSurvive'
      BY <2>a, <2>1, <3>f, FileNames DEF TypeOK, JobInv, OwedInv, SettingsSurvive, Overwriting, Jobs
    <3>5. VerifiedOnly'
      BY <2>a, <2>1, <3>f, FileNames DEF TypeOK, VerifiedOnly, JobInv, Jobs
    <3>6. NamedModelIsWhole'
      BY <2>a, <2>1, <3>f, FileNames DEF TypeOK, NamedModelIsWhole, JobInv, Jobs
    <3> QED BY <3>1, <3>2, <3>3, <3>4, <3>5, <3>6
  <2>2. CASE /\ f \in Names \ (Models \cup {"config"}) /\ tmp' = tmp \cup {f}
             /\ job' = [job EXCEPT !.todo = @ \ {f}, !.pc = "replace", !.cur = f]
    <3>f. /\ job' \in Jobs /\ job'.pc = "replace" /\ job'.todo \subseteq job.todo /\ job'.cur \in Files
          /\ job'.kind = job.kind /\ job'.cargo = job.cargo
      BY <2>a, <2>2 DEF TypeOK, Jobs, Pcs, JobInv, Payload
    <3>1. TypeOK'
      <4>1. job' \in Jobs
        BY <2>a, <2>2, <3>f, FileNames DEF TypeOK, Jobs, Pcs, Contents
      <4>2. disk' \in [Names -> Contents] /\ tmp' \subseteq Names \cup {"StetUpdate"}
        BY <2>a, <2>2, <3>f, FileNames DEF TypeOK, Jobs, Contents
      <4>3. /\ registered' \in BOOLEAN /\ unsigned' \in BOOLEAN /\ owed' \in BOOLEAN
            /\ jobs' \in 0..MaxJobs
        BY <2>a, <2>2, <3>f, FileNames, InstallationAssumption DEF TypeOK
      <4>4. /\ job'.pc \in {"get", "rename"} => job'.cur \in Archives \cup Models
            /\ job'.pc \in {"unpack", "unpacking"} => job'.cur \in Archives
        BY <2>a, <2>2, <3>f, FileNames DEF TypeOK, Jobs
      <4> QED BY <4>1, <4>2, <4>3, <4>4 DEF TypeOK
    <3>2. JobInv'
      BY <2>a, <2>2, <3>f, FileNames DEF TypeOK, JobInv, Jobs
    <3>3. OwedInv'
      BY <2>a, <2>2, <3>f, FileNames DEF TypeOK, JobInv, OwedInv, Jobs, SettingsSurvive, Overwriting
    <3>4. SettingsSurvive'
      BY <2>a, <2>2, <3>f, FileNames DEF TypeOK, JobInv, OwedInv, SettingsSurvive, Overwriting, Jobs
    <3>5. VerifiedOnly'
      BY <2>a, <2>2, <3>f, FileNames DEF TypeOK, VerifiedOnly, JobInv, Jobs
    <3>6. NamedModelIsWhole'
      BY <2>a, <2>2, <3>f, FileNames DEF TypeOK, NamedModelIsWhole, JobInv, Jobs
    <3> QED BY <3>1, <3>2, <3>3, <3>4, <3>5, <3>6
  <2>3. CASE job' = Idle /\ tmp' \subseteq tmp
    <3>f. Idle \in Jobs OBVIOUS
    <3>1. TypeOK'
      <4>1. job' \in Jobs
        BY <2>a, <2>3, <3>f, FileNames DEF TypeOK, Jobs, Pcs, Contents
      <4>2. disk' \in [Names -> Contents] /\ tmp' \subseteq Names \cup {"StetUpdate"}
        BY <2>a, <2>3, <3>f, FileNames DEF TypeOK, Jobs, Contents
      <4>3. /\ registered' \in BOOLEAN /\ unsigned' \in BOOLEAN /\ owed' \in BOOLEAN
            /\ jobs' \in 0..MaxJobs
        BY <2>a, <2>3, <3>f, FileNames, InstallationAssumption DEF TypeOK
      <4>4. /\ job'.pc \in {"get", "rename"} => job'.cur \in Archives \cup Models
            /\ job'.pc \in {"unpack", "unpacking"} => job'.cur \in Archives
        BY <2>a, <2>3, <3>f, FileNames DEF TypeOK, Jobs
      <4> QED BY <4>1, <4>2, <4>3, <4>4 DEF TypeOK
    <3>2. JobInv'
      BY <2>a, <2>3, <3>f, FileNames DEF TypeOK, JobInv, Jobs
    <3>3. OwedInv'
      BY <2>a, <2>3, <3>f, FileNames DEF TypeOK, JobInv, OwedInv, Jobs, SettingsSurvive, Overwriting
    <3>4. SettingsSurvive'
      BY <2>a, <2>3, <3>f, FileNames DEF TypeOK, JobInv, OwedInv, SettingsSurvive, Overwriting, Jobs
    <3>5. VerifiedOnly'
      BY <2>a, <2>3, <3>f, FileNames DEF TypeOK, VerifiedOnly, JobInv, Jobs
    <3>6. NamedModelIsWhole'
      BY <2>a, <2>3, <3>f, FileNames DEF TypeOK, NamedModelIsWhole, JobInv, Jobs
    <3> QED BY <3>1, <3>2, <3>3, <3>4, <3>5, <3>6
  <2> QED BY <2>a, <2>b, <2>1, <2>2, <2>3
<1>10. CASE UpdateReplace
  <2>1. TypeOK'
    <3>1. job' \in Jobs
      BY <1>10, FileNames DEF UpdateReplace, UpdateFails, TypeOK, Jobs, Pcs, Contents
    <3>2. disk' \in [Names -> Contents] /\ tmp' \subseteq Names \cup {"StetUpdate"}
      BY <1>10, FileNames DEF UpdateReplace, UpdateFails, TypeOK, Jobs, Contents
    <3>3. /\ registered' \in BOOLEAN /\ unsigned' \in BOOLEAN /\ owed' \in BOOLEAN
          /\ jobs' \in 0..MaxJobs
      BY <1>10, FileNames, InstallationAssumption DEF UpdateReplace, UpdateFails, TypeOK
    <3>4. /\ job'.pc \in {"get", "rename"} => job'.cur \in Archives \cup Models
          /\ job'.pc \in {"unpack", "unpacking"} => job'.cur \in Archives
      BY <1>10, FileNames DEF UpdateReplace, UpdateFails, TypeOK, Jobs
    <3> QED BY <3>1, <3>2, <3>3, <3>4 DEF TypeOK
  <2>2. JobInv'
    BY <1>10, FileNames DEF UpdateReplace, UpdateFails, TypeOK, JobInv, Jobs
  <2>3. OwedInv'
    BY <1>10, FileNames DEF UpdateReplace, UpdateFails, TypeOK, JobInv, OwedInv, Jobs, SettingsSurvive, Overwriting
  <2>4. SettingsSurvive'
    BY <1>10, FileNames DEF UpdateReplace, UpdateFails, TypeOK, JobInv, OwedInv, SettingsSurvive, Overwriting, Jobs
  <2>5. VerifiedOnly'
    BY <1>10, FileNames DEF UpdateReplace, UpdateFails, TypeOK, VerifiedOnly, JobInv, Jobs
  <2>6. NamedModelIsWhole'
    BY <1>10, FileNames DEF UpdateReplace, UpdateFails, TypeOK, NamedModelIsWhole, JobInv, Jobs
  <2> QED BY <2>1, <2>2, <2>3, <2>4, <2>5, <2>6
<1>11. CASE UpdateDone
  <2>1. TypeOK'
    <3>1. job' \in Jobs
      BY <1>11 DEF UpdateDone, TypeOK, Jobs, Pcs, Contents
    <3>2. disk' \in [Names -> Contents] /\ tmp' \subseteq Names \cup {"StetUpdate"}
      BY <1>11 DEF UpdateDone, TypeOK, Jobs, Contents
    <3>3. /\ registered' \in BOOLEAN /\ unsigned' \in BOOLEAN /\ owed' \in BOOLEAN
          /\ jobs' \in 0..MaxJobs
      BY <1>11, InstallationAssumption DEF UpdateDone, TypeOK
    <3>4. /\ job'.pc \in {"get", "rename"} => job'.cur \in Archives \cup Models
          /\ job'.pc \in {"unpack", "unpacking"} => job'.cur \in Archives
      BY <1>11 DEF UpdateDone, TypeOK, Jobs
    <3> QED BY <3>1, <3>2, <3>3, <3>4 DEF TypeOK
  <2>2. JobInv'
    BY <1>11 DEF UpdateDone, TypeOK, JobInv, Jobs
  <2>3. OwedInv'
    BY <1>11 DEF UpdateDone, TypeOK, JobInv, OwedInv, Jobs, SettingsSurvive, Overwriting
  <2>4. SettingsSurvive'
    BY <1>11 DEF UpdateDone, TypeOK, JobInv, OwedInv, SettingsSurvive, Overwriting, Jobs
  <2>5. VerifiedOnly'
    BY <1>11 DEF UpdateDone, TypeOK, VerifiedOnly, JobInv, Jobs
  <2>6. NamedModelIsWhole'
    BY <1>11 DEF UpdateDone, TypeOK, NamedModelIsWhole, JobInv, Jobs
  <2> QED BY <2>1, <2>2, <2>3, <2>4, <2>5, <2>6
<1>12. CASE InstallValidate
  <2>a. job.pc = "validate" /\ UNCHANGED <<disk, tmp, registered, unsigned, owed, jobs>>
    BY <1>12 DEF InstallValidate
  <2>b. job' = Idle \/ job' = [job EXCEPT !.pc = "extract", !.todo = Members]
    BY <1>12 DEF InstallValidate
  <2>1. CASE job' = Idle
    <3>f. Idle \in Jobs OBVIOUS
    <3>1. TypeOK'
      <4>1. job' \in Jobs
        BY <2>a, <2>1, <3>f, FileNames DEF TypeOK, Jobs, Pcs, Contents
      <4>2. disk' \in [Names -> Contents] /\ tmp' \subseteq Names \cup {"StetUpdate"}
        BY <2>a, <2>1, <3>f, FileNames DEF TypeOK, Jobs, Contents
      <4>3. /\ registered' \in BOOLEAN /\ unsigned' \in BOOLEAN /\ owed' \in BOOLEAN
            /\ jobs' \in 0..MaxJobs
        BY <2>a, <2>1, <3>f, FileNames, InstallationAssumption DEF TypeOK
      <4>4. /\ job'.pc \in {"get", "rename"} => job'.cur \in Archives \cup Models
            /\ job'.pc \in {"unpack", "unpacking"} => job'.cur \in Archives
        BY <2>a, <2>1, <3>f, FileNames DEF TypeOK, Jobs
      <4> QED BY <4>1, <4>2, <4>3, <4>4 DEF TypeOK
    <3>2. JobInv'
      BY <2>a, <2>1, <3>f, FileNames DEF TypeOK, JobInv, Jobs
    <3>3. OwedInv'
      BY <2>a, <2>1, <3>f, FileNames DEF TypeOK, JobInv, OwedInv, Jobs, SettingsSurvive, Overwriting
    <3>4. SettingsSurvive'
      BY <2>a, <2>1, <3>f, FileNames DEF TypeOK, JobInv, OwedInv, SettingsSurvive, Overwriting, Jobs
    <3>5. VerifiedOnly'
      BY <2>a, <2>1, <3>f, FileNames DEF TypeOK, VerifiedOnly, JobInv, Jobs
    <3>6. NamedModelIsWhole'
      BY <2>a, <2>1, <3>f, FileNames DEF TypeOK, NamedModelIsWhole, JobInv, Jobs
    <3> QED BY <3>1, <3>2, <3>3, <3>4, <3>5, <3>6
  <2>2. CASE job' = [job EXCEPT !.pc = "extract", !.todo = Members]
    <3>m. Members \subseteq Payload /\ (disk["config"] = "user" => "config" \notin Members)
      BY DEF Members, Exists
    <3>f. /\ job' \in Jobs /\ job'.pc = "extract" /\ job'.todo \subseteq Payload
          /\ disk["config"] = "user" => "config" \notin job'.todo
          /\ job'.kind = job.kind
      BY <2>2, <3>m, FileNames DEF TypeOK, Jobs, Pcs
    <3>1. TypeOK'
      <4>1. job' \in Jobs
        BY <2>a, <2>2, <3>f, FileNames DEF TypeOK, Jobs, Pcs, Contents
      <4>2. disk' \in [Names -> Contents] /\ tmp' \subseteq Names \cup {"StetUpdate"}
        BY <2>a, <2>2, <3>f, FileNames DEF TypeOK, Jobs, Contents
      <4>3. /\ registered' \in BOOLEAN /\ unsigned' \in BOOLEAN /\ owed' \in BOOLEAN
            /\ jobs' \in 0..MaxJobs
        BY <2>a, <2>2, <3>f, FileNames, InstallationAssumption DEF TypeOK
      <4>4. /\ job'.pc \in {"get", "rename"} => job'.cur \in Archives \cup Models
            /\ job'.pc \in {"unpack", "unpacking"} => job'.cur \in Archives
        BY <2>a, <2>2, <3>f, FileNames DEF TypeOK, Jobs
      <4> QED BY <4>1, <4>2, <4>3, <4>4 DEF TypeOK
    <3>2. JobInv'
      BY <2>a, <2>2, <3>f, FileNames DEF TypeOK, JobInv, Jobs
    <3>3. OwedInv'
      BY <2>a, <2>2, <3>f, FileNames DEF TypeOK, JobInv, OwedInv, Jobs, SettingsSurvive, Overwriting
    <3>4. SettingsSurvive'
      BY <2>a, <2>2, <3>f, FileNames DEF TypeOK, JobInv, OwedInv, SettingsSurvive, Overwriting, Jobs
    <3>5. VerifiedOnly'
      BY <2>a, <2>2, <3>f, FileNames DEF TypeOK, VerifiedOnly, JobInv, Jobs
    <3>6. NamedModelIsWhole'
      BY <2>a, <2>2, <3>f, FileNames DEF TypeOK, NamedModelIsWhole, JobInv, Jobs
    <3> QED BY <3>1, <3>2, <3>3, <3>4, <3>5, <3>6
  <2> QED BY <2>a, <2>b, <2>1, <2>2
<1>13. CASE InstallExtract
  <2>a. job.pc = "extract" /\ UNCHANGED <<tmp, registered, unsigned, owed, jobs>>
    BY <1>13 DEF InstallExtract
  <2>b. PICK f \in job.todo :
          \/ /\ disk' = [disk EXCEPT ![f] = "torn"]
             /\ job' = [job EXCEPT !.pc = "extracting", !.todo = @ \ {f}, !.cur = f]
          \/ job' = Idle /\ disk' = disk
    BY <1>13 DEF InstallExtract
  <2>1. CASE /\ disk' = [disk EXCEPT ![f] = "torn"]
             /\ job' = [job EXCEPT !.pc = "extracting", !.todo = @ \ {f}, !.cur = f]
    <3>f. /\ job' \in Jobs /\ job'.pc = "extracting" /\ job'.todo \subseteq job.todo /\ job'.cur = f
          /\ f \in Payload /\ job'.kind = job.kind /\ f \in Names \ Models /\ f \in job.todo
      BY <2>a, <2>1, FileNames DEF TypeOK, Jobs, Pcs, JobInv, Payload
    <3>1. TypeOK'
      <4>1. job' \in Jobs
        BY <2>a, <2>1, <3>f, FileNames DEF TypeOK, Jobs, Pcs, Contents
      <4>2. disk' \in [Names -> Contents] /\ tmp' \subseteq Names \cup {"StetUpdate"}
        BY <2>a, <2>1, <3>f, FileNames DEF TypeOK, Jobs, Contents
      <4>3. /\ registered' \in BOOLEAN /\ unsigned' \in BOOLEAN /\ owed' \in BOOLEAN
            /\ jobs' \in 0..MaxJobs
        BY <2>a, <2>1, <3>f, FileNames, InstallationAssumption DEF TypeOK
      <4>4. /\ job'.pc \in {"get", "rename"} => job'.cur \in Archives \cup Models
            /\ job'.pc \in {"unpack", "unpacking"} => job'.cur \in Archives
        BY <2>a, <2>1, <3>f, FileNames DEF TypeOK, Jobs
      <4> QED BY <4>1, <4>2, <4>3, <4>4 DEF TypeOK
    <3>2. JobInv'
      BY <2>a, <2>1, <3>f, FileNames DEF TypeOK, JobInv, Jobs
    <3>3. OwedInv'
      BY <2>a, <2>1, <3>f, FileNames DEF TypeOK, JobInv, OwedInv, Jobs, SettingsSurvive, Overwriting
    <3>4. SettingsSurvive'
      BY <2>a, <2>1, <3>f, FileNames DEF TypeOK, JobInv, OwedInv, SettingsSurvive, Overwriting, Jobs
    <3>5. VerifiedOnly'
      BY <2>a, <2>1, <3>f, FileNames DEF TypeOK, VerifiedOnly, JobInv, Jobs
    <3>6. NamedModelIsWhole'
      BY <2>a, <2>1, <3>f, FileNames DEF TypeOK, NamedModelIsWhole, JobInv, Jobs
    <3> QED BY <3>1, <3>2, <3>3, <3>4, <3>5, <3>6
  <2>2. CASE job' = Idle /\ disk' = disk
    <3>f. Idle \in Jobs OBVIOUS
    <3>1. TypeOK'
      <4>1. job' \in Jobs
        BY <2>a, <2>2, <3>f, FileNames DEF TypeOK, Jobs, Pcs, Contents
      <4>2. disk' \in [Names -> Contents] /\ tmp' \subseteq Names \cup {"StetUpdate"}
        BY <2>a, <2>2, <3>f, FileNames DEF TypeOK, Jobs, Contents
      <4>3. /\ registered' \in BOOLEAN /\ unsigned' \in BOOLEAN /\ owed' \in BOOLEAN
            /\ jobs' \in 0..MaxJobs
        BY <2>a, <2>2, <3>f, FileNames, InstallationAssumption DEF TypeOK
      <4>4. /\ job'.pc \in {"get", "rename"} => job'.cur \in Archives \cup Models
            /\ job'.pc \in {"unpack", "unpacking"} => job'.cur \in Archives
        BY <2>a, <2>2, <3>f, FileNames DEF TypeOK, Jobs
      <4> QED BY <4>1, <4>2, <4>3, <4>4 DEF TypeOK
    <3>2. JobInv'
      BY <2>a, <2>2, <3>f, FileNames DEF TypeOK, JobInv, Jobs
    <3>3. OwedInv'
      BY <2>a, <2>2, <3>f, FileNames DEF TypeOK, JobInv, OwedInv, Jobs, SettingsSurvive, Overwriting
    <3>4. SettingsSurvive'
      BY <2>a, <2>2, <3>f, FileNames DEF TypeOK, JobInv, OwedInv, SettingsSurvive, Overwriting, Jobs
    <3>5. VerifiedOnly'
      BY <2>a, <2>2, <3>f, FileNames DEF TypeOK, VerifiedOnly, JobInv, Jobs
    <3>6. NamedModelIsWhole'
      BY <2>a, <2>2, <3>f, FileNames DEF TypeOK, NamedModelIsWhole, JobInv, Jobs
    <3> QED BY <3>1, <3>2, <3>3, <3>4, <3>5, <3>6
  <2> QED BY <2>a, <2>b, <2>1, <2>2
<1>14. CASE InstallExtracted
  <2>1. TypeOK'
    <3>1. job' \in Jobs
      BY <1>14, FileNames DEF InstallExtracted, Payload, TypeOK, Jobs, Pcs, Contents
    <3>2. disk' \in [Names -> Contents] /\ tmp' \subseteq Names \cup {"StetUpdate"}
      BY <1>14, FileNames DEF InstallExtracted, Payload, TypeOK, Jobs, Contents
    <3>3. /\ registered' \in BOOLEAN /\ unsigned' \in BOOLEAN /\ owed' \in BOOLEAN
          /\ jobs' \in 0..MaxJobs
      BY <1>14, FileNames, InstallationAssumption DEF InstallExtracted, Payload, TypeOK
    <3>4. /\ job'.pc \in {"get", "rename"} => job'.cur \in Archives \cup Models
          /\ job'.pc \in {"unpack", "unpacking"} => job'.cur \in Archives
      BY <1>14, FileNames DEF InstallExtracted, Payload, TypeOK, Jobs
    <3> QED BY <3>1, <3>2, <3>3, <3>4 DEF TypeOK
  <2>2. JobInv'
    BY <1>14, FileNames DEF InstallExtracted, Payload, TypeOK, JobInv, Jobs
  <2>3. OwedInv'
    BY <1>14, FileNames DEF InstallExtracted, Payload, TypeOK, JobInv, OwedInv, Jobs, SettingsSurvive, Overwriting
  <2>4. SettingsSurvive'
    BY <1>14, FileNames DEF InstallExtracted, Payload, TypeOK, JobInv, OwedInv, SettingsSurvive, Overwriting, Jobs
  <2>5. VerifiedOnly'
    BY <1>14, FileNames DEF InstallExtracted, Payload, TypeOK, VerifiedOnly, JobInv, Jobs
  <2>6. NamedModelIsWhole'
    BY <1>14, FileNames DEF InstallExtracted, Payload, TypeOK, NamedModelIsWhole, JobInv, Jobs
  <2> QED BY <2>1, <2>2, <2>3, <2>4, <2>5, <2>6
<1>15. CASE InstallDownloads
  <2>1. TypeOK'
    <3>1. job' \in Jobs
      BY <1>15, FileNames, Downloads DEF InstallDownloads, TypeOK, Jobs, Pcs, Contents
    <3>2. disk' \in [Names -> Contents] /\ tmp' \subseteq Names \cup {"StetUpdate"}
      BY <1>15, FileNames, Downloads DEF InstallDownloads, TypeOK, Jobs, Contents
    <3>3. /\ registered' \in BOOLEAN /\ unsigned' \in BOOLEAN /\ owed' \in BOOLEAN
          /\ jobs' \in 0..MaxJobs
      BY <1>15, FileNames, Downloads, InstallationAssumption DEF InstallDownloads, TypeOK
    <3>4. /\ job'.pc \in {"get", "rename"} => job'.cur \in Archives \cup Models
          /\ job'.pc \in {"unpack", "unpacking"} => job'.cur \in Archives
      BY <1>15, FileNames, Downloads DEF InstallDownloads, TypeOK, Jobs
    <3> QED BY <3>1, <3>2, <3>3, <3>4 DEF TypeOK
  <2>2. JobInv'
    BY <1>15, FileNames, Downloads DEF InstallDownloads, TypeOK, JobInv, Jobs
  <2>3. OwedInv'
    BY <1>15, FileNames, Downloads DEF InstallDownloads, TypeOK, JobInv, OwedInv, Jobs, SettingsSurvive, Overwriting
  <2>4. SettingsSurvive'
    BY <1>15, FileNames, Downloads DEF InstallDownloads, TypeOK, JobInv, OwedInv, SettingsSurvive, Overwriting, Jobs
  <2>5. VerifiedOnly'
    BY <1>15, FileNames, Downloads DEF InstallDownloads, TypeOK, VerifiedOnly, JobInv, Jobs
  <2>6. NamedModelIsWhole'
    BY <1>15, FileNames, Downloads DEF InstallDownloads, TypeOK, NamedModelIsWhole, JobInv, Jobs
  <2> QED BY <2>1, <2>2, <2>3, <2>4, <2>5, <2>6
<1>16. CASE InstallConfigure
  <2>a. job.pc = "next" /\ job.kind = "install" /\ UNCHANGED <<tmp, registered, unsigned, owed, jobs>>
    BY <1>16 DEF InstallConfigure
  <2>b. \/ /\ disk["config"] \in {"new", "user"} /\ disk' = [disk EXCEPT !["config"] = "torn"]
           /\ job' = [job EXCEPT !.pc = "configuring", !.cargo = disk["config"]]
        \/ job' = [job EXCEPT !.pc = "register"] /\ disk' = disk
    BY <1>16 DEF InstallConfigure
  <2>1. CASE /\ disk["config"] \in {"new", "user"} /\ disk' = [disk EXCEPT !["config"] = "torn"]
           /\ job' = [job EXCEPT !.pc = "configuring", !.cargo = disk["config"]]
    <3>f. /\ job' \in Jobs /\ job'.pc = "configuring" /\ job'.cargo = disk["config"]
          /\ job'.kind = job.kind
      BY <2>1 DEF TypeOK, Jobs, Pcs, Contents
    <3>1. TypeOK'
      <4>1. job' \in Jobs
        BY <2>a, <2>1, <3>f, FileNames DEF TypeOK, Jobs, Pcs, Contents
      <4>2. disk' \in [Names -> Contents] /\ tmp' \subseteq Names \cup {"StetUpdate"}
        BY <2>a, <2>1, <3>f, FileNames DEF TypeOK, Jobs, Contents
      <4>3. /\ registered' \in BOOLEAN /\ unsigned' \in BOOLEAN /\ owed' \in BOOLEAN
            /\ jobs' \in 0..MaxJobs
        BY <2>a, <2>1, <3>f, FileNames, InstallationAssumption DEF TypeOK
      <4>4. /\ job'.pc \in {"get", "rename"} => job'.cur \in Archives \cup Models
            /\ job'.pc \in {"unpack", "unpacking"} => job'.cur \in Archives
        BY <2>a, <2>1, <3>f, FileNames DEF TypeOK, Jobs
      <4> QED BY <4>1, <4>2, <4>3, <4>4 DEF TypeOK
    <3>2. JobInv'
      BY <2>a, <2>1, <3>f, FileNames DEF TypeOK, JobInv, Jobs
    <3>3. OwedInv'
      BY <2>a, <2>1, <3>f, FileNames DEF TypeOK, JobInv, OwedInv, Jobs, SettingsSurvive, Overwriting
    <3>4. SettingsSurvive'
      BY <2>a, <2>1, <3>f, FileNames DEF TypeOK, JobInv, OwedInv, SettingsSurvive, Overwriting, Jobs
    <3>5. VerifiedOnly'
      BY <2>a, <2>1, <3>f, FileNames DEF TypeOK, VerifiedOnly, JobInv, Jobs
    <3>6. NamedModelIsWhole'
      BY <2>a, <2>1, <3>f, FileNames DEF TypeOK, NamedModelIsWhole, JobInv, Jobs
    <3> QED BY <3>1, <3>2, <3>3, <3>4, <3>5, <3>6
  <2>2. CASE job' = [job EXCEPT !.pc = "register"] /\ disk' = disk
    <3>f. job' \in Jobs /\ job'.pc = "register" /\ job'.kind = job.kind
      BY <2>2 DEF TypeOK, Jobs, Pcs
    <3>1. TypeOK'
      <4>1. job' \in Jobs
        BY <2>a, <2>2, <3>f, FileNames DEF TypeOK, Jobs, Pcs, Contents
      <4>2. disk' \in [Names -> Contents] /\ tmp' \subseteq Names \cup {"StetUpdate"}
        BY <2>a, <2>2, <3>f, FileNames DEF TypeOK, Jobs, Contents
      <4>3. /\ registered' \in BOOLEAN /\ unsigned' \in BOOLEAN /\ owed' \in BOOLEAN
            /\ jobs' \in 0..MaxJobs
        BY <2>a, <2>2, <3>f, FileNames, InstallationAssumption DEF TypeOK
      <4>4. /\ job'.pc \in {"get", "rename"} => job'.cur \in Archives \cup Models
            /\ job'.pc \in {"unpack", "unpacking"} => job'.cur \in Archives
        BY <2>a, <2>2, <3>f, FileNames DEF TypeOK, Jobs
      <4> QED BY <4>1, <4>2, <4>3, <4>4 DEF TypeOK
    <3>2. JobInv'
      BY <2>a, <2>2, <3>f, FileNames DEF TypeOK, JobInv, Jobs
    <3>3. OwedInv'
      BY <2>a, <2>2, <3>f, FileNames DEF TypeOK, JobInv, OwedInv, Jobs, SettingsSurvive, Overwriting
    <3>4. SettingsSurvive'
      BY <2>a, <2>2, <3>f, FileNames DEF TypeOK, JobInv, OwedInv, SettingsSurvive, Overwriting, Jobs
    <3>5. VerifiedOnly'
      BY <2>a, <2>2, <3>f, FileNames DEF TypeOK, VerifiedOnly, JobInv, Jobs
    <3>6. NamedModelIsWhole'
      BY <2>a, <2>2, <3>f, FileNames DEF TypeOK, NamedModelIsWhole, JobInv, Jobs
    <3> QED BY <3>1, <3>2, <3>3, <3>4, <3>5, <3>6
  <2> QED BY <2>a, <2>b, <2>1, <2>2
<1>17. CASE InstallConfigured
  <2>1. TypeOK'
    <3>1. job' \in Jobs
      BY <1>17, FileNames DEF InstallConfigured, TypeOK, Jobs, Pcs, Contents
    <3>2. disk' \in [Names -> Contents] /\ tmp' \subseteq Names \cup {"StetUpdate"}
      BY <1>17, FileNames DEF InstallConfigured, TypeOK, Jobs, Contents
    <3>3. /\ registered' \in BOOLEAN /\ unsigned' \in BOOLEAN /\ owed' \in BOOLEAN
          /\ jobs' \in 0..MaxJobs
      BY <1>17, FileNames, InstallationAssumption DEF InstallConfigured, TypeOK
    <3>4. /\ job'.pc \in {"get", "rename"} => job'.cur \in Archives \cup Models
          /\ job'.pc \in {"unpack", "unpacking"} => job'.cur \in Archives
      BY <1>17, FileNames DEF InstallConfigured, TypeOK, Jobs
    <3> QED BY <3>1, <3>2, <3>3, <3>4 DEF TypeOK
  <2>2. JobInv'
    BY <1>17, FileNames DEF InstallConfigured, TypeOK, JobInv, Jobs
  <2>3. OwedInv'
    BY <1>17, FileNames DEF InstallConfigured, TypeOK, JobInv, OwedInv, Jobs, SettingsSurvive, Overwriting
  <2>4. SettingsSurvive'
    BY <1>17, FileNames DEF InstallConfigured, TypeOK, JobInv, OwedInv, SettingsSurvive, Overwriting, Jobs
  <2>5. VerifiedOnly'
    BY <1>17, FileNames DEF InstallConfigured, TypeOK, VerifiedOnly, JobInv, Jobs
  <2>6. NamedModelIsWhole'
    BY <1>17, FileNames DEF InstallConfigured, TypeOK, NamedModelIsWhole, JobInv, Jobs
  <2> QED BY <2>1, <2>2, <2>3, <2>4, <2>5, <2>6
<1>18. CASE InstallRegister
  <2>1. TypeOK'
    <3>1. job' \in Jobs
      BY <1>18 DEF InstallRegister, TypeOK, Jobs, Pcs, Contents
    <3>2. disk' \in [Names -> Contents] /\ tmp' \subseteq Names \cup {"StetUpdate"}
      BY <1>18 DEF InstallRegister, TypeOK, Jobs, Contents
    <3>3. /\ registered' \in BOOLEAN /\ unsigned' \in BOOLEAN /\ owed' \in BOOLEAN
          /\ jobs' \in 0..MaxJobs
      BY <1>18, InstallationAssumption DEF InstallRegister, TypeOK
    <3>4. /\ job'.pc \in {"get", "rename"} => job'.cur \in Archives \cup Models
          /\ job'.pc \in {"unpack", "unpacking"} => job'.cur \in Archives
      BY <1>18 DEF InstallRegister, TypeOK, Jobs
    <3> QED BY <3>1, <3>2, <3>3, <3>4 DEF TypeOK
  <2>2. JobInv'
    BY <1>18 DEF InstallRegister, TypeOK, JobInv, Jobs
  <2>3. OwedInv'
    BY <1>18 DEF InstallRegister, TypeOK, JobInv, OwedInv, Jobs, SettingsSurvive, Overwriting
  <2>4. SettingsSurvive'
    BY <1>18 DEF InstallRegister, TypeOK, JobInv, OwedInv, SettingsSurvive, Overwriting, Jobs
  <2>5. VerifiedOnly'
    BY <1>18 DEF InstallRegister, TypeOK, VerifiedOnly, JobInv, Jobs
  <2>6. NamedModelIsWhole'
    BY <1>18 DEF InstallRegister, TypeOK, NamedModelIsWhole, JobInv, Jobs
  <2> QED BY <2>1, <2>2, <2>3, <2>4, <2>5, <2>6
<1>19. CASE DownloadNext
  <2>a. /\ job.pc = "next" /\ job.list /= <<>> /\ tmp' = tmp \cup {Head(job.list)}
        /\ UNCHANGED <<disk, registered, unsigned, owed, jobs>>
        /\ job' = [job EXCEPT !.pc = "get", !.cur = Head(job.list), !.list = Tail(@)]
    BY <1>19 DEF DownloadNext
  <2>l. job.list \in Seq(Archives \cup Models)
    BY DEF TypeOK, Jobs
  <2>h. Head(job.list) \in Archives \cup Models /\ Tail(job.list) \in Seq(Archives \cup Models)
    BY <2>a, <2>l
  <2>f. /\ job' \in Jobs /\ job'.pc = "get" /\ job'.cur \in Archives \cup Models
        /\ job'.kind = job.kind /\ tmp' \subseteq Names \cup {"StetUpdate"}
    BY <2>a, <2>h, FileNames DEF TypeOK, Jobs, Pcs
  <2>1. TypeOK'
    <3>1. job' \in Jobs
      BY <2>a, <2>f, FileNames DEF TypeOK, Jobs, Pcs, Contents
    <3>2. disk' \in [Names -> Contents] /\ tmp' \subseteq Names \cup {"StetUpdate"}
      BY <2>a, <2>f, FileNames DEF TypeOK, Jobs, Contents
    <3>3. /\ registered' \in BOOLEAN /\ unsigned' \in BOOLEAN /\ owed' \in BOOLEAN
          /\ jobs' \in 0..MaxJobs
      BY <2>a, <2>f, FileNames, InstallationAssumption DEF TypeOK
    <3>4. /\ job'.pc \in {"get", "rename"} => job'.cur \in Archives \cup Models
          /\ job'.pc \in {"unpack", "unpacking"} => job'.cur \in Archives
      BY <2>a, <2>f, FileNames DEF TypeOK, Jobs
    <3> QED BY <3>1, <3>2, <3>3, <3>4 DEF TypeOK
  <2>2. JobInv'
    BY <2>a, <2>f, FileNames DEF TypeOK, JobInv, Jobs
  <2>3. OwedInv'
    BY <2>a, <2>f, FileNames DEF TypeOK, JobInv, OwedInv, Jobs, SettingsSurvive, Overwriting
  <2>4. SettingsSurvive'
    BY <2>a, <2>f, FileNames DEF TypeOK, JobInv, OwedInv, SettingsSurvive, Overwriting, Jobs
  <2>5. VerifiedOnly'
    BY <2>a, <2>f, FileNames DEF TypeOK, VerifiedOnly, JobInv, Jobs
  <2>6. NamedModelIsWhole'
    BY <2>a, <2>f, FileNames DEF TypeOK, NamedModelIsWhole, JobInv, Jobs
  <2> QED BY <2>1, <2>2, <2>3, <2>4, <2>5, <2>6
<1>20. CASE DownloadCheck
  <2>1. TypeOK'
    <3>1. job' \in Jobs
      <4>1. job' = Idle \/ job' = [job EXCEPT !.pc = "rename"]
        BY <1>20 DEF DownloadCheck, DownloadFails
      <4> QED BY <4>1 DEF TypeOK, Jobs, Pcs
    <3>2. disk' \in [Names -> Contents] /\ tmp' \subseteq Names \cup {"StetUpdate"}
      BY <1>20, FileNames DEF DownloadCheck, DownloadFails, TypeOK, Jobs, Contents
    <3>3. /\ registered' \in BOOLEAN /\ unsigned' \in BOOLEAN /\ owed' \in BOOLEAN
          /\ jobs' \in 0..MaxJobs
      BY <1>20, FileNames, InstallationAssumption DEF DownloadCheck, DownloadFails, TypeOK
    <3>4. /\ job'.pc \in {"get", "rename"} => job'.cur \in Archives \cup Models
          /\ job'.pc \in {"unpack", "unpacking"} => job'.cur \in Archives
      BY <1>20, FileNames DEF DownloadCheck, DownloadFails, TypeOK, Jobs
    <3> QED BY <3>1, <3>2, <3>3, <3>4 DEF TypeOK
  <2>2. JobInv'
    BY <1>20, FileNames DEF DownloadCheck, DownloadFails, TypeOK, JobInv, Jobs
  <2>3. OwedInv'
    BY <1>20, FileNames DEF DownloadCheck, DownloadFails, TypeOK, JobInv, OwedInv, Jobs, SettingsSurvive, Overwriting
  <2>4. SettingsSurvive'
    BY <1>20, FileNames DEF DownloadCheck, DownloadFails, TypeOK, JobInv, OwedInv, SettingsSurvive, Overwriting, Jobs
  <2>5. VerifiedOnly'
    BY <1>20, FileNames DEF DownloadCheck, DownloadFails, TypeOK, VerifiedOnly, JobInv, Jobs
  <2>6. NamedModelIsWhole'
    BY <1>20, FileNames DEF DownloadCheck, DownloadFails, TypeOK, NamedModelIsWhole, JobInv, Jobs
  <2> QED BY <2>1, <2>2, <2>3, <2>4, <2>5, <2>6
<1>21. CASE DownloadRename
  <2>1. TypeOK'
    <3>1. job' \in Jobs
      BY <1>21, FileNames DEF DownloadRename, DownloadFails, Extracts, TypeOK, Jobs, Pcs, Contents
    <3>2. disk' \in [Names -> Contents] /\ tmp' \subseteq Names \cup {"StetUpdate"}
      BY <1>21, FileNames DEF DownloadRename, DownloadFails, Extracts, TypeOK, Jobs, Contents
    <3>3. /\ registered' \in BOOLEAN /\ unsigned' \in BOOLEAN /\ owed' \in BOOLEAN
          /\ jobs' \in 0..MaxJobs
      BY <1>21, FileNames, InstallationAssumption DEF DownloadRename, DownloadFails, Extracts, TypeOK
    <3>4. /\ job'.pc \in {"get", "rename"} => job'.cur \in Archives \cup Models
          /\ job'.pc \in {"unpack", "unpacking"} => job'.cur \in Archives
      BY <1>21, FileNames DEF DownloadRename, DownloadFails, Extracts, TypeOK, Jobs
    <3> QED BY <3>1, <3>2, <3>3, <3>4 DEF TypeOK
  <2>2. JobInv'
    BY <1>21, FileNames DEF DownloadRename, DownloadFails, Extracts, TypeOK, JobInv, Jobs
  <2>3. OwedInv'
    BY <1>21, FileNames DEF DownloadRename, DownloadFails, Extracts, TypeOK, JobInv, OwedInv, Jobs, SettingsSurvive, Overwriting
  <2>4. SettingsSurvive'
    BY <1>21, FileNames DEF DownloadRename, DownloadFails, Extracts, TypeOK, JobInv, OwedInv, SettingsSurvive, Overwriting, Jobs
  <2>5. VerifiedOnly'
    BY <1>21, FileNames DEF DownloadRename, DownloadFails, Extracts, TypeOK, VerifiedOnly, JobInv, Jobs
  <2>6. NamedModelIsWhole'
    BY <1>21, FileNames DEF DownloadRename, DownloadFails, Extracts, TypeOK, NamedModelIsWhole, JobInv, Jobs
  <2> QED BY <2>1, <2>2, <2>3, <2>4, <2>5, <2>6
<1>22. CASE DownloadUnpack
  <2>1. TypeOK'
    <3>1. job' \in Jobs
      BY <1>22, FileNames DEF DownloadUnpack, TypeOK, Jobs, Pcs, Contents
    <3>2. disk' \in [Names -> Contents] /\ tmp' \subseteq Names \cup {"StetUpdate"}
      BY <1>22, FileNames DEF DownloadUnpack, TypeOK, Jobs, Contents
    <3>3. /\ registered' \in BOOLEAN /\ unsigned' \in BOOLEAN /\ owed' \in BOOLEAN
          /\ jobs' \in 0..MaxJobs
      BY <1>22, FileNames, InstallationAssumption DEF DownloadUnpack, TypeOK
    <3>4. /\ job'.pc \in {"get", "rename"} => job'.cur \in Archives \cup Models
          /\ job'.pc \in {"unpack", "unpacking"} => job'.cur \in Archives
      BY <1>22, FileNames DEF DownloadUnpack, TypeOK, Jobs
    <3> QED BY <3>1, <3>2, <3>3, <3>4 DEF TypeOK
  <2>2. JobInv'
    BY <1>22, FileNames DEF DownloadUnpack, TypeOK, JobInv, Jobs
  <2>3. OwedInv'
    BY <1>22, FileNames DEF DownloadUnpack, TypeOK, JobInv, OwedInv, Jobs, SettingsSurvive, Overwriting
  <2>4. SettingsSurvive'
    BY <1>22, FileNames DEF DownloadUnpack, TypeOK, JobInv, OwedInv, SettingsSurvive, Overwriting, Jobs
  <2>5. VerifiedOnly'
    BY <1>22, FileNames DEF DownloadUnpack, TypeOK, VerifiedOnly, JobInv, Jobs
  <2>6. NamedModelIsWhole'
    BY <1>22, FileNames DEF DownloadUnpack, TypeOK, NamedModelIsWhole, JobInv, Jobs
  <2> QED BY <2>1, <2>2, <2>3, <2>4, <2>5, <2>6
<1>23. CASE DownloadUnpacked
  <2>1. TypeOK'
    <3>1. job' \in Jobs
      BY <1>23, FileNames DEF DownloadUnpacked, TypeOK, Jobs, Pcs, Contents
    <3>2. disk' \in [Names -> Contents] /\ tmp' \subseteq Names \cup {"StetUpdate"}
      BY <1>23, FileNames DEF DownloadUnpacked, TypeOK, Jobs, Contents
    <3>3. /\ registered' \in BOOLEAN /\ unsigned' \in BOOLEAN /\ owed' \in BOOLEAN
          /\ jobs' \in 0..MaxJobs
      BY <1>23, FileNames, InstallationAssumption DEF DownloadUnpacked, TypeOK
    <3>4. /\ job'.pc \in {"get", "rename"} => job'.cur \in Archives \cup Models
          /\ job'.pc \in {"unpack", "unpacking"} => job'.cur \in Archives
      BY <1>23, FileNames DEF DownloadUnpacked, TypeOK, Jobs
    <3> QED BY <3>1, <3>2, <3>3, <3>4 DEF TypeOK
  <2>2. JobInv'
    BY <1>23, FileNames DEF DownloadUnpacked, TypeOK, JobInv, Jobs
  <2>3. OwedInv'
    BY <1>23, FileNames DEF DownloadUnpacked, TypeOK, JobInv, OwedInv, Jobs, SettingsSurvive, Overwriting
  <2>4. SettingsSurvive'
    BY <1>23, FileNames DEF DownloadUnpacked, TypeOK, JobInv, OwedInv, SettingsSurvive, Overwriting, Jobs
  <2>5. VerifiedOnly'
    BY <1>23, FileNames DEF DownloadUnpacked, TypeOK, VerifiedOnly, JobInv, Jobs
  <2>6. NamedModelIsWhole'
    BY <1>23, FileNames DEF DownloadUnpacked, TypeOK, NamedModelIsWhole, JobInv, Jobs
  <2> QED BY <2>1, <2>2, <2>3, <2>4, <2>5, <2>6
<1>24. CASE FirstRunDone
  <2>1. TypeOK'
    <3>1. job' \in Jobs
      BY <1>24 DEF FirstRunDone, TypeOK, Jobs, Pcs, Contents
    <3>2. disk' \in [Names -> Contents] /\ tmp' \subseteq Names \cup {"StetUpdate"}
      BY <1>24 DEF FirstRunDone, TypeOK, Jobs, Contents
    <3>3. /\ registered' \in BOOLEAN /\ unsigned' \in BOOLEAN /\ owed' \in BOOLEAN
          /\ jobs' \in 0..MaxJobs
      BY <1>24, InstallationAssumption DEF FirstRunDone, TypeOK
    <3>4. /\ job'.pc \in {"get", "rename"} => job'.cur \in Archives \cup Models
          /\ job'.pc \in {"unpack", "unpacking"} => job'.cur \in Archives
      BY <1>24 DEF FirstRunDone, TypeOK, Jobs
    <3> QED BY <3>1, <3>2, <3>3, <3>4 DEF TypeOK
  <2>2. JobInv'
    BY <1>24 DEF FirstRunDone, TypeOK, JobInv, Jobs
  <2>3. OwedInv'
    BY <1>24 DEF FirstRunDone, TypeOK, JobInv, OwedInv, Jobs, SettingsSurvive, Overwriting
  <2>4. SettingsSurvive'
    BY <1>24 DEF FirstRunDone, TypeOK, JobInv, OwedInv, SettingsSurvive, Overwriting, Jobs
  <2>5. VerifiedOnly'
    BY <1>24 DEF FirstRunDone, TypeOK, VerifiedOnly, JobInv, Jobs
  <2>6. NamedModelIsWhole'
    BY <1>24 DEF FirstRunDone, TypeOK, NamedModelIsWhole, JobInv, Jobs
  <2> QED BY <2>1, <2>2, <2>3, <2>4, <2>5, <2>6
<1>25. CASE SaveWrite
  <2>1. TypeOK'
    <3>1. job' \in Jobs
      BY <1>25, FileNames DEF SaveWrite, TypeOK, Jobs, Pcs, Contents
    <3>2. disk' \in [Names -> Contents] /\ tmp' \subseteq Names \cup {"StetUpdate"}
      BY <1>25, FileNames DEF SaveWrite, TypeOK, Jobs, Contents
    <3>3. /\ registered' \in BOOLEAN /\ unsigned' \in BOOLEAN /\ owed' \in BOOLEAN
          /\ jobs' \in 0..MaxJobs
      BY <1>25, FileNames, InstallationAssumption DEF SaveWrite, TypeOK
    <3>4. /\ job'.pc \in {"get", "rename"} => job'.cur \in Archives \cup Models
          /\ job'.pc \in {"unpack", "unpacking"} => job'.cur \in Archives
      BY <1>25, FileNames DEF SaveWrite, TypeOK, Jobs
    <3> QED BY <3>1, <3>2, <3>3, <3>4 DEF TypeOK
  <2>2. JobInv'
    BY <1>25, FileNames DEF SaveWrite, TypeOK, JobInv, Jobs
  <2>3. OwedInv'
    BY <1>25, FileNames DEF SaveWrite, TypeOK, JobInv, OwedInv, Jobs, SettingsSurvive, Overwriting
  <2>4. SettingsSurvive'
    BY <1>25, FileNames DEF SaveWrite, TypeOK, JobInv, OwedInv, SettingsSurvive, Overwriting, Jobs
  <2>5. VerifiedOnly'
    BY <1>25, FileNames DEF SaveWrite, TypeOK, VerifiedOnly, JobInv, Jobs
  <2>6. NamedModelIsWhole'
    BY <1>25, FileNames DEF SaveWrite, TypeOK, NamedModelIsWhole, JobInv, Jobs
  <2> QED BY <2>1, <2>2, <2>3, <2>4, <2>5, <2>6
<1>26. CASE SaveMove
  <2>1. TypeOK'
    <3>1. job' \in Jobs
      BY <1>26, FileNames DEF SaveMove, Saved, TypeOK, Jobs, Pcs, Contents
    <3>2. disk' \in [Names -> Contents] /\ tmp' \subseteq Names \cup {"StetUpdate"}
      BY <1>26, FileNames DEF SaveMove, Saved, TypeOK, Jobs, Contents
    <3>3. /\ registered' \in BOOLEAN /\ unsigned' \in BOOLEAN /\ owed' \in BOOLEAN
          /\ jobs' \in 0..MaxJobs
      BY <1>26, FileNames, InstallationAssumption DEF SaveMove, Saved, TypeOK
    <3>4. /\ job'.pc \in {"get", "rename"} => job'.cur \in Archives \cup Models
          /\ job'.pc \in {"unpack", "unpacking"} => job'.cur \in Archives
      BY <1>26, FileNames DEF SaveMove, Saved, TypeOK, Jobs
    <3> QED BY <3>1, <3>2, <3>3, <3>4 DEF TypeOK
  <2>2. JobInv'
    BY <1>26, FileNames DEF SaveMove, Saved, TypeOK, JobInv, Jobs
  <2>3. OwedInv'
    BY <1>26, FileNames DEF SaveMove, Saved, TypeOK, JobInv, OwedInv, Jobs, SettingsSurvive, Overwriting
  <2>4. SettingsSurvive'
    BY <1>26, FileNames DEF SaveMove, Saved, TypeOK, JobInv, OwedInv, SettingsSurvive, Overwriting, Jobs
  <2>5. VerifiedOnly'
    BY <1>26, FileNames DEF SaveMove, Saved, TypeOK, VerifiedOnly, JobInv, Jobs
  <2>6. NamedModelIsWhole'
    BY <1>26, FileNames DEF SaveMove, Saved, TypeOK, NamedModelIsWhole, JobInv, Jobs
  <2> QED BY <2>1, <2>2, <2>3, <2>4, <2>5, <2>6
<1>27. CASE SaveOverwritten
  <2>1. TypeOK'
    <3>1. job' \in Jobs
      BY <1>27, FileNames DEF SaveOverwritten, Saved, TypeOK, Jobs, Pcs, Contents
    <3>2. disk' \in [Names -> Contents] /\ tmp' \subseteq Names \cup {"StetUpdate"}
      BY <1>27, FileNames DEF SaveOverwritten, Saved, TypeOK, Jobs, Contents
    <3>3. /\ registered' \in BOOLEAN /\ unsigned' \in BOOLEAN /\ owed' \in BOOLEAN
          /\ jobs' \in 0..MaxJobs
      BY <1>27, FileNames, InstallationAssumption DEF SaveOverwritten, Saved, TypeOK
    <3>4. /\ job'.pc \in {"get", "rename"} => job'.cur \in Archives \cup Models
          /\ job'.pc \in {"unpack", "unpacking"} => job'.cur \in Archives
      BY <1>27, FileNames DEF SaveOverwritten, Saved, TypeOK, Jobs
    <3> QED BY <3>1, <3>2, <3>3, <3>4 DEF TypeOK
  <2>2. JobInv'
    BY <1>27, FileNames DEF SaveOverwritten, Saved, TypeOK, JobInv, Jobs
  <2>3. OwedInv'
    BY <1>27, FileNames DEF SaveOverwritten, Saved, TypeOK, JobInv, OwedInv, Jobs, SettingsSurvive, Overwriting
  <2>4. SettingsSurvive'
    BY <1>27, FileNames DEF SaveOverwritten, Saved, TypeOK, JobInv, OwedInv, SettingsSurvive, Overwriting, Jobs
  <2>5. VerifiedOnly'
    BY <1>27, FileNames DEF SaveOverwritten, Saved, TypeOK, VerifiedOnly, JobInv, Jobs
  <2>6. NamedModelIsWhole'
    BY <1>27, FileNames DEF SaveOverwritten, Saved, TypeOK, NamedModelIsWhole, JobInv, Jobs
  <2> QED BY <2>1, <2>2, <2>3, <2>4, <2>5, <2>6
<1>28. CASE UninstallRemove
  <2>a. job.pc = "remove" /\ UNCHANGED <<tmp, registered, unsigned, owed, jobs>>
    BY <1>28 DEF UninstallRemove
  <2>b. \/ \E f \in Names : /\ ~Preserved(f) /\ job' = [job EXCEPT !.todo = @ \cup {f}]
                            /\ \E left \in Leftovers(f): disk' = [disk EXCEPT ![f] = left]
        \/ job' = [job EXCEPT !.pc = "cleanup"] /\ disk' = disk
    BY <1>28 DEF UninstallRemove
  <2>1. CASE \E f \in Names : /\ ~Preserved(f) /\ job' = [job EXCEPT !.todo = @ \cup {f}]
                            /\ \E left \in Leftovers(f): disk' = [disk EXCEPT ![f] = left]
    <3>p. PICK f \in Names : /\ ~Preserved(f) /\ job' = [job EXCEPT !.todo = @ \cup {f}]
                             /\ \E left \in Leftovers(f): disk' = [disk EXCEPT ![f] = left]
      BY <2>1
    <3>f. /\ job' \in Jobs /\ job'.pc = job.pc /\ job'.opt = job.opt /\ job'.kind = job.kind
          /\ disk' \in {disk, [disk EXCEPT ![f] = "none"], [disk EXCEPT ![f] = "torn"]}
          /\ disk'[f] = "torn" /\ disk[f] /= "torn" => f \in {"llama", "cuda"}
          /\ f \in Names
          /\ f = "config" => job.opt /= {}
      <4>1. PICK left \in Leftovers(f): disk' = [disk EXCEPT ![f] = left]
        BY <3>p
      <4>2. disk' \in {disk, [disk EXCEPT ![f] = "none"], [disk EXCEPT ![f] = "torn"]}
        BY <4>1 DEF TypeOK, Leftovers
      <4>3. disk'[f] = "torn" /\ disk[f] /= "torn" => f \in {"llama", "cuda"}
        BY <4>1 DEF TypeOK, Leftovers
      <4>4. f = "config" => job.opt /= {}
        BY <3>p DEF Preserved
      <4>5. /\ job' \in Jobs /\ job'.pc = job.pc /\ job'.opt = job.opt /\ job'.kind = job.kind
        BY <3>p DEF TypeOK, Jobs
      <4> QED BY <4>2, <4>3, <4>4, <4>5
    <3>1. TypeOK'
      <4>1. job' \in Jobs
        BY <2>a, <2>1, <3>f, FileNames DEF TypeOK, Jobs, Pcs, Contents
      <4>2. disk' \in [Names -> Contents] /\ tmp' \subseteq Names \cup {"StetUpdate"}
        BY <2>a, <2>1, <3>f, FileNames DEF TypeOK, Jobs, Contents
      <4>3. /\ registered' \in BOOLEAN /\ unsigned' \in BOOLEAN /\ owed' \in BOOLEAN
            /\ jobs' \in 0..MaxJobs
        BY <2>a, <2>1, <3>f, FileNames, InstallationAssumption DEF TypeOK
      <4>4. /\ job'.pc \in {"get", "rename"} => job'.cur \in Archives \cup Models
            /\ job'.pc \in {"unpack", "unpacking"} => job'.cur \in Archives
        BY <2>a, <2>1, <3>f, FileNames DEF TypeOK, Jobs
      <4> QED BY <4>1, <4>2, <4>3, <4>4 DEF TypeOK
    <3>2. JobInv'
      BY <2>a, <2>1, <3>f, FileNames DEF TypeOK, JobInv, Jobs
    <3>3. OwedInv'
      BY <2>a, <2>1, <3>f, FileNames DEF TypeOK, JobInv, OwedInv, Jobs, SettingsSurvive, Overwriting
    <3>4. SettingsSurvive'
      BY <2>a, <2>1, <3>f, FileNames DEF TypeOK, JobInv, OwedInv, SettingsSurvive, Overwriting, Jobs
    <3>5. VerifiedOnly'
      BY <2>a, <2>1, <3>f, FileNames DEF TypeOK, VerifiedOnly, JobInv, Jobs
    <3>6. NamedModelIsWhole'
      BY <2>a, <2>1, <3>f, FileNames DEF TypeOK, NamedModelIsWhole, JobInv, Jobs
    <3> QED BY <3>1, <3>2, <3>3, <3>4, <3>5, <3>6
  <2>2. CASE job' = [job EXCEPT !.pc = "cleanup"] /\ disk' = disk
    <3>f. job' \in Jobs /\ job'.pc = "cleanup" /\ job'.opt = job.opt /\ job'.kind = job.kind
      BY <2>2 DEF TypeOK, Jobs, Pcs
    <3>1. TypeOK'
      <4>1. job' \in Jobs
        BY <2>a, <2>2, <3>f, FileNames DEF TypeOK, Jobs, Pcs, Contents
      <4>2. disk' \in [Names -> Contents] /\ tmp' \subseteq Names \cup {"StetUpdate"}
        BY <2>a, <2>2, <3>f, FileNames DEF TypeOK, Jobs, Contents
      <4>3. /\ registered' \in BOOLEAN /\ unsigned' \in BOOLEAN /\ owed' \in BOOLEAN
            /\ jobs' \in 0..MaxJobs
        BY <2>a, <2>2, <3>f, FileNames, InstallationAssumption DEF TypeOK
      <4>4. /\ job'.pc \in {"get", "rename"} => job'.cur \in Archives \cup Models
            /\ job'.pc \in {"unpack", "unpacking"} => job'.cur \in Archives
        BY <2>a, <2>2, <3>f, FileNames DEF TypeOK, Jobs
      <4> QED BY <4>1, <4>2, <4>3, <4>4 DEF TypeOK
    <3>2. JobInv'
      BY <2>a, <2>2, <3>f, FileNames DEF TypeOK, JobInv, Jobs
    <3>3. OwedInv'
      BY <2>a, <2>2, <3>f, FileNames DEF TypeOK, JobInv, OwedInv, Jobs, SettingsSurvive, Overwriting
    <3>4. SettingsSurvive'
      BY <2>a, <2>2, <3>f, FileNames DEF TypeOK, JobInv, OwedInv, SettingsSurvive, Overwriting, Jobs
    <3>5. VerifiedOnly'
      BY <2>a, <2>2, <3>f, FileNames DEF TypeOK, VerifiedOnly, JobInv, Jobs
    <3>6. NamedModelIsWhole'
      BY <2>a, <2>2, <3>f, FileNames DEF TypeOK, NamedModelIsWhole, JobInv, Jobs
    <3> QED BY <3>1, <3>2, <3>3, <3>4, <3>5, <3>6
  <2> QED BY <2>a, <2>b, <2>1, <2>2
<1>29. CASE UninstallCleanup
  <2>1. TypeOK'
    <3>1. job' \in Jobs
      BY <1>29, FileNames DEF UninstallCleanup, TypeOK, Jobs, Pcs, Contents
    <3>2. disk' \in [Names -> Contents] /\ tmp' \subseteq Names \cup {"StetUpdate"}
      BY <1>29, FileNames DEF UninstallCleanup, TypeOK, Jobs, Contents
    <3>3. /\ registered' \in BOOLEAN /\ unsigned' \in BOOLEAN /\ owed' \in BOOLEAN
          /\ jobs' \in 0..MaxJobs
      BY <1>29, FileNames, InstallationAssumption DEF UninstallCleanup, TypeOK
    <3>4. /\ job'.pc \in {"get", "rename"} => job'.cur \in Archives \cup Models
          /\ job'.pc \in {"unpack", "unpacking"} => job'.cur \in Archives
      BY <1>29, FileNames DEF UninstallCleanup, TypeOK, Jobs
    <3> QED BY <3>1, <3>2, <3>3, <3>4 DEF TypeOK
  <2>2. JobInv'
    BY <1>29, FileNames DEF UninstallCleanup, TypeOK, JobInv, Jobs
  <2>3. OwedInv'
    BY <1>29, FileNames DEF UninstallCleanup, TypeOK, JobInv, OwedInv, Jobs, SettingsSurvive, Overwriting
  <2>4. SettingsSurvive'
    BY <1>29, FileNames DEF UninstallCleanup, TypeOK, JobInv, OwedInv, SettingsSurvive, Overwriting, Jobs
  <2>5. VerifiedOnly'
    BY <1>29, FileNames DEF UninstallCleanup, TypeOK, VerifiedOnly, JobInv, Jobs
  <2>6. NamedModelIsWhole'
    BY <1>29, FileNames DEF UninstallCleanup, TypeOK, NamedModelIsWhole, JobInv, Jobs
  <2> QED BY <2>1, <2>2, <2>3, <2>4, <2>5, <2>6
<1>30. CASE Crash
  <2>1. TypeOK'
    <3>1. job' \in Jobs
      BY <1>30 DEF Crash, TypeOK, Jobs, Pcs, Contents
    <3>2. disk' \in [Names -> Contents] /\ tmp' \subseteq Names \cup {"StetUpdate"}
      BY <1>30 DEF Crash, TypeOK, Jobs, Contents
    <3>3. /\ registered' \in BOOLEAN /\ unsigned' \in BOOLEAN /\ owed' \in BOOLEAN
          /\ jobs' \in 0..MaxJobs
      BY <1>30, InstallationAssumption DEF Crash, TypeOK
    <3>4. /\ job'.pc \in {"get", "rename"} => job'.cur \in Archives \cup Models
          /\ job'.pc \in {"unpack", "unpacking"} => job'.cur \in Archives
      BY <1>30 DEF Crash, TypeOK, Jobs
    <3> QED BY <3>1, <3>2, <3>3, <3>4 DEF TypeOK
  <2>2. JobInv'
    BY <1>30 DEF Crash, TypeOK, JobInv, Jobs
  <2>3. OwedInv'
    BY <1>30 DEF Crash, TypeOK, JobInv, OwedInv, Jobs, SettingsSurvive, Overwriting
  <2>4. SettingsSurvive'
    BY <1>30 DEF Crash, TypeOK, JobInv, OwedInv, SettingsSurvive, Overwriting, Jobs
  <2>5. VerifiedOnly'
    BY <1>30 DEF Crash, TypeOK, VerifiedOnly, JobInv, Jobs
  <2>6. NamedModelIsWhole'
    BY <1>30 DEF Crash, TypeOK, NamedModelIsWhole, JobInv, Jobs
  <2> QED BY <2>1, <2>2, <2>3, <2>4, <2>5, <2>6
<1>31. CASE UNCHANGED vars
  BY <1>31 DEF vars, TypeOK, JobInv, OwedInv, SettingsSurvive, Overwriting, VerifiedOnly,
     NamedModelIsWhole
<1> QED
  BY <1>1, <1>2, <1>3, <1>4, <1>5, <1>6, <1>7, <1>8, <1>9, <1>10, <1>11, <1>12,
     <1>13, <1>14, <1>15, <1>16, <1>17, <1>18, <1>19, <1>20, <1>21, <1>22, <1>23, <1>24,
     <1>25, <1>26, <1>27, <1>28, <1>29, <1>30, <1>31
  DEF Next, Start, Work

-----------------------------------------------------------------------------
THEOREM InvCorrect == Spec => []IInv
  BY InvInit, InvNext, PTL DEF Spec

\* The directory, the temporary names and the job at work keep their types.
THEOREM TypeCorrect == Spec => []TypeOK
<1>1. IInv => TypeOK BY DEF IInv
<1> QED BY InvCorrect, <1>1, PTL

\* Nothing but the published payload reaches the directory without --allow-unsigned,
\* whatever runs before and after, and wherever it is stopped.
THEOREM VerifiedCorrect == Spec => []VerifiedOnly
<1>1. IInv => VerifiedOnly BY DEF IInv
<1> QED BY InvCorrect, <1>1, PTL

\* The settings of the user outlive every sequence of jobs and stops but one: a stop while
\* config.json itself is being written.
THEOREM SettingsCorrect == Spec => []SettingsSurvive
<1>1. IInv => SettingsSurvive BY DEF IInv
<1> QED BY InvCorrect, <1>1, PTL

\* A model under its final name is whole, for any set of models.
THEOREM ModelsCorrect == Spec => []NamedModelIsWhole
<1>1. IInv => NamedModelIsWhole BY DEF IInv
<1> QED BY InvCorrect, <1>1, PTL

LEMMA OnlyReplaceWrites ==
  ASSUME IInv, [Next]_vars, job.kind = "update", NEW f \in Names, disk'[f] /= disk[f]
  PROVE  f \in Files /\ disk'[f] = job.cargo
<1> USE DEF IInv
<1>1. job.pc \in {"fetch", "verify", "stage", "copy", "replace"} BY DEF JobInv
<1>2. job /= Idle BY IdleFacts
<1>3. CASE UpdateReplace
  <2>1. job.cur \in Files /\ disk' = [disk EXCEPT ![job.cur] = job.cargo]
    BY <1>3 DEF UpdateReplace, JobInv
  <2> QED BY <2>1 DEF TypeOK
<1>4. CASE UpdateFetch \/ UpdateVerify \/ UpdateStage \/ UpdateCopy \/ UpdateDone \/ Crash
  BY <1>4 DEF UpdateFetch, UpdateVerify, UpdateStage, UpdateCopy, UpdateDone, Crash
<1>5. ~Start
  BY <1>2 DEF Start, StartUpdate, StartInstall, StartFirstRun, StartSave, StartUninstall, Begin
<1>6. UpdateFetch \/ UpdateVerify \/ UpdateStage \/ UpdateCopy \/ UpdateReplace \/ UpdateDone
      \/ Crash \/ UNCHANGED vars
  BY <1>1, <1>5 DEF Next, Work, InstallValidate, InstallExtract, InstallExtracted, InstallDownloads,
     InstallConfigure, InstallConfigured, InstallRegister, DownloadNext, DownloadCheck,
     DownloadRename, DownloadUnpack, DownloadUnpacked, FirstRunDone, SaveWrite, SaveMove,
     SaveOverwritten, UninstallRemove, UninstallCleanup
<1> QED BY <1>3, <1>4, <1>6 DEF vars

\* However an update ends, each file is of one whole version, and only files of the
\* application are written.
THEOREM UpdateCorrect == Spec => UpdateReplacesWholeFiles
<1>1. IInv /\ [Next]_vars =>
        [job.kind = "update" =>
            \A f \in Names: disk'[f] /= disk[f] => f \in Files /\ disk'[f] = job.cargo]_vars
  BY OnlyReplaceWrites
<1> QED BY InvCorrect, <1>1, PTL DEF Spec, UpdateReplacesWholeFiles
-----------------------------------------------------------------------------
(* The settings: what a function of them keeps.                             *)

Modes == {"custom_templates", "correction_modes"}

\* Settings that went through a migration: complete, without what older versions had, and in
\* agreement with one another.
Sound(cfg) ==
  /\ cfg = [k \in DOMAIN cfg |-> cfg[k]]
  /\ Settings \subseteq DOMAIN cfg
  /\ "correction_mode" \notin DOMAIN cfg /\ "hotkey" \notin DOMAIN cfg /\ "silent_hotkey" \notin DOMAIN cfg
  /\ cfg.threshold # "drifted" /\ cfg.prompts # "old"
  /\ cfg.chat_use_separate_model \in BOOLEAN
  /\ "ac_same_as_chat" \in DOMAIN cfg => cfg.ac_same_as_chat \in BOOLEAN
  /\ ~cfg.chat_use_separate_model => cfg.chat_model_path = cfg.model_path

\* No migration would replace its templates or its custom modes.
Shown(cfg) == ~(TemplateNames(cfg.custom_templates) \subseteq LegacyNames) /\ cfg.correction_modes # <<>>

Loadable(s) ==
  /\ "ac_same_as_chat" \in DOMAIN s => s.ac_same_as_chat \in BOOLEAN
  /\ "chat_use_separate_model" \in DOMAIN s => s.chat_use_separate_model \in BOOLEAN
  /\ "chat_model_path" \in DOMAIN s /\ ~WithDefaults(s).chat_use_separate_model
       => s.chat_model_path = WithDefaults(s).model_path

LEMMA DefaultFacts ==
  /\ Settings = {"model_path", "chat_model_path", "chat_use_separate_model", "correction_method",
                 "streaming_strength", "hotkeys", "custom_templates", "prompts", "correction_modes",
                 "protected_terms", "llama_server_path", "threshold", "context_size", "context_size_auto"}
  /\ Defaults.chat_use_separate_model = FALSE /\ Defaults.threshold = "shipped"
  /\ Defaults.correction_modes # <<>>
  /\ ~(TemplateNames(Templates) \subseteq LegacyNames)
<1>1. DOMAIN Defaults = {"model_path", "chat_model_path", "chat_use_separate_model", "correction_method",
                 "streaming_strength", "hotkeys", "custom_templates", "prompts", "correction_modes",
                 "protected_terms", "llama_server_path", "threshold", "context_size", "context_size_auto"}
  BY DEF Defaults
<1>2. Defaults.chat_use_separate_model = FALSE /\ Defaults.threshold = "shipped" BY DEF Defaults
<1>3. Defaults.correction_modes = <<CustomMode("Patch", "1.0")>> BY DEF Defaults
<1>4. <<CustomMode("Patch", "1.0")>> # <<>> OBVIOUS
<1>5. Templates[1].name = "Academic" /\ 1 \in DOMAIN Templates BY DEF Templates, Template
<1>6. "Academic" \in TemplateNames(Templates) BY <1>5 DEF TemplateNames
<1> QED BY <1>1, <1>2, <1>3, <1>4, <1>6 DEF Settings, LegacyNames

LEMMA WithDefaultsFacts ==
  ASSUME NEW s, NEW p, p = WithDefaults(s)
  PROVE  /\ p = [k \in DOMAIN p |-> p[k]]
         /\ DOMAIN p = DOMAIN s \cup Settings
         /\ \A k \in DOMAIN s : p[k] = s[k]
         /\ \A k \in Settings : k \notin DOMAIN s => p[k] = Defaults[k]
BY DEF WithDefaults, Settings

\* What the steps of the migration hand on.
Base(cfg) == cfg = [k \in DOMAIN cfg |-> cfg[k]] /\ Settings \subseteq DOMAIN cfg

ModelsAgree(cfg) ==
  /\ cfg.chat_use_separate_model \in BOOLEAN
  /\ "ac_same_as_chat" \in DOMAIN cfg => cfg.ac_same_as_chat \in BOOLEAN
  /\ ~cfg.chat_use_separate_model => cfg.chat_model_path = cfg.model_path

SameModels(r, cfg) ==
  /\ r.chat_use_separate_model = cfg.chat_use_separate_model
  /\ r.chat_model_path = cfg.chat_model_path /\ r.model_path = cfg.model_path
  /\ "ac_same_as_chat" \in DOMAIN r => "ac_same_as_chat" \in DOMAIN cfg /\ r.ac_same_as_chat = cfg.ac_same_as_chat

LEMMA SameModelsAgree ==
  ASSUME NEW r, NEW cfg, SameModels(r, cfg), ModelsAgree(cfg) PROVE ModelsAgree(r)
BY DEF SameModels, ModelsAgree

LEMMA ThresholdMigrates ==
  ASSUME NEW cfg, Base(cfg), NEW r, r = MigrateThreshold(cfg)
  PROVE  /\ Base(r) /\ DOMAIN r = DOMAIN cfg /\ r.threshold # "drifted"
         /\ \A k \in DOMAIN cfg : k # "threshold" => r[k] = cfg[k]
<1>1. "threshold" \in DOMAIN cfg BY DefaultFacts DEF Base
<1>2. CASE cfg.threshold = "drifted"
  <2>1. PICK p : p = Put(cfg, "threshold", Defaults.threshold) OBVIOUS
  <2>2. /\ p = [k \in DOMAIN p |-> p[k]] /\ DOMAIN p = DOMAIN cfg \cup {"threshold"}
        /\ p["threshold"] = Defaults.threshold /\ \A k \in DOMAIN cfg : k # "threshold" => p[k] = cfg[k]
    BY <2>1 DEF Put
  <2>3. r = p BY <1>2, <2>1 DEF MigrateThreshold
  <2> QED BY <1>1, <2>2, <2>3, DefaultFacts DEF Base
<1>3. CASE cfg.threshold # "drifted" BY <1>3 DEF MigrateThreshold
<1> QED BY <1>2, <1>3

LEMMA TwoModelsFacts ==
  ASSUME NEW cfg, NEW s, NEW same \in BOOLEAN, NEW r, r = TwoModels(cfg, s, same)
  PROVE  /\ r = [k \in DOMAIN r |-> r[k]]
         /\ DOMAIN r = DOMAIN cfg \cup {"chat_use_separate_model", "chat_model_path", "model_path"}
         /\ r.chat_use_separate_model = ~same
         /\ same => r.chat_model_path = r.model_path
         /\ \A k \in DOMAIN cfg : k \notin {"chat_use_separate_model", "chat_model_path", "model_path"}
                                    => r[k] = cfg[k]
<1>1. PICK a : a = Put(cfg, "chat_use_separate_model", ~same) OBVIOUS
<1>2. PICK b : b = Put(a, "chat_model_path", Value(s, "model_path")) OBVIOUS
<1>3. r = Put(b, "model_path", Value(s, IF same THEN "model_path" ELSE "ac_model_path"))
  BY <1>1, <1>2 DEF TwoModels
<1>4. /\ DOMAIN a = DOMAIN cfg \cup {"chat_use_separate_model"} /\ a["chat_use_separate_model"] = ~same
      /\ \A k \in DOMAIN cfg : k # "chat_use_separate_model" => a[k] = cfg[k]
  BY <1>1 DEF Put
<1>5. /\ DOMAIN b = DOMAIN a \cup {"chat_model_path"} /\ b["chat_model_path"] = Value(s, "model_path")
      /\ \A k \in DOMAIN a : k # "chat_model_path" => b[k] = a[k]
  BY <1>2 DEF Put
<1>6. /\ r = [k \in DOMAIN r |-> r[k]] /\ DOMAIN r = DOMAIN b \cup {"model_path"}
      /\ r["model_path"] = Value(s, IF same THEN "model_path" ELSE "ac_model_path")
      /\ \A k \in DOMAIN b : k # "model_path" => r[k] = b[k]
  BY <1>3 DEF Put
<1>8. r.chat_use_separate_model = ~same BY <1>4, <1>5, <1>6
<1>9. same => r.chat_model_path = r.model_path BY <1>5, <1>6
<1>10. DOMAIN r = DOMAIN cfg \cup {"chat_use_separate_model", "chat_model_path", "model_path"}
  BY <1>4, <1>5, <1>6
<1>11. \A k \in DOMAIN cfg : k \notin {"chat_use_separate_model", "chat_model_path", "model_path"}
                                    => r[k] = cfg[k]
  BY <1>4, <1>5, <1>6
<1> QED BY <1>6, <1>8, <1>9, <1>10, <1>11

LEMMA ModelsMigrate ==
  ASSUME NEW s, NEW cfg, Loadable(s), Base(cfg), DOMAIN cfg = DOMAIN s \cup Settings,
         \A k \in {"chat_use_separate_model", "chat_model_path", "model_path", "ac_same_as_chat"} :
            k \in DOMAIN cfg => cfg[k] = WithDefaults(s)[k],
         NEW r, r = MigrateModels(cfg, s)
  PROVE  /\ Base(r) /\ ModelsAgree(r) /\ DOMAIN r \subseteq DOMAIN cfg
         /\ \A k \in DOMAIN r : k \notin {"chat_use_separate_model", "chat_model_path", "model_path"}
                                    => r[k] = cfg[k]
<1>1. /\ \A k \in DOMAIN s : WithDefaults(s)[k] = s[k]
      /\ \A k \in Settings : k \notin DOMAIN s => WithDefaults(s)[k] = Defaults[k]
  BY WithDefaultsFacts
<1>2. CASE "chat_model_path" \in DOMAIN s
  <2>1. r = cfg BY <1>2 DEF MigrateModels
  <2>2. cfg.chat_use_separate_model \in BOOLEAN BY <1>1, DefaultFacts DEF Loadable
  <2>3. "ac_same_as_chat" \in DOMAIN cfg => cfg.ac_same_as_chat \in BOOLEAN BY <1>1, DefaultFacts DEF Loadable
  <2>4. ~cfg.chat_use_separate_model => cfg.chat_model_path = cfg.model_path
    BY <1>1, <1>2, DefaultFacts DEF Loadable
  <2> QED BY <2>1, <2>2, <2>3, <2>4 DEF ModelsAgree
<1>3. CASE "chat_model_path" \notin DOMAIN s
  <2>1. PICK same \in BOOLEAN : same = IF "ac_same_as_chat" \in DOMAIN s THEN s.ac_same_as_chat ELSE TRUE
    BY DEF Loadable
  <2>2. PICK w : w = Without(cfg, {"ac_same_as_chat", "ac_model_path"}) OBVIOUS
  <2>3. DOMAIN w = DOMAIN cfg \ {"ac_same_as_chat", "ac_model_path"} /\ \A k \in DOMAIN w : w[k] = cfg[k]
    BY <2>2 DEF Without
  <2>4. r = TwoModels(w, s, same) BY <1>3, <2>1, <2>2 DEF MigrateModels
  <2>6. /\ r = [k \in DOMAIN r |-> r[k]]
        /\ DOMAIN r = DOMAIN w \cup {"chat_use_separate_model", "chat_model_path", "model_path"}
        /\ r.chat_use_separate_model = ~same /\ (same => r.chat_model_path = r.model_path)
        /\ \A k \in DOMAIN w : k \notin {"chat_use_separate_model", "chat_model_path", "model_path"}
                                    => r[k] = w[k]
    BY <2>4, TwoModelsFacts
  <2>7. DOMAIN r = DOMAIN cfg \ {"ac_same_as_chat", "ac_model_path"} BY <2>3, <2>6, DefaultFacts DEF Base
  <2>8. Base(r) BY <2>6, <2>7, DefaultFacts DEF Base
  <2>9. ModelsAgree(r) BY <2>6, <2>7 DEF ModelsAgree
  <2> QED BY <2>3, <2>6, <2>7, <2>8, <2>9
<1> QED BY <1>2, <1>3

LessMode(r, cfg) ==
  /\ Base(r) /\ DOMAIN r = DOMAIN cfg \ {"correction_mode"}
  /\ \A k \in DOMAIN r : r[k] = cfg[k]

LessHotkeys(r, cfg) ==
  /\ Base(r) /\ DOMAIN r = DOMAIN cfg \ {"hotkey", "silent_hotkey"}
  /\ \A k \in DOMAIN r : k # "hotkeys" => r[k] = cfg[k]

\* The strength is not migrated: the key it would be given is there already.
LEMMA StrengthMigrates ==
  ASSUME NEW s, NEW cfg, Base(cfg), NEW r, r = MigrateStrength(cfg, s)
  PROVE  LessMode(r, cfg)
<1>1. PICK w : w = Without(cfg, {"correction_mode"}) OBVIOUS
<1>2. /\ w = [k \in DOMAIN w |-> w[k]] /\ DOMAIN w = DOMAIN cfg \ {"correction_mode"}
      /\ \A k \in DOMAIN w : w[k] = cfg[k]
  BY <1>1 DEF Without
<1>3. "correction_method" \in DOMAIN w /\ "streaming_strength" \in DOMAIN w
  BY <1>2, DefaultFacts DEF Base
<1>4. r = w BY <1>1, <1>3 DEF MigrateStrength, PutDefault
<1>5. Settings \subseteq DOMAIN w BY <1>2, DefaultFacts DEF Base
<1> QED BY <1>2, <1>4, <1>5 DEF Base, LessMode

LEMMA HotkeysMigrate ==
  ASSUME NEW s, NEW cfg, Base(cfg), NEW r, r = MigrateHotkeys(cfg, s)
  PROVE  /\ LessHotkeys(r, cfg)
         /\ "hotkeys" \in DOMAIN s => r.hotkeys = cfg.hotkeys
<1>1. PICK w : w = Without(cfg, {"hotkey", "silent_hotkey"}) OBVIOUS
<1>2. /\ w = [k \in DOMAIN w |-> w[k]] /\ DOMAIN w = DOMAIN cfg \ {"hotkey", "silent_hotkey"}
      /\ \A k \in DOMAIN w : w[k] = cfg[k]
  BY <1>1 DEF Without
<1>3. Settings \subseteq DOMAIN w /\ "hotkeys" \in DOMAIN w BY <1>2, DefaultFacts DEF Base
<1>4. PICK old : \/ r = w
                 \/ "hotkeys" \notin DOMAIN s /\ r = Put(w, "hotkeys", old)
  BY <1>1 DEF MigrateHotkeys
<1>5. CASE r = w BY <1>2, <1>3, <1>5 DEF Base, LessHotkeys
<1>6. CASE "hotkeys" \notin DOMAIN s /\ r = Put(w, "hotkeys", old)
  <2>1. /\ r = [k \in DOMAIN r |-> r[k]] /\ DOMAIN r = DOMAIN w
        /\ \A k \in DOMAIN w : k # "hotkeys" => r[k] = w[k]
    BY <1>3, <1>6 DEF Put
  <2> QED BY <1>2, <1>3, <1>6, <2>1 DEF Base, LessHotkeys
<1> QED BY <1>4, <1>5, <1>6

LEMMA TemplatesMigrate ==
  ASSUME NEW cfg, Base(cfg), NEW r, r = MigrateTemplates(cfg)
  PROVE  /\ Base(r) /\ DOMAIN r = DOMAIN cfg /\ ~(TemplateNames(r.custom_templates) \subseteq LegacyNames)
         /\ \A k \in DOMAIN cfg : k # "custom_templates" => r[k] = cfg[k]
         /\ ~(TemplateNames(cfg.custom_templates) \subseteq LegacyNames) => r = cfg
<1>1. "custom_templates" \in DOMAIN cfg BY DefaultFacts DEF Base
<1>2. CASE TemplateNames(cfg.custom_templates) \subseteq LegacyNames
  <2>1. r = Put(cfg, "custom_templates", Templates) BY <1>2 DEF MigrateTemplates
  <2>2. /\ r = [k \in DOMAIN r |-> r[k]] /\ DOMAIN r = DOMAIN cfg /\ r.custom_templates = Templates
        /\ \A k \in DOMAIN cfg : k # "custom_templates" => r[k] = cfg[k]
    BY <1>1, <2>1 DEF Put
  <2>3. ~(TemplateNames(r.custom_templates) \subseteq LegacyNames) BY <2>2, DefaultFacts
  <2> QED BY <1>2, <2>2, <2>3 DEF Base
<1>3. CASE ~(TemplateNames(cfg.custom_templates) \subseteq LegacyNames)
  BY <1>3 DEF MigrateTemplates
<1> QED BY <1>2, <1>3

LEMMA ModesMigrate ==
  ASSUME NEW cfg, Base(cfg), NEW r, r = MigrateModes(cfg)
  PROVE  /\ Base(r) /\ DOMAIN r = DOMAIN cfg /\ r.correction_modes # <<>> /\ r.prompts # "old"
         /\ \A k \in DOMAIN cfg : k \notin {"correction_modes", "prompts"} => r[k] = cfg[k]
         /\ cfg.prompts # "old" => r.prompts = cfg.prompts
         /\ cfg.correction_modes # <<>> => r.correction_modes = cfg.correction_modes
<1>1. "correction_modes" \in DOMAIN cfg /\ "prompts" \in DOMAIN cfg BY DefaultFacts DEF Base
<1>2. PICK m : m = IF cfg.correction_modes = <<>> THEN Defaults.correction_modes ELSE cfg.correction_modes
  OBVIOUS
<1>3. m # <<>> /\ (cfg.correction_modes # <<>> => m = cfg.correction_modes) BY <1>2, DefaultFacts
<1>4. PICK w : w = Put(cfg, "correction_modes", m) OBVIOUS
<1>5. /\ DOMAIN w = DOMAIN cfg /\ w.correction_modes = m
      /\ \A k \in DOMAIN cfg : k # "correction_modes" => w[k] = cfg[k]
  BY <1>1, <1>4 DEF Put
<1>6. PICK t : t = IF cfg.prompts = "old" THEN "new" ELSE cfg.prompts OBVIOUS
<1>7. t # "old" /\ (cfg.prompts # "old" => t = cfg.prompts) BY <1>6
<1>8. r = Put(w, "prompts", t) BY <1>2, <1>4, <1>6 DEF MigrateModes
<1>9. /\ r = [k \in DOMAIN r |-> r[k]] /\ DOMAIN r = DOMAIN w /\ r.prompts = t
      /\ \A k \in DOMAIN w : k # "prompts" => r[k] = w[k]
  BY <1>1, <1>5, <1>8 DEF Put
<1>10. r.correction_modes = m BY <1>1, <1>5, <1>9
<1> QED BY <1>3, <1>5, <1>7, <1>9, <1>10 DEF Base

LEMMA ContextMigrates ==
  ASSUME NEW s, NEW cfg, Base(cfg), NEW r, r = MigrateContext(cfg, s)
  PROVE  /\ Base(r) /\ DOMAIN r = DOMAIN cfg
         /\ \A k \in DOMAIN cfg : k # "context_size_auto" => r[k] = cfg[k]
         /\ "context_size_auto" \in DOMAIN s => r = cfg
<1>1. "context_size_auto" \in DOMAIN cfg BY DefaultFacts DEF Base
<1>2. CASE "context_size_auto" \in DOMAIN s BY <1>2 DEF MigrateContext
<1>3. CASE "context_size_auto" \notin DOMAIN s
  <2>1. PICK x : r = Put(cfg, "context_size_auto", x) BY <1>3 DEF MigrateContext
  <2>2. /\ r = [k \in DOMAIN r |-> r[k]] /\ DOMAIN r = DOMAIN cfg
        /\ \A k \in DOMAIN cfg : k # "context_size_auto" => r[k] = cfg[k]
    BY <1>1, <2>1 DEF Put
  <2> QED BY <1>3, <2>2 DEF Base
<1> QED BY <1>2, <1>3

\* The settings between the steps of the migration.
LEMMA MigrationSteps ==
  ASSUME NEW s
  PROVE  \E a, b, c, d, e, f, g :
           /\ a = WithDefaults(s) /\ b = MigrateThreshold(a) /\ c = MigrateModels(b, s)
           /\ d = MigrateStrength(c, s) /\ e = MigrateHotkeys(d, s) /\ f = MigrateTemplates(e)
           /\ g = MigrateModes(f) /\ Migrate(s) = MigrateContext(g, s)
BY DEF Migrate

\* Whatever a file holds, the settings read from it are sound.
LEMMA MigrateSound ==
  ASSUME NEW s, Loadable(s), NEW r, r = Migrate(s) PROVE Sound(r) /\ Shown(r)
<1>1. PICK a, b, c, d, e, f, g :
           /\ a = WithDefaults(s) /\ b = MigrateThreshold(a) /\ c = MigrateModels(b, s)
           /\ d = MigrateStrength(c, s) /\ e = MigrateHotkeys(d, s) /\ f = MigrateTemplates(e)
           /\ g = MigrateModes(f) /\ r = MigrateContext(g, s)
  BY MigrationSteps
<1>2. Base(a) /\ DOMAIN a = DOMAIN s \cup Settings BY <1>1 DEF WithDefaults, Base, Settings
<1>3. /\ Base(b) /\ DOMAIN b = DOMAIN a /\ b.threshold # "drifted"
      /\ \A k \in DOMAIN a : k # "threshold" => b[k] = a[k]
  BY <1>1, <1>2, ThresholdMigrates
<1>4. /\ Base(c) /\ ModelsAgree(c) /\ DOMAIN c \subseteq DOMAIN b
      /\ \A k \in DOMAIN c : k \notin {"chat_use_separate_model", "chat_model_path", "model_path"}
                               => c[k] = b[k]
  <2>1. \A k \in {"chat_use_separate_model", "chat_model_path", "model_path", "ac_same_as_chat"} :
            k \in DOMAIN b => b[k] = WithDefaults(s)[k]
    BY <1>1, <1>3
  <2> QED BY <1>1, <1>2, <1>3, <2>1, ModelsMigrate
<1>5. Base(d) /\ DOMAIN d = DOMAIN c \ {"correction_mode"} /\ \A k \in DOMAIN d : d[k] = c[k]
  <2>1. LessMode(d, c) BY <1>1, <1>4, StrengthMigrates
  <2> QED BY <2>1 DEF LessMode
<1>6. /\ Base(e) /\ DOMAIN e = DOMAIN d \ {"hotkey", "silent_hotkey"}
      /\ \A k \in DOMAIN e : k # "hotkeys" => e[k] = d[k]
  <2>1. LessHotkeys(e, d) BY <1>1, <1>5, HotkeysMigrate
  <2> QED BY <2>1 DEF LessHotkeys
<1>7. /\ Base(f) /\ DOMAIN f = DOMAIN e /\ ~(TemplateNames(f.custom_templates) \subseteq LegacyNames)
      /\ \A k \in DOMAIN e : k # "custom_templates" => f[k] = e[k]
  BY <1>1, <1>6, TemplatesMigrate
<1>8. /\ Base(g) /\ DOMAIN g = DOMAIN f /\ g.correction_modes # <<>> /\ g.prompts # "old"
      /\ \A k \in DOMAIN f : k \notin {"correction_modes", "prompts"} => g[k] = f[k]
  BY <1>1, <1>7, ModesMigrate
<1>9. /\ Base(r) /\ DOMAIN r = DOMAIN g
      /\ \A k \in DOMAIN g : k # "context_size_auto" => r[k] = g[k]
  BY <1>1, <1>8, ContextMigrates
<1>10. DOMAIN r = DOMAIN e /\ DOMAIN e = DOMAIN c \ {"correction_mode", "hotkey", "silent_hotkey"}
  BY <1>5, <1>6, <1>7, <1>8, <1>9
<1>11. \A k \in DOMAIN r : k \notin {"hotkeys", "custom_templates", "correction_modes", "prompts", "context_size_auto"}
                             => r[k] = c[k]
  BY <1>5, <1>6, <1>7, <1>8, <1>9
<1>12. ModelsAgree(r)
  <2>1. {"chat_use_separate_model", "chat_model_path", "model_path"} \subseteq DOMAIN r
    BY <1>9, DefaultFacts DEF Base
  <2>2. SameModels(r, c) BY <1>10, <1>11, <2>1 DEF SameModels
  <2> QED BY <1>4, <2>2, SameModelsAgree
<1>13. /\ r.threshold # "drifted" /\ r.prompts # "old" /\ r.correction_modes # <<>>
       /\ ~(TemplateNames(r.custom_templates) \subseteq LegacyNames)
  <2>1. {"threshold", "prompts", "correction_modes", "custom_templates"} \subseteq DOMAIN r
    BY <1>9, DefaultFacts DEF Base
  <2>2. r.threshold = b.threshold
    <3>1. "threshold" \in DOMAIN c BY <1>4, DefaultFacts DEF Base
    <3> QED BY <1>4, <1>11, <2>1, <3>1
  <2>3. r.prompts = g.prompts /\ r.correction_modes = g.correction_modes BY <1>9, <2>1
  <2>4. r.custom_templates = f.custom_templates BY <1>8, <1>9, <2>1
  <2> QED BY <1>3, <1>7, <1>8, <2>2, <2>3, <2>4
<1> QED BY <1>9, <1>10, <1>12, <1>13 DEF Base, ModelsAgree, Sound, Shown

LEMMA SoundIsLoadable == ASSUME NEW cfg, Sound(cfg) PROVE Loadable(cfg) /\ Base(cfg) /\ cfg # Torn
<1>1. \A k \in DOMAIN cfg : WithDefaults(cfg)[k] = cfg[k] BY DEF WithDefaults
<1>2. {"chat_use_separate_model", "model_path", "prompts"} \subseteq DOMAIN cfg BY DefaultFacts DEF Sound
<1>3. "prompts" \notin DOMAIN Torn BY DEF Torn
<1> QED BY <1>1, <1>2, <1>3 DEF Sound, Loadable, Base

\* Nothing is migrated twice.
LEMMA MigrateAgain ==
  ASSUME NEW cfg, Sound(cfg), NEW r, r = Migrate(cfg)
  PROVE  \A k \in DOMAIN cfg :
           k \in DOMAIN r /\ (k \notin Modes \/ Shown(cfg) => r[k] = cfg[k])
<1>1. PICK a, b, c, d, e, f, g :
           /\ a = WithDefaults(cfg) /\ b = MigrateThreshold(a) /\ c = MigrateModels(b, cfg)
           /\ d = MigrateStrength(c, cfg) /\ e = MigrateHotkeys(d, cfg) /\ f = MigrateTemplates(e)
           /\ g = MigrateModes(f) /\ r = MigrateContext(g, cfg)
  BY MigrationSteps
<1>2. /\ Base(cfg) /\ Settings \subseteq DOMAIN cfg
      /\ "chat_model_path" \in DOMAIN cfg /\ "hotkeys" \in DOMAIN cfg /\ "context_size_auto" \in DOMAIN cfg
      /\ {"threshold", "custom_templates", "correction_modes", "prompts"} \subseteq DOMAIN cfg
  BY DefaultFacts, SoundIsLoadable DEF Sound
<1>3. Base(a) /\ DOMAIN a = DOMAIN cfg /\ \A k \in DOMAIN cfg : a[k] = cfg[k]
  BY <1>1, <1>2 DEF WithDefaults, Base, Settings
<1>4. b = a BY <1>1, <1>2, <1>3 DEF MigrateThreshold, Sound
<1>5. c = b BY <1>1, <1>2 DEF MigrateModels
<1>6. Base(d) /\ DOMAIN d = DOMAIN cfg /\ \A k \in DOMAIN cfg : d[k] = cfg[k]
  <2>1. Base(d) /\ DOMAIN d = DOMAIN c \ {"correction_mode"} /\ \A k \in DOMAIN d : d[k] = c[k]
    <3>1. LessMode(d, c) BY <1>1, <1>3, <1>4, <1>5, StrengthMigrates
    <3> QED BY <3>1 DEF LessMode
  <2> QED BY <1>3, <1>4, <1>5, <2>1 DEF Sound
<1>7. Base(e) /\ DOMAIN e = DOMAIN cfg /\ \A k \in DOMAIN cfg : e[k] = cfg[k]
  <2>1. /\ Base(e) /\ DOMAIN e = DOMAIN d \ {"hotkey", "silent_hotkey"}
        /\ \A k \in DOMAIN e : k # "hotkeys" => e[k] = d[k]
        /\ e.hotkeys = d.hotkeys
    <3>1. LessHotkeys(e, d) /\ e.hotkeys = d.hotkeys BY <1>1, <1>2, <1>6, HotkeysMigrate
    <3> QED BY <3>1 DEF LessHotkeys
  <2> QED BY <1>6, <2>1 DEF Sound
<1>8. /\ Base(f) /\ DOMAIN f = DOMAIN e
      /\ \A k \in DOMAIN e : k # "custom_templates" => f[k] = e[k]
      /\ ~(TemplateNames(e.custom_templates) \subseteq LegacyNames) => f = e
  BY <1>1, <1>7, TemplatesMigrate
<1>9. /\ Base(g) /\ DOMAIN g = DOMAIN f
      /\ \A k \in DOMAIN f : k \notin {"correction_modes", "prompts"} => g[k] = f[k]
      /\ f.prompts # "old" => g.prompts = f.prompts
      /\ f.correction_modes # <<>> => g.correction_modes = f.correction_modes
  BY <1>1, <1>8, ModesMigrate
<1>10. r = g BY <1>1, <1>2, <1>9, ContextMigrates
<1>11. f.prompts = cfg.prompts /\ f.correction_modes = cfg.correction_modes BY <1>2, <1>7, <1>8
<1>12. cfg.prompts # "old" BY DEF Sound
<1>13. DOMAIN r = DOMAIN cfg BY <1>7, <1>8, <1>9, <1>10
<1>14. ASSUME NEW k \in DOMAIN cfg, k \notin Modes PROVE r[k] = cfg[k]
  <2>1. CASE k = "prompts" BY <1>9, <1>10, <1>11, <1>12, <2>1
  <2>2. CASE k # "prompts" BY <1>7, <1>8, <1>9, <1>10, <1>14, <2>2 DEF Modes
  <2> QED BY <2>1, <2>2
<1>15. ASSUME NEW k \in Modes, k \in DOMAIN cfg, Shown(cfg) PROVE r[k] = cfg[k]
  <2>1. e.custom_templates = cfg.custom_templates BY <1>2, <1>7
  <2>2. f = e BY <1>8, <1>15, <2>1 DEF Shown
  <2>3. g.correction_modes = f.correction_modes BY <1>9, <1>11, <1>15 DEF Shown
  <2> QED BY <1>2, <1>7, <1>9, <1>10, <1>11, <1>15, <2>2, <2>3 DEF Modes
<1> QED BY <1>13, <1>14, <1>15

-----------------------------------------------------------------------------
(* The settings: who keeps what between two steps.                          *)

\* The setting of the chat model follows a call that makes it right.
Follows(q, i) ==
  q[i - 1] = <<"chat_use_separate_model", TRUE>> \/ q[i - 1] = <<"model_path", q[i][2]>>

Keys == {"llama_server_path", "protected_terms", "custom_templates", "correction_modes", "model_path",
         "chat_use_separate_model", "chat_model_path"}

Chained(q) ==
  /\ \E S : q \in Seq(S)
  /\ \A i \in DOMAIN q :
       /\ q[i] = <<q[i][1], q[i][2]>> /\ q[i][1] \in Keys
       /\ q[i][1] = "chat_use_separate_model" => q[i][2] \in BOOLEAN
       /\ i > 1 /\ q[i][1] = "chat_model_path" => Follows(q, i)

Fits(cfg, key, value) ==
  key = "chat_model_path" => cfg.chat_use_separate_model \/ cfg.model_path = value

QueueInv ==
  /\ todo = [t \in Threads |-> todo[t]]
  /\ todo["loader"] \in {<<>>, <<<<"llama_server_path", "found">>>>}
  /\ Chained(todo["ui"])
  /\ todo["ui"] # <<>> => acts > 0 /\ Fits(config, todo["ui"][1][1], todo["ui"][1][2])

SavingTypes ==
  /\ saving \in [Threads -> {"no", "dump", "replace", "open", "write"}]
  /\ late \in [Threads -> BOOLEAN] /\ excused \in BOOLEAN
  /\ acts \in Nat /\ denials \in Nat
  /\ dump = [t \in Threads |-> dump[t]]

\* Settings are sound wherever they are kept, but for a file of an older version, and one that
\* was emptied.
SoundInv ==
  /\ Sound(config) /\ (acts = 0 => Shown(config))
  /\ file = Torn \/ Loadable(file)
  /\ \A t \in Threads : saving[t] = "replace" => Sound(dump[t])

\* A save that was not overtaken writes the present settings, or another is to come.
OvertakeInv ==
  \A t \in Threads :
    saving[t] = "replace" /\ ~late[t] => dump[t] = config \/ \E u \in Threads : saving[u] = "dump"

UpToDate == file = config \/ excused \/ (file # Torn /\ Migrate(file) = config)
LagInv == (\A t \in Threads : saving[t] = "no") => UpToDate

DenialInv == file = Torn \/ (\E t \in Threads : saving[t] \in {"open", "write"}) => denials > 0

DraftInv ==
  /\ draft = [k \in DOMAIN draft |-> draft[k]] /\ "open" \in DOMAIN draft /\ draft.open \in BOOLEAN
  /\ draft.open => "separate" \in DOMAIN draft /\ draft.separate \in BOOLEAN

SettingsInv ==
  SavingTypes /\ SoundInv /\ QueueInv /\ DraftInv /\ DenialInv /\ OvertakeInv /\ LagInv

LEMMA PutModel ==
  ASSUME NEW cfg, Base(cfg), NEW key \in Keys, NEW value, NEW p, p = Put(cfg, key, value)
  PROVE  /\ Base(p) /\ DOMAIN p = DOMAIN cfg /\ p[key] = value
         /\ \A k \in DOMAIN cfg : k # key => p[k] = cfg[k]
<1>1. key \in DOMAIN cfg BY DefaultFacts DEF Keys, Base
<1>2. p = [k \in DOMAIN p |-> p[k]] /\ DOMAIN p = DOMAIN cfg /\ p[key] = value
      /\ \A k \in DOMAIN cfg : k # key => p[k] = cfg[k]
  BY <1>1 DEF Put
<1> QED BY <1>2 DEF Base

\* Settings of which only those of Keys differ are sound if their models agree.
LEMMA StillSound ==
  ASSUME NEW cfg, Sound(cfg), NEW r, Base(r), DOMAIN r = DOMAIN cfg,
         \A k \in DOMAIN cfg : k \notin Keys => r[k] = cfg[k],
         r.chat_use_separate_model \in BOOLEAN,
         ~r.chat_use_separate_model => r.chat_model_path = r.model_path
  PROVE  Sound(r)
<1>1. "threshold" \in DOMAIN cfg /\ "prompts" \in DOMAIN cfg BY DefaultFacts DEF Sound
<1>2. r.threshold # "drifted" /\ r.prompts # "old" BY <1>1 DEF Sound, Keys
<1>3. "ac_same_as_chat" \in DOMAIN r => r.ac_same_as_chat \in BOOLEAN BY DEF Sound, Keys
<1> QED BY <1>2, <1>3 DEF Sound, Base

\* The models and servers found on the disk take the place of missing ones.
LEMMA DetectedSound ==
  ASSUME NEW cfg, Sound(cfg), NEW path, NEW server, NEW r, r = Detected(cfg, path, server)
  PROVE  Sound(r) /\ (Shown(cfg) => Shown(r))
<1>1. PICK a : a = IF cfg.chat_use_separate_model THEN cfg ELSE Put(cfg, "chat_model_path", path)
  OBVIOUS
<1>2. PICK b : b = IF cfg.model_path = "" /\ path # "" THEN Put(a, "model_path", path) ELSE cfg
  OBVIOUS
<1>3. PICK c : c = IF cfg.chat_use_separate_model /\ cfg.chat_model_path = "" /\ path # ""
                   THEN Put(b, "chat_model_path", path) ELSE b
  OBVIOUS
<1>4. r = IF cfg.llama_server_path = "missing" /\ server THEN Put(c, "llama_server_path", "found") ELSE c
  BY <1>1, <1>2, <1>3 DEF Detected
<1>5. Base(cfg) BY SoundIsLoadable
<1>6. {"chat_use_separate_model", "chat_model_path", "model_path", "custom_templates", "correction_modes"} \subseteq DOMAIN cfg
  BY <1>5, DefaultFacts DEF Base
<1>7. {"chat_model_path", "model_path", "llama_server_path"} \subseteq Keys BY DEF Keys
<1>8. /\ Base(a) /\ DOMAIN a = DOMAIN cfg
      /\ \A k \in DOMAIN cfg : k # "chat_model_path" => a[k] = cfg[k]
      /\ ~cfg.chat_use_separate_model => a.chat_model_path = path
  BY <1>1, <1>5, <1>7, PutModel
<1>9. /\ Base(b) /\ DOMAIN b = DOMAIN cfg
      /\ \A k \in DOMAIN cfg : k \notin {"chat_model_path", "model_path"} => b[k] = cfg[k]
      /\ ~cfg.chat_use_separate_model => b.chat_model_path = b.model_path
  <2>1. CASE cfg.model_path = "" /\ path # ""
    <3>1. /\ Base(b) /\ DOMAIN b = DOMAIN a /\ b.model_path = path
          /\ \A k \in DOMAIN a : k # "model_path" => b[k] = a[k]
      <4>1. b = Put(a, "model_path", path) BY <1>2, <2>1, Zenon
      <4> QED BY <1>7, <1>8, <4>1, PutModel
    <3> QED BY <1>6, <1>8, <3>1
  <2>2. CASE ~(cfg.model_path = "" /\ path # "") BY <1>2, <1>5, <2>2 DEF Sound
  <2> QED BY <2>1, <2>2
<1>10. /\ Base(c) /\ DOMAIN c = DOMAIN cfg
       /\ \A k \in DOMAIN cfg : k \notin {"chat_model_path", "model_path"} => c[k] = cfg[k]
       /\ ~cfg.chat_use_separate_model => c.chat_model_path = c.model_path
  <2>1. CASE cfg.chat_use_separate_model /\ cfg.chat_model_path = "" /\ path # ""
    <3>1. /\ Base(c) /\ DOMAIN c = DOMAIN b
          /\ \A k \in DOMAIN b : k # "chat_model_path" => c[k] = b[k]
      <4>1. c = Put(b, "chat_model_path", path) BY <1>3, <2>1, Zenon
      <4> QED BY <1>7, <1>9, <4>1, PutModel
    <3> QED BY <1>9, <2>1, <3>1
  <2>2. CASE ~(cfg.chat_use_separate_model /\ cfg.chat_model_path = "" /\ path # "") BY <1>3, <1>9, <2>2
  <2> QED BY <2>1, <2>2
<1>11. /\ Base(r) /\ DOMAIN r = DOMAIN cfg
       /\ \A k \in DOMAIN cfg : k \notin {"chat_model_path", "model_path", "llama_server_path"} => r[k] = cfg[k]
       /\ ~cfg.chat_use_separate_model => r.chat_model_path = r.model_path
  <2>1. CASE cfg.llama_server_path = "missing" /\ server
    <3>1. /\ Base(r) /\ DOMAIN r = DOMAIN c
          /\ \A k \in DOMAIN c : k # "llama_server_path" => r[k] = c[k]
      BY <1>4, <1>7, <1>10, <2>1, PutModel
    <3> QED BY <1>6, <1>10, <3>1
  <2>2. CASE ~(cfg.llama_server_path = "missing" /\ server) BY <1>4, <1>10, <2>2
  <2> QED BY <2>1, <2>2
<1>12. r.chat_use_separate_model = cfg.chat_use_separate_model BY <1>6, <1>11
<1>13. \A k \in DOMAIN cfg : k \notin Keys => r[k] = cfg[k] BY <1>7, <1>11
<1>14. Sound(r)
  <2>1. r.chat_use_separate_model \in BOOLEAN BY <1>12 DEF Sound
  <2>2. ~r.chat_use_separate_model => r.chat_model_path = r.model_path BY <1>11, <1>12
  <2> QED BY <1>11, <1>13, <2>1, <2>2, StillSound
<1>15. r.custom_templates = cfg.custom_templates /\ r.correction_modes = cfg.correction_modes BY <1>6, <1>11
<1> QED BY <1>14, <1>15 DEF Shown

\* One call of set().
LEMMA AssignedSound ==
  ASSUME NEW cfg, Sound(cfg), NEW key \in Keys, NEW value,
         key = "chat_use_separate_model" => value \in BOOLEAN, Fits(cfg, key, value),
         NEW r, r = Assigned(cfg, key, value)
  PROVE  /\ Sound(r)
         /\ key = "chat_use_separate_model" /\ value => r.chat_use_separate_model
         /\ key = "model_path" => r.model_path = value
         /\ key = "llama_server_path" =>
              /\ r.chat_use_separate_model = cfg.chat_use_separate_model /\ r.model_path = cfg.model_path
              /\ Shown(cfg) => Shown(r)
<1>1. PICK p : p = Put(cfg, key, value) OBVIOUS
<1>2. Base(cfg) BY SoundIsLoadable
<1>3. /\ Base(p) /\ DOMAIN p = DOMAIN cfg /\ p[key] = value
      /\ \A k \in DOMAIN cfg : k # key => p[k] = cfg[k]
  BY <1>1, <1>2, PutModel
<1>4. {"chat_use_separate_model", "chat_model_path", "model_path", "custom_templates", "correction_modes"} \subseteq DOMAIN cfg
  BY <1>2, DefaultFacts DEF Base
<1>5. r = IF key = "model_path" /\ ~p.chat_use_separate_model THEN Put(p, "chat_model_path", value)
          ELSE IF key = "chat_use_separate_model" /\ ~value THEN Put(p, "chat_model_path", p.model_path)
          ELSE p
  BY <1>1 DEF Assigned
<1>6. "chat_model_path" \in Keys BY DEF Keys
<1>7. cfg.chat_use_separate_model \in BOOLEAN /\ p.chat_use_separate_model \in BOOLEAN BY <1>3, <1>4 DEF Sound
<1>8. CASE key = "model_path" /\ ~p.chat_use_separate_model
  <2>1. /\ Base(r) /\ DOMAIN r = DOMAIN p /\ r.chat_model_path = value
        /\ \A k \in DOMAIN p : k # "chat_model_path" => r[k] = p[k]
    BY <1>3, <1>5, <1>6, <1>8, PutModel
  <2>2. r.model_path = value /\ r.chat_use_separate_model = p.chat_use_separate_model
    BY <1>3, <1>4, <1>8, <2>1
  <2>3. \A k \in DOMAIN cfg : k \notin Keys => r[k] = cfg[k] BY <1>3, <1>6, <2>1
  <2>4. Sound(r) BY <1>3, <1>7, <2>1, <2>2, <2>3, StillSound
  <2> QED BY <1>8, <2>2, <2>4
<1>9. CASE key = "chat_use_separate_model" /\ ~value
  <2>1. r = Put(p, "chat_model_path", p.model_path) BY <1>5, <1>9
  <2>2. /\ Base(r) /\ DOMAIN r = DOMAIN p /\ r.chat_model_path = p.model_path
        /\ \A k \in DOMAIN p : k # "chat_model_path" => r[k] = p[k]
    BY <1>3, <1>6, <2>1, PutModel
  <2>3. r.model_path = p.model_path /\ r.chat_use_separate_model = p.chat_use_separate_model
    BY <1>3, <1>4, <2>2
  <2>4. \A k \in DOMAIN cfg : k \notin Keys => r[k] = cfg[k] BY <1>3, <1>6, <2>2
  <2>5. Sound(r) BY <1>3, <1>7, <2>2, <2>3, <2>4, StillSound
  <2> QED BY <1>9, <2>5
<1>10. CASE ~(key = "model_path" /\ ~p.chat_use_separate_model) /\ ~(key = "chat_use_separate_model" /\ ~value)
  <2>1. r = p BY <1>5, <1>10
  <2>2. \A k \in DOMAIN cfg : k \notin Keys => p[k] = cfg[k] BY <1>3
  <2>3. ~p.chat_use_separate_model => p.chat_model_path = p.model_path
    <3>1. SUFFICES ASSUME ~p.chat_use_separate_model PROVE p.chat_model_path = p.model_path
      OBVIOUS
    <3>2. key # "model_path" /\ key # "chat_use_separate_model" BY <1>3, <1>10, <3>1
    <3>3. ~cfg.chat_use_separate_model /\ p.model_path = cfg.model_path BY <1>3, <1>4, <3>1, <3>2
    <3>4. CASE key = "chat_model_path" BY <1>3, <3>3, <3>4 DEF Fits
    <3>5. CASE key # "chat_model_path" BY <1>3, <1>4, <3>3, <3>5 DEF Sound
    <3> QED BY <3>4, <3>5
  <2>4. Sound(p) BY <1>3, <1>7, <2>2, <2>3, StillSound
  <2>5. key = "llama_server_path" =>
              /\ p.chat_use_separate_model = cfg.chat_use_separate_model /\ p.model_path = cfg.model_path
              /\ p.custom_templates = cfg.custom_templates /\ p.correction_modes = cfg.correction_modes
    BY <1>3, <1>4
  <2>6. key = "chat_use_separate_model" /\ value => p.chat_use_separate_model BY <1>3
  <2>7. key = "model_path" => p.model_path = value BY <1>3
  <2> QED BY <2>1, <2>4, <2>5, <2>6, <2>7 DEF Shown
<1> QED BY <1>8, <1>9, <1>10

LEMMA ChainedFacts ==
  ASSUME NEW q, Chained(q)
  PROVE  /\ Len(q) \in Nat /\ DOMAIN q = 1..Len(q)
         /\ \A i \in 1..Len(q) :
              /\ q[i] = <<q[i][1], q[i][2]>> /\ q[i][1] \in Keys
              /\ q[i][1] = "chat_use_separate_model" => q[i][2] \in BOOLEAN
              /\ i > 1 /\ q[i][1] = "chat_model_path" => Follows(q, i)
<1>1. PICK S : q \in Seq(S) BY DEF Chained
<1>2. Len(q) \in Nat /\ DOMAIN q = 1..Len(q) BY <1>1
<1> QED BY <1>2 DEF Chained

LEMMA TailChained ==
  ASSUME NEW q, Chained(q), q # <<>>
  PROVE  /\ Chained(Tail(q))
         /\ Tail(q) # <<>> => 2 \in DOMAIN q /\ Tail(q)[1] = q[2]
<1>1. PICK S : q \in Seq(S) BY DEF Chained
<1>2. PICK t : t = Tail(q) OBVIOUS
<1>3. /\ t \in Seq(S) /\ Len(t) = Len(q) - 1 /\ Len(q) \in Nat /\ DOMAIN t = 1..Len(q) - 1
      /\ \A i \in 1..Len(q) - 1 : t[i] = q[i + 1]
  BY <1>1, <1>2
<1>4. ASSUME NEW i \in DOMAIN t
      PROVE  /\ t[i] = <<t[i][1], t[i][2]>> /\ t[i][1] \in Keys
             /\ t[i][1] = "chat_use_separate_model" => t[i][2] \in BOOLEAN
             /\ i > 1 /\ t[i][1] = "chat_model_path" => Follows(t, i)
  <2>1. PICK j : j = i + 1 OBVIOUS
  <2>2. i \in 1..Len(q) - 1 /\ j \in 1..Len(q) /\ t[i] = q[j] BY <1>3, <2>1
  <2>3. /\ q[j] = <<q[j][1], q[j][2]>> /\ q[j][1] \in Keys
        /\ q[j][1] = "chat_use_separate_model" => q[j][2] \in BOOLEAN
        /\ j > 1 /\ q[j][1] = "chat_model_path" => Follows(q, j)
    BY <2>2, ChainedFacts
  <2>4. ASSUME i > 1, t[i][1] = "chat_model_path" PROVE Follows(t, i)
    <3>1. Follows(q, j) BY <2>1, <2>2, <2>3, <2>4
    <3>2. t[i - 1] = q[j - 1]
      <4>0. PICK n \in Nat : n = Len(q) BY <1>3
      <4>3. i \in 1..n - 1 /\ i \in Nat BY <2>2, <4>0
      <4>2. i - 1 \in 1..n - 1 /\ (i - 1) + 1 = j - 1 BY <2>1, <2>4, <4>0, <4>3
      <4>1. i - 1 \in 1..Len(q) - 1 /\ (i - 1) + 1 = j - 1 BY <4>0, <4>2
      <4> QED BY <1>3, <4>1
    <3> QED BY <2>2, <3>1, <3>2 DEF Follows
  <2> QED BY <2>2, <2>3, <2>4
<1>5. Chained(t) BY <1>3, <1>4 DEF Chained
<1>6. t # <<>> => 2 \in DOMAIN q /\ t[1] = q[2] BY <1>1, <1>3
<1> QED BY <1>2, <1>5, <1>6

\* A call that is not about the chat model alone, or that follows the right one.
LEMMA ConcatChained ==
  ASSUME NEW a, Chained(a), NEW b, Chained(b), a # <<>>,
         b # <<>> /\ b[1][1] = "chat_model_path" =>
            \/ a[Len(a)] = <<"chat_use_separate_model", TRUE>>
            \/ a[Len(a)] = <<"model_path", b[1][2]>>,
         NEW q, q = a \o b
  PROVE  Chained(q) /\ q # <<>> /\ q[1] = a[1]
<1>1. PICK S : a \in Seq(S) BY DEF Chained
<1>2. PICK T : b \in Seq(T) BY DEF Chained
<1>3. a \in Seq(S \cup T) /\ b \in Seq(S \cup T) BY <1>1, <1>2
<1>4. PICK m \in Nat : m = Len(a) /\ m > 0 BY <1>1
<1>5. PICK n \in Nat : n = Len(b) BY <1>2
<1>6. q \in Seq(S \cup T) /\ Len(q) = m + n BY <1>3, <1>4, <1>5
<1>7. \A i \in 1..m : q[i] = a[i] BY <1>3, <1>4, <1>5
<1>8. \A i \in (m + 1)..(m + n) : q[i] = b[i - m] BY <1>3, <1>4, <1>5
<1>9. ASSUME NEW i \in 1..(m + n)
      PROVE  /\ q[i] = <<q[i][1], q[i][2]>> /\ q[i][1] \in Keys
             /\ q[i][1] = "chat_use_separate_model" => q[i][2] \in BOOLEAN
             /\ i > 1 /\ q[i][1] = "chat_model_path" => Follows(q, i)
  <2>1. CASE i <= m
    <3>1. i \in 1..Len(a) /\ q[i] = a[i] BY <1>4, <1>7, <2>1
    <3>2. /\ a[i] = <<a[i][1], a[i][2]>> /\ a[i][1] \in Keys
          /\ a[i][1] = "chat_use_separate_model" => a[i][2] \in BOOLEAN
          /\ i > 1 /\ a[i][1] = "chat_model_path" => Follows(a, i)
      BY <3>1, ChainedFacts
    <3>3. ASSUME i > 1, q[i][1] = "chat_model_path" PROVE Follows(q, i)
      <4>1. i - 1 \in 1..m BY <1>4, <2>1, <3>3
      <4>2. q[i - 1] = a[i - 1] BY <1>7, <4>1
      <4>3. Follows(a, i) BY <3>1, <3>2, <3>3
      <4> QED BY <3>1, <4>2, <4>3 DEF Follows
    <3> QED BY <3>1, <3>2, <3>3
  <2>2. CASE i > m
    <3>1. PICK j : j = i - m OBVIOUS
    <3>2. j \in 1..Len(b) /\ j \in Nat /\ i = j + m BY <1>4, <1>5, <2>2, <3>1
    <3>3. q[i] = b[j] BY <1>4, <1>5, <1>8, <2>2, <3>1
    <3>4. /\ b[j] = <<b[j][1], b[j][2]>> /\ b[j][1] \in Keys
          /\ b[j][1] = "chat_use_separate_model" => b[j][2] \in BOOLEAN
          /\ j > 1 /\ b[j][1] = "chat_model_path" => Follows(b, j)
      BY <3>2, ChainedFacts
    <3>5. ASSUME q[i][1] = "chat_model_path" PROVE Follows(q, i)
      <4>1. CASE j = 1
        <5>1. i - 1 = m /\ m \in 1..m BY <1>4, <3>2, <4>1
        <5>2. q[i - 1] = a[m] BY <1>7, <5>1
        <5>3. b # <<>> BY <1>2, <1>5, <3>2
        <5> QED BY <1>4, <3>3, <3>5, <4>1, <5>2, <5>3 DEF Follows
      <4>2. CASE j > 1
        <5>1. i - 1 \in (m + 1)..(m + n) /\ (i - 1) - m = j - 1 BY <1>4, <1>5, <3>2, <4>2
        <5>2. q[i - 1] = b[j - 1] BY <1>8, <5>1
        <5>3. Follows(b, j) BY <3>3, <3>4, <3>5, <4>2
        <5> QED BY <3>3, <5>2, <5>3 DEF Follows
      <4> QED BY <3>2, <4>1, <4>2
    <3> QED BY <3>3, <3>4, <3>5
  <2> QED BY <1>4, <1>5, <2>1, <2>2
<1>10. DOMAIN q = 1..(m + n) BY <1>4, <1>5, <1>6
<1>11. Chained(q) BY <1>6, <1>9, <1>10 DEF Chained
<1>12. q # <<>> /\ q[1] = a[1] BY <1>4, <1>5, <1>6, <1>7
<1> QED BY <1>11, <1>12

\* One call.
LEMMA CallChained ==
  ASSUME NEW key \in Keys, NEW value, key = "chat_use_separate_model" => value \in BOOLEAN
  PROVE  Chained(<< <<key, value>> >>)
<1>1. PICK c : c = <<key, value>> OBVIOUS
<1>2. PICK q : q = <<c>> OBVIOUS
<1>3. q \in Seq({c}) /\ Len(q) = 1 /\ DOMAIN q = {1} /\ q[1] = c BY <1>2
<1>4. c[1] = key /\ c[2] = value BY <1>1
<1>5. Chained(q) BY <1>1, <1>3, <1>4 DEF Chained
<1> QED BY <1>1, <1>2, <1>5

LEMMA NoneChained == Chained(<<>>)
<1>1. <<>> \in Seq({}) /\ DOMAIN <<>> = {} OBVIOUS
<1> QED BY <1>1 DEF Chained

-----------------------------------------------------------------------------
(* The settings: the steps.                                                 *)

LEMMA AssignSteps == ASSUME SettingsInv, NEW t \in Threads, Assign(t) PROVE SettingsInv'
<1>1. PICK q : q = todo[t] OBVIOUS
<1>2. /\ saving[t] = "no" /\ q # <<>> /\ config' = Assigned(config, q[1][1], q[1][2])
      /\ todo' = [todo EXCEPT ![t] = Tail(q)] /\ saving' = [saving EXCEPT ![t] = "dump"]
      /\ file' = file /\ draft' = draft /\ dump' = dump /\ late' = late /\ excused' = excused
      /\ acts' = acts /\ denials' = denials
  BY <1>1 DEF Assign, bounds
<1>3. SavingTypes /\ SoundInv /\ QueueInv /\ DraftInv /\ DenialInv BY DEF SettingsInv
<1>4. t = "ui" \/ t = "loader" BY DEF Threads
<1>5. todo["loader"] = <<>> \/ todo["loader"] = << <<"llama_server_path", "found">> >> BY <1>3 DEF QueueInv
<1>6. Chained(q)
  <2>1. Chained(<<>>) BY NoneChained
  <2>2. Chained(<< <<"llama_server_path", "found">> >>) BY CallChained DEF Keys
  <2> QED BY <1>1, <1>3, <1>4, <1>5, <2>1, <2>2 DEF QueueInv
<1>7. q[1][1] \in Keys /\ (q[1][1] = "chat_use_separate_model" => q[1][2] \in BOOLEAN)
  <2>1. Len(q) # 0 BY <1>2, <1>6 DEF Chained
  <2>2. 1 \in 1..Len(q) BY <1>6, <2>1, ChainedFacts
  <2> QED BY <1>6, <2>2, ChainedFacts
<1>8. t = "loader" => q[1][1] = "llama_server_path" BY <1>1, <1>2, <1>5
<1>9. Fits(config, q[1][1], q[1][2])
  <2>1. CASE t = "ui" BY <1>1, <1>2, <1>3, <2>1 DEF QueueInv
  <2>2. CASE t = "loader" BY <1>8, <2>2 DEF Fits
  <2> QED BY <1>4, <2>1, <2>2
<1>10. PICK key, value : key = q[1][1] /\ value = q[1][2] OBVIOUS
<1>11. /\ Sound(config')
       /\ key = "chat_use_separate_model" /\ value => config'.chat_use_separate_model
       /\ key = "model_path" => config'.model_path = value
       /\ key = "llama_server_path" =>
            /\ config'.chat_use_separate_model = config.chat_use_separate_model
            /\ config'.model_path = config.model_path
            /\ Shown(config) => Shown(config')
  <2>1. PICK r : r = config' OBVIOUS
  <2>2. r = Assigned(config, key, value) /\ Fits(config, key, value) /\ key \in Keys
        /\ (key = "chat_use_separate_model" => value \in BOOLEAN) /\ Sound(config)
    BY <1>2, <1>3, <1>7, <1>9, <1>10, <2>1 DEF SoundInv
  <2>3. /\ Sound(r)
        /\ key = "chat_use_separate_model" /\ value => r.chat_use_separate_model
        /\ key = "model_path" => r.model_path = value
        /\ key = "llama_server_path" =>
            /\ r.chat_use_separate_model = config.chat_use_separate_model
            /\ r.model_path = config.model_path
            /\ Shown(config) => Shown(r)
    BY <2>2, AssignedSound
  <2> QED BY <2>1, <2>3
<1>12. todo' = [u \in Threads |-> todo'[u]] /\ todo'[t] = Tail(q)
       /\ \A u \in Threads : u # t => todo'[u] = todo[u]
  BY <1>2, <1>3 DEF QueueInv
<1>13. "ui" \in Threads /\ "loader" \in Threads BY DEF Threads
<1>14. saving'[t] = "dump" /\ \A u \in Threads : u # t => saving'[u] = saving[u]
  BY <1>2, <1>3 DEF SavingTypes
<1>15. SavingTypes' BY <1>2, <1>3 DEF SavingTypes
<1>16. SoundInv'
  <2>1. acts = 0 => Shown(config')
    <3>1. CASE t = "ui" BY <1>1, <1>2, <1>3, <3>1 DEF QueueInv, SavingTypes
    <3>2. CASE t = "loader" BY <1>3, <1>8, <1>10, <1>11, <3>2 DEF SoundInv
    <3> QED BY <1>4, <3>1, <3>2
  <2>2. \A u \in Threads : saving'[u] = "replace" => Sound(dump[u]) BY <1>3, <1>14 DEF SoundInv
  <2> QED BY <1>2, <1>3, <1>11, <2>1, <2>2 DEF SoundInv
<1>17. QueueInv'
  <2>1. CASE t = "loader"
    <3>1. q = << <<"llama_server_path", "found">> >> BY <1>1, <1>2, <1>5, <2>1
    <3>2. Tail(q) = <<>> BY <3>1
    <3>3. todo'["ui"] = todo["ui"] /\ todo'["loader"] = <<>> BY <1>12, <1>13, <2>1, <3>2
    <3>4. \A k, v : Fits(config, k, v) => Fits(config', k, v) BY <1>8, <1>10, <1>11, <2>1 DEF Fits
    <3> QED BY <1>2, <1>3, <1>12, <3>3, <3>4 DEF QueueInv
  <2>2. CASE t = "ui"
    <3>1. todo'["ui"] = Tail(q) /\ todo'["loader"] = todo["loader"] BY <1>12, <1>13, <2>2
    <3>2. Chained(Tail(q)) /\ (Tail(q) # <<>> => 2 \in DOMAIN q /\ Tail(q)[1] = q[2])
      BY <1>2, <1>6, TailChained
    <3>3. acts > 0 BY <1>1, <1>2, <1>3, <2>2 DEF QueueInv
    <3>4. ASSUME Tail(q) # <<>>, q[2][1] = "chat_model_path"
          PROVE config'.chat_use_separate_model \/ config'.model_path = q[2][2]
      <4>1. Follows(q, 2) BY <1>6, <3>2, <3>4, ChainedFacts
      <4>2. 2 - 1 = 1 OBVIOUS
      <4>3. q[1] = <<"chat_use_separate_model", TRUE>> \/ q[1] = <<"model_path", q[2][2]>>
        BY <4>1, <4>2 DEF Follows
      <4>4. CASE q[1] = <<"chat_use_separate_model", TRUE>>
        <5>1. key = "chat_use_separate_model" /\ value = TRUE BY <1>10, <4>4
        <5> QED BY <1>11, <5>1
      <4>5. CASE q[1] = <<"model_path", q[2][2]>>
        <5>1. key = "model_path" /\ value = q[2][2] BY <1>10, <4>5
        <5> QED BY <1>11, <5>1
      <4> QED BY <4>3, <4>4, <4>5
    <3>5. Tail(q) # <<>> => Fits(config', Tail(q)[1][1], Tail(q)[1][2]) BY <3>2, <3>4 DEF Fits
    <3> QED BY <1>2, <1>3, <1>12, <3>1, <3>2, <3>3, <3>5 DEF QueueInv
  <2> QED BY <1>4, <2>1, <2>2
<1>18. DraftInv' BY <1>2, <1>3 DEF DraftInv
<1>19. DenialInv' BY <1>2, <1>3, <1>14 DEF DenialInv
<1>20. OvertakeInv' BY <1>14 DEF OvertakeInv
<1>21. LagInv' BY <1>14 DEF LagInv
<1> QED BY <1>15, <1>16, <1>17, <1>18, <1>19, <1>20, <1>21 DEF SettingsInv

LEMMA SaveFrame ==
  ASSUME SettingsInv, UNCHANGED config, UNCHANGED draft, UNCHANGED todo, UNCHANGED acts
  PROVE  QueueInv' /\ DraftInv'
BY DEF SettingsInv, QueueInv, DraftInv

LEMMA WriteTemporarySteps ==
  ASSUME SettingsInv, NEW t \in Threads, WriteTemporary(t) PROVE SettingsInv'
<1>1. /\ saving[t] = "dump"
      /\ late' = [u \in Threads |-> u # t /\ saving[u] = "replace"]
      /\ config' = config /\ file' = file /\ draft' = draft /\ todo' = todo
      /\ acts' = acts /\ denials' = denials
  BY DEF WriteTemporary
<1>0. \/ /\ saving' = [saving EXCEPT ![t] = "replace"] /\ dump' = [dump EXCEPT ![t] = config]
         /\ excused' = excused
      \/ saving' = [saving EXCEPT ![t] = "no"] /\ dump' = dump /\ excused' = TRUE
  BY DEF WriteTemporary, Saves
<1>2. SavingTypes /\ SoundInv /\ DenialInv BY DEF SettingsInv
<1>3. /\ \/ saving'[t] = "replace" /\ dump'[t] = config
         \/ saving'[t] = "no" /\ excused' = TRUE
      /\ \A u \in Threads : u # t => saving'[u] = saving[u] /\ dump'[u] = dump[u]
  BY <1>1, <1>0, <1>2 DEF SavingTypes
<1>4. SavingTypes'
  <2>1. late' \in [Threads -> BOOLEAN] BY <1>1
  <2>2. saving' \in [Threads -> {"no", "dump", "replace", "open", "write"}] BY <1>0, <1>2 DEF SavingTypes
  <2>3. dump' = [u \in Threads |-> dump'[u]] BY <1>0, <1>2 DEF SavingTypes
  <2>4. excused' \in BOOLEAN
    <3>1. excused \in BOOLEAN BY <1>2 DEF SavingTypes
    <3>2. excused' = excused \/ excused' = TRUE BY <1>0
    <3> QED BY <3>1, <3>2
  <2> QED BY <1>1, <1>2, <2>1, <2>2, <2>3, <2>4 DEF SavingTypes
<1>5. SoundInv' BY <1>1, <1>2, <1>3 DEF SoundInv
<1>6. DenialInv' BY <1>1, <1>2, <1>3 DEF DenialInv
<1>7. OvertakeInv'
  <2>1. \A u \in Threads : u # t /\ saving[u] = "replace" => late'[u] BY <1>1
  <2> QED BY <1>1, <1>3, <2>1 DEF OvertakeInv
<1>8. LagInv' BY <1>3 DEF LagInv, UpToDate
<1>9. QueueInv' /\ DraftInv' BY <1>1, SaveFrame
<1> QED BY <1>4, <1>5, <1>6, <1>7, <1>8, <1>9 DEF SettingsInv

LEMMA ReplaceSteps == ASSUME SettingsInv, NEW t \in Threads, Replace(t) PROVE SettingsInv'
<1>1. /\ saving[t] = "replace" /\ dump' = [dump EXCEPT ![t] = <<>>] /\ late' = [late EXCEPT ![t] = FALSE]
      /\ config' = config /\ draft' = draft /\ todo' = todo /\ acts' = acts
  BY DEF Replace
<1>2. \/ /\ saving' = [saving EXCEPT ![t] = "no"] /\ file' = dump[t] /\ excused' = late[t]
         /\ denials' = denials
      \/ /\ denials' = denials + 1 /\ file' = file
         /\ \/ saving' = [saving EXCEPT ![t] = "no"] /\ excused' = TRUE
            \/ saving' = [saving EXCEPT ![t] = "open"] /\ excused' = excused
  BY DEF Replace, Saves
<1>3. SavingTypes /\ SoundInv /\ DenialInv /\ OvertakeInv BY DEF SettingsInv
<1>4. /\ saving'[t] \in {"no", "open"} /\ \A u \in Threads : u # t => saving'[u] = saving[u]
      /\ saving' \in [Threads -> {"no", "dump", "replace", "open", "write"}]
  BY <1>2, <1>3 DEF SavingTypes
<1>13. /\ \A u \in Threads : u # t => dump'[u] = dump[u] /\ late'[u] = late[u]
       /\ dump' = [u \in Threads |-> dump'[u]] /\ late' \in [Threads -> BOOLEAN]
  BY <1>1, <1>3 DEF SavingTypes
<1>5. Sound(dump[t]) /\ late[t] \in BOOLEAN BY <1>1, <1>3 DEF SoundInv, SavingTypes
<1>6. Loadable(dump[t]) /\ dump[t] # Torn BY <1>5, SoundIsLoadable
<1>7. SavingTypes'
  <2>0. excused \in BOOLEAN /\ denials \in Nat BY <1>3 DEF SavingTypes
  <2>2. excused' = late[t] \/ excused' = TRUE \/ excused' = excused BY <1>2
  <2>3. excused' \in BOOLEAN BY <1>5, <2>0, <2>2
  <2>4. denials' = denials \/ denials' = denials + 1 BY <1>2
  <2>1. excused' \in BOOLEAN /\ denials' \in Nat BY <2>0, <2>3, <2>4
  <2> QED BY <1>1, <1>3, <1>4, <1>13, <2>1 DEF SavingTypes
<1>8. SoundInv' BY <1>1, <1>2, <1>3, <1>4, <1>6, <1>13 DEF SoundInv
<1>9. DenialInv'
  <2>1. denials \in Nat BY <1>3 DEF SavingTypes
  <2>2. CASE denials' = denials + 1 BY <2>1, <2>2 DEF DenialInv
  <2>3. CASE file' = dump[t] /\ denials' = denials /\ saving' = [saving EXCEPT ![t] = "no"]
    <3>1. saving'[t] = "no" BY <1>3, <2>3 DEF SavingTypes
    <3> QED BY <1>3, <1>4, <1>6, <2>3, <3>1 DEF DenialInv
  <2> QED BY <1>2, <2>2, <2>3
<1>10. OvertakeInv'
  <2>1. \A u \in Threads : saving[u] = "dump" => saving'[u] = "dump" BY <1>1, <1>4
  <2>2. \A u \in Threads : saving'[u] = "replace" => u # t /\ saving[u] = "replace" BY <1>4
  <2> QED BY <1>1, <1>3, <1>13, <2>1, <2>2 DEF OvertakeInv
<1>11. LagInv'
  <2>1. CASE excused' BY <2>1 DEF LagInv, UpToDate
  <2>2. CASE file' = dump[t] /\ ~late[t] /\ denials' = denials
    <3>1. dump[t] = config \/ \E u \in Threads : saving[u] = "dump" BY <1>1, <1>3, <2>2 DEF OvertakeInv
    <3>2. ASSUME NEW u \in Threads, saving[u] = "dump" PROVE saving'[u] # "no" BY <1>1, <1>4, <3>2
    <3> QED BY <1>1, <2>2, <3>1, <3>2 DEF LagInv, UpToDate
  <2>3. CASE saving' = [saving EXCEPT ![t] = "open"]
    <3>1. saving'[t] = "open" BY <1>3, <2>3 DEF SavingTypes
    <3> QED BY <3>1 DEF LagInv
  <2> QED BY <1>2, <1>5, <2>1, <2>2, <2>3
<1>12. QueueInv' /\ DraftInv' BY <1>1, SaveFrame
<1> QED BY <1>7, <1>8, <1>9, <1>10, <1>11, <1>12 DEF SettingsInv

LEMMA TruncateSteps == ASSUME SettingsInv, NEW t \in Threads, Truncate(t) PROVE SettingsInv'
<1>1. /\ saving[t] = "open"
      /\ config' = config /\ draft' = draft /\ todo' = todo /\ dump' = dump /\ late' = late
      /\ acts' = acts /\ denials' = denials
  BY DEF Truncate, bounds
<1>0. \/ file' = Torn /\ saving' = [saving EXCEPT ![t] = "write"] /\ excused' = excused
      \/ saving' = [saving EXCEPT ![t] = "no"] /\ excused' = TRUE /\ file' = file
  BY DEF Truncate, Saves
<1>2. SavingTypes /\ SoundInv /\ DenialInv /\ OvertakeInv BY DEF SettingsInv
<1>3. /\ saving'[t] = "write" \/ (saving'[t] = "no" /\ excused' = TRUE)
      /\ \A u \in Threads : u # t => saving'[u] = saving[u]
  BY <1>0, <1>2 DEF SavingTypes
<1>4. SavingTypes'
  <2>1. excused \in BOOLEAN BY <1>2 DEF SavingTypes
  <2>2. excused' = excused \/ excused' = TRUE BY <1>0
  <2>3. excused' \in BOOLEAN BY <2>1, <2>2
  <2>4. saving' \in [Threads -> {"no", "dump", "replace", "open", "write"}] BY <1>0, <1>2 DEF SavingTypes
  <2> QED BY <1>1, <1>2, <2>3, <2>4 DEF SavingTypes
<1>5. SoundInv' BY <1>1, <1>0, <1>2, <1>3 DEF SoundInv
<1>6. DenialInv'
  <2>1. denials > 0 BY <1>1, <1>2 DEF DenialInv
  <2> QED BY <1>1, <2>1 DEF DenialInv
<1>7. OvertakeInv'
  <2>1. \A u \in Threads : saving[u] = "dump" => saving'[u] = "dump" BY <1>1, <1>3
  <2>2. \A u \in Threads : saving'[u] = "replace" => saving[u] = "replace" BY <1>3
  <2> QED BY <1>1, <1>2, <2>1, <2>2 DEF OvertakeInv
<1>8. LagInv' BY <1>3 DEF LagInv, UpToDate
<1>9. QueueInv' /\ DraftInv' BY <1>1, SaveFrame
<1> QED BY <1>4, <1>5, <1>6, <1>7, <1>8, <1>9 DEF SettingsInv

LEMMA WriteInPlaceSteps == ASSUME SettingsInv, NEW t \in Threads, WriteInPlace(t) PROVE SettingsInv'
<1>1. /\ saving[t] = "write" /\ saving' = [saving EXCEPT ![t] = "no"]
      /\ \/ file' = config /\ excused' = FALSE
         \/ file' = Torn /\ excused' = TRUE
      /\ config' = config /\ draft' = draft /\ todo' = todo /\ dump' = dump /\ late' = late
      /\ acts' = acts /\ denials' = denials
  BY DEF WriteInPlace, Saves, bounds
<1>2. SavingTypes /\ SoundInv /\ DenialInv /\ OvertakeInv BY DEF SettingsInv
<1>3. saving'[t] = "no" /\ \A u \in Threads : u # t => saving'[u] = saving[u]
  BY <1>1, <1>2 DEF SavingTypes
<1>4. SavingTypes' BY <1>1, <1>2 DEF SavingTypes
<1>5. Loadable(config) /\ config # Torn BY <1>2, SoundIsLoadable DEF SoundInv
<1>6. SoundInv' BY <1>1, <1>2, <1>3, <1>5 DEF SoundInv
<1>7. DenialInv'
  <2>1. denials > 0 BY <1>1, <1>2 DEF DenialInv
  <2> QED BY <1>1, <2>1 DEF DenialInv
<1>8. OvertakeInv'
  <2>1. \A u \in Threads : saving[u] = "dump" => saving'[u] = "dump" BY <1>1, <1>3
  <2>2. \A u \in Threads : saving'[u] = "replace" => saving[u] = "replace" BY <1>3
  <2> QED BY <1>1, <1>2, <2>1, <2>2 DEF OvertakeInv
<1>9. LagInv' BY <1>1 DEF LagInv, UpToDate
<1>10. QueueInv' /\ DraftInv' BY <1>1, SaveFrame
<1> QED BY <1>4, <1>6, <1>7, <1>8, <1>9, <1>10 DEF SettingsInv

\* A step that adds calls to a queue or moves the draft, and nothing else.
LEMMA AskedSteps ==
  ASSUME SettingsInv, UNCHANGED <<config, file, saving, dump, late, excused, denials>>,
         acts' \in Nat, acts' >= acts, QueueInv', DraftInv'
  PROVE  SettingsInv'
<1>1. acts' = 0 => acts = 0 BY DEF SettingsInv, SavingTypes
<1>2. SavingTypes' BY DEF SettingsInv, SavingTypes
<1>3. SoundInv' BY <1>1 DEF SettingsInv, SoundInv
<1>4. DenialInv' BY DEF SettingsInv, DenialInv
<1>5. OvertakeInv' BY DEF SettingsInv, OvertakeInv
<1>6. LagInv' BY DEF SettingsInv, LagInv, UpToDate
<1> QED BY <1>2, <1>3, <1>4, <1>5, <1>6 DEF SettingsInv

\* What the user asks for is queued for the user's thread.
LEMMA AskedQueue ==
  ASSUME SettingsInv, acts' = acts + 1, NEW q, Calls("ui", q), Chained(q),
         config' = config, q # <<>> => Fits(config, q[1][1], q[1][2])
  PROVE  QueueInv' /\ acts' \in Nat /\ acts' >= acts
<1>1. acts \in Nat /\ QueueInv BY DEF SettingsInv, SavingTypes
<1>2. "ui" \in Threads /\ "loader" \in Threads /\ "ui" # "loader" BY DEF Threads
<1>3. todo' = [todo EXCEPT !["ui"] = q] BY DEF Calls
<1>4. todo'["ui"] = q /\ todo'["loader"] = todo["loader"] /\ todo' = [t \in Threads |-> todo'[t]]
  BY <1>1, <1>2, <1>3 DEF QueueInv
<1> QED BY <1>1, <1>4 DEF QueueInv

LEMMA LoadModelSteps == ASSUME SettingsInv, LoadModel PROVE SettingsInv'
<1>1. /\ todo' = [todo EXCEPT !["loader"] = << <<"llama_server_path", "found">> >>]
      /\ acts' = acts /\ config' = config /\ draft' = draft
      /\ UNCHANGED <<config, file, saving, dump, late, excused, denials>>
  BY DEF LoadModel, Calls, bounds
<1>2. QueueInv /\ DraftInv /\ acts \in Nat BY DEF SettingsInv, SavingTypes
<1>3. "ui" \in Threads /\ "loader" \in Threads /\ "ui" # "loader" BY DEF Threads
<1>4. /\ todo'["loader"] = << <<"llama_server_path", "found">> >> /\ todo'["ui"] = todo["ui"]
      /\ todo' = [t \in Threads |-> todo'[t]]
  BY <1>1, <1>2, <1>3 DEF QueueInv
<1>5. QueueInv' BY <1>1, <1>2, <1>4 DEF QueueInv
<1>6. DraftInv' BY <1>1, <1>2 DEF DraftInv
<1> QED BY <1>1, <1>2, <1>5, <1>6, AskedSteps

LEMMA ProtectTermSteps == ASSUME SettingsInv, ProtectTerm PROVE SettingsInv'
<1>1. PICK terms : Calls("ui", << <<"protected_terms", terms>> >>) BY DEF ProtectTerm
<1>2. /\ acts' = acts + 1 /\ draft' = draft
      /\ UNCHANGED <<config, file, saving, dump, late, excused, denials>>
  BY DEF ProtectTerm, Act
<1>3. PICK q : q = << <<"protected_terms", terms>> >> OBVIOUS
<1>4. Chained(q) BY <1>3, CallChained DEF Keys
<1>5. Fits(config, q[1][1], q[1][2]) BY <1>3 DEF Fits
<1>6. QueueInv' /\ acts' \in Nat /\ acts' >= acts BY <1>1, <1>2, <1>3, <1>4, <1>5, AskedQueue
<1>7. DraftInv' BY <1>2 DEF SettingsInv, DraftInv
<1> QED BY <1>2, <1>6, <1>7, AskedSteps

LEMMA SelectModelSteps == ASSUME SettingsInv, SelectModel PROVE SettingsInv'
<1>1. PICK m, b : /\ b = IF config.chat_use_separate_model THEN <<>> ELSE << <<"chat_model_path", m>> >>
                  /\ Calls("ui", << <<"model_path", m>> >> \o b)
  BY DEF SelectModel
<1>2. /\ acts' = acts + 1 /\ draft' = draft
      /\ UNCHANGED <<config, file, saving, dump, late, excused, denials>>
  BY DEF SelectModel, Act
<1>3. PICK a : a = << <<"model_path", m>> >> OBVIOUS
<1>4. PICK q : q = a \o b OBVIOUS
<1>5. Chained(a) /\ a # <<>> /\ a[1] = <<"model_path", m>> /\ Len(a) = 1
  BY <1>3, CallChained DEF Keys
<1>6. Chained(b) /\ (b # <<>> => b[1] = <<"chat_model_path", m>>)
  <2>1. CASE b = <<>> BY <2>1, NoneChained
  <2>2. CASE b = << <<"chat_model_path", m>> >> BY <2>2, CallChained DEF Keys
  <2> QED BY <1>1, <2>1, <2>2
<1>7. b # <<>> => a[Len(a)] = <<"model_path", b[1][2]>> BY <1>5, <1>6
<1>8. Chained(q) /\ q[1] = a[1] BY <1>4, <1>5, <1>6, <1>7, ConcatChained
<1>9. Fits(config, q[1][1], q[1][2]) BY <1>5, <1>8 DEF Fits
<1>10. Calls("ui", q) BY <1>1, <1>3, <1>4
<1>11. QueueInv' /\ acts' \in Nat /\ acts' >= acts BY <1>2, <1>8, <1>9, <1>10, AskedQueue
<1>12. DraftInv' BY <1>2 DEF SettingsInv, DraftInv
<1> QED BY <1>2, <1>11, <1>12, AskedSteps

LEMMA ApplyDialogSteps == ASSUME SettingsInv, ApplyDialog PROVE SettingsInv'
<1>1. PICK a, b, c, sep :
        /\ a = << <<"custom_templates", draft.templates>>, <<"protected_terms", draft.terms>>,
                  <<"llama_server_path", draft.server>>, <<"model_path", draft.model>>,
                  <<"chat_use_separate_model", sep>> >>
        /\ b = (IF sep THEN << <<"chat_model_path", draft.chat>> >> ELSE <<>>)
        /\ c = << <<"correction_modes", Rebuilt(draft.modes, config.correction_modes)>> >>
        /\ Calls("ui", a \o b \o c) /\ sep = draft.separate
  BY DEF ApplyDialog
<1>2. /\ acts' = acts + 1 /\ draft' \in {draft, NoDraft} /\ draft.open
      /\ UNCHANGED <<config, file, saving, dump, late, excused, denials>>
  BY DEF ApplyDialog, Act
<1>3. DraftInv BY DEF SettingsInv
<1>4. sep \in BOOLEAN BY <1>1, <1>2, <1>3 DEF DraftInv
<1>5. Chained(a) /\ a # <<>> /\ a[1][1] = "custom_templates" /\ a[Len(a)] = <<"chat_use_separate_model", sep>>
  <2>1. PICK x1, x2, x3, x4, x5 :
          /\ x1 = <<"custom_templates", draft.templates>> /\ x2 = <<"protected_terms", draft.terms>>
          /\ x3 = <<"llama_server_path", draft.server>> /\ x4 = <<"model_path", draft.model>>
          /\ x5 = <<"chat_use_separate_model", sep>>
    OBVIOUS
  <2>2. a = <<x1, x2, x3, x4, x5>> BY <1>1, <2>1
  <2>3. a \in Seq({x1, x2, x3, x4, x5}) /\ Len(a) = 5 /\ DOMAIN a = 1..5 BY <2>2
  <2>4. a[1] = x1 /\ a[2] = x2 /\ a[3] = x3 /\ a[4] = x4 /\ a[5] = x5 BY <2>2
  <2>5. ASSUME NEW i \in 1..5
        PROVE  /\ a[i] = <<a[i][1], a[i][2]>> /\ a[i][1] \in Keys
               /\ a[i][1] = "chat_use_separate_model" => a[i][2] \in BOOLEAN
               /\ a[i][1] # "chat_model_path"
    <3>1. i = 1 \/ i = 2 \/ i = 3 \/ i = 4 \/ i = 5 OBVIOUS
    <3>2. CASE i \in {1, 2} BY <2>1, <2>4, <3>2 DEF Keys
    <3>3. CASE i \in {3, 4} BY <2>1, <2>4, <3>3 DEF Keys
    <3>4. CASE i = 5 BY <1>4, <2>1, <2>4, <3>4 DEF Keys
    <3> QED BY <3>1, <3>2, <3>3, <3>4
  <2>6. Chained(a) BY <2>3, <2>5 DEF Chained
  <2> QED BY <2>1, <2>3, <2>4, <2>6
<1>6. Chained(b) /\ (b # <<>> => sep)
  <2>1. CASE sep
    <3>1. b = << <<"chat_model_path", draft.chat>> >> BY <1>1, <2>1
    <3> QED BY <2>1, <3>1, CallChained DEF Keys
  <2>2. CASE ~sep
    <3>1. b = <<>> BY <1>1, <2>2
    <3> QED BY <3>1, NoneChained
  <2> QED BY <1>4, <2>1, <2>2
<1>7. Chained(c) /\ c # <<>> /\ c[1][1] = "correction_modes"
  <2>1. PICK modes : c = << <<"correction_modes", modes>> >> BY <1>1
  <2> QED BY <2>1, CallChained DEF Keys
<1>8. PICK d : d = a \o b OBVIOUS
<1>9. b # <<>> => a[Len(a)] = <<"chat_use_separate_model", TRUE>> BY <1>4, <1>5, <1>6
<1>10. Chained(d) /\ d # <<>> /\ d[1] = a[1] BY <1>5, <1>6, <1>8, <1>9, ConcatChained
<1>11. PICK q : q = d \o c OBVIOUS
<1>12. Chained(q) /\ q[1] = d[1] BY <1>7, <1>10, <1>11, ConcatChained
<1>13. Fits(config, q[1][1], q[1][2]) BY <1>5, <1>10, <1>12 DEF Fits
<1>14. Calls("ui", q) BY <1>1, <1>8, <1>11
<1>15. QueueInv' /\ acts' \in Nat /\ acts' >= acts BY <1>2, <1>12, <1>13, <1>14, AskedQueue
<1>16. DraftInv'
  <2>1. CASE draft' = draft BY <1>3, <2>1 DEF DraftInv
  <2>2. CASE draft' = NoDraft BY <2>2 DEF DraftInv, NoDraft
  <2> QED BY <1>2, <2>1, <2>2
<1> QED BY <1>2, <1>15, <1>16, AskedSteps

\* The draft moves and the queues do not.
LEMMA DraftSteps ==
  ASSUME SettingsInv, OpenDialog \/ EditDraft \/ CancelDialog PROVE SettingsInv'
<1>1. /\ acts' = acts + 1 \/ acts' = acts
      /\ todo' = todo /\ UNCHANGED <<config, file, saving, dump, late, excused, denials>>
  BY DEF OpenDialog, EditDraft, CancelDialog, Act, writing, bounds
<1>2. acts \in Nat /\ QueueInv /\ DraftInv /\ Sound(config) BY DEF SettingsInv, SavingTypes, SoundInv
<1>3. QueueInv' BY <1>1, <1>2 DEF QueueInv
<1>4. DraftInv'
  <2>1. CASE OpenDialog
    <3>1. PICK templates, terms, path, separate, chat, server, modes :
            /\ draft' = [open |-> TRUE, templates |-> templates, terms |-> terms, model |-> path,
                         separate |-> separate, chat |-> chat, server |-> server, modes |-> modes]
            /\ separate = config.chat_use_separate_model
      BY <2>1 DEF OpenDialog
    <3>2. separate \in BOOLEAN BY <1>2, <3>1 DEF Sound
    <3> QED BY <3>1, <3>2 DEF DraftInv
  <2>2. CASE CancelDialog BY <2>2 DEF CancelDialog, NoDraft, DraftInv
  <2>3. CASE EditDraft
    <3>1. draft.open /\ "separate" \in DOMAIN draft /\ draft.separate \in BOOLEAN
      BY <1>2, <2>3 DEF EditDraft, DraftInv
    <3>2. \/ \E x : draft' = [draft EXCEPT !["templates"] = x]
          \/ \E x : draft' = [draft EXCEPT !["modes"] = x]
          \/ \E x : draft' = [draft EXCEPT !["model"] = x]
          \/ draft' = [draft EXCEPT !["separate"] = ~draft.separate]
          \/ \E x : draft' = [draft EXCEPT !["terms"] = x]
      BY <2>3 DEF EditDraft
    <3>3. CASE draft' = [draft EXCEPT !["separate"] = ~draft.separate]
      <4>1. /\ DOMAIN draft' = DOMAIN draft /\ draft' = [k \in DOMAIN draft' |-> draft'[k]]
            /\ draft'.separate = ~draft.separate /\ draft'.open = draft.open
        BY <1>2, <3>1, <3>3 DEF DraftInv
      <4>2. draft'.separate \in BOOLEAN BY <4>1
      <4> QED BY <1>2, <3>1, <4>1, <4>2 DEF DraftInv
    <3>4. ASSUME NEW key \in {"templates", "modes", "model", "terms"}, NEW x,
                 draft' = [draft EXCEPT ![key] = x]
          PROVE  DraftInv'
      <4>1. /\ DOMAIN draft' = DOMAIN draft /\ draft' = [k \in DOMAIN draft' |-> draft'[k]]
            /\ draft'.separate = draft.separate /\ draft'.open = draft.open
        BY <1>2, <3>1, <3>4 DEF DraftInv
      <4> QED BY <1>2, <3>1, <4>1 DEF DraftInv
    <3> QED BY <3>2, <3>3, <3>4
  <2> QED BY <2>1, <2>2, <2>3
<1>5. acts' \in Nat /\ acts' >= acts BY <1>1, <1>2
<1> QED BY <1>1, <1>3, <1>4, <1>5, AskedSteps

LEMMA DownloadSteps == ASSUME SettingsInv, DownloadEnds PROVE SettingsInv'
<1>1. /\ acts' = acts + 1 /\ config' = Detected(config, "m1", TRUE) /\ todo["ui"] = <<>>
      /\ saving' = IF config' # config THEN [saving EXCEPT !["ui"] = "dump"] ELSE saving
      /\ saving["ui"] = "no" /\ file' = file /\ draft' = draft /\ todo' = todo /\ dump' = dump
      /\ late' = late /\ excused' = excused /\ denials' = denials
  BY DEF DownloadEnds, Act, Quiet
<1>2. SavingTypes /\ SoundInv /\ QueueInv /\ DraftInv /\ DenialInv /\ OvertakeInv /\ LagInv BY DEF SettingsInv
<1>3. PICK r : r = config' OBVIOUS
<1>4. Sound(r) /\ (Shown(config) => Shown(r)) BY <1>1, <1>2, <1>3, DetectedSound DEF SoundInv
<1>5. acts' \in Nat /\ (acts' = 0 => acts = 0) BY <1>1, <1>2 DEF SavingTypes
<1>6. QueueInv' BY <1>1, <1>2, <1>5 DEF QueueInv
<1>7. DraftInv' BY <1>1, <1>2 DEF DraftInv
<1>8. CASE config' = config
  <2>1. UNCHANGED <<config, file, saving, dump, late, excused, denials>> BY <1>1, <1>8
  <2>2. acts' >= acts BY <1>1, <1>2 DEF SavingTypes
  <2> QED BY <1>5, <1>6, <1>7, <2>1, <2>2, AskedSteps
<1>9. CASE config' # config
  <2>1. saving' = [saving EXCEPT !["ui"] = "dump"] BY <1>1, <1>9
  <2>2. "ui" \in Threads BY DEF Threads
  <2>3. saving'["ui"] = "dump" /\ \A u \in Threads : u # "ui" => saving'[u] = saving[u]
    BY <1>2, <2>1, <2>2 DEF SavingTypes
  <2>4. SavingTypes' BY <1>1, <1>2, <1>5, <2>1 DEF SavingTypes
  <2>5. SoundInv' BY <1>1, <1>2, <1>3, <1>4, <1>5, <2>3 DEF SoundInv
  <2>6. DenialInv' BY <1>1, <1>2, <2>3 DEF DenialInv
  <2>7. OvertakeInv' BY <2>2, <2>3 DEF OvertakeInv
  <2>8. LagInv' BY <2>2, <2>3 DEF LagInv
  <2> QED BY <1>6, <1>7, <2>4, <2>5, <2>6, <2>7, <2>8 DEF SettingsInv
<1> QED BY <1>8, <1>9

\* Nothing, and no file that was emptied, is without need of a save.
LEMMA NothingSaved == Loadable(<<>>) /\ NeedsSave(<<>>)
<1>1. DOMAIN <<>> = {} OBVIOUS
<1> QED BY <1>1 DEF Loadable, NeedsSave

\* The program has read what the file holds.
LEMMA StartSteps ==
  ASSUME NEW s, Loadable(s), NEW path, NEW server, NEW r, r = Detected(Migrate(s), path, server)
  PROVE  Sound(r) /\ Shown(r)
<1>1. PICK m : m = Migrate(s) OBVIOUS
<1>2. Sound(m) /\ Shown(m) BY <1>1, MigrateSound
<1> QED BY <1>1, <1>2, DetectedSound

LEMMA RestartSteps == ASSUME SettingsInv, Restart PROVE SettingsInv'
<1>1. PICK s : (s = <<>> \/ (s = file /\ file # Torn)) /\ Starts(s)
  <2>1. Starts(<<>>) \/ (file # Torn /\ Starts(file)) BY DEF Restart
  <2> QED BY <2>1
<1>2. PICK path, server :
        /\ config' = Detected(Migrate(s), path, server)
        /\ saving' = [t \in Threads |->
                        IF t = "ui" /\ (NeedsSave(s) \/ config' # Migrate(s)) THEN "dump" ELSE "no"]
  BY <1>1 DEF Starts
<1>3. /\ draft' = NoDraft /\ todo' = [t \in Threads |-> <<>>] /\ dump' = [t \in Threads |-> <<>>]
      /\ late' = [t \in Threads |-> FALSE] /\ excused' = FALSE
      /\ file' = file /\ acts' = acts /\ denials' = denials
  BY DEF Restart
<1>4. SavingTypes /\ SoundInv /\ DenialInv BY DEF SettingsInv
<1>5. Loadable(s) BY <1>1, <1>4, NothingSaved DEF SoundInv
<1>6. Sound(config') /\ Shown(config')
  <2>1. PICK r : r = config' OBVIOUS
  <2> QED BY <1>2, <1>5, <2>1, StartSteps
<1>7. \A t \in Threads : saving'[t] \in {"dump", "no"} BY <1>2
<1>8. SavingTypes'
  <2>1. saving' \in [Threads -> {"no", "dump", "replace", "open", "write"}] BY <1>2
  <2> QED BY <1>3, <1>4, <2>1 DEF SavingTypes
<1>9. SoundInv' BY <1>3, <1>4, <1>6, <1>7 DEF SoundInv
<1>10. QueueInv'
  <2>1. "ui" \in Threads /\ "loader" \in Threads BY DEF Threads
  <2>2. todo'["ui"] = <<>> /\ todo'["loader"] = <<>> BY <1>3, <2>1
  <2> QED BY <1>3, <2>2, NoneChained DEF QueueInv
<1>11. DraftInv' BY <1>3 DEF DraftInv, NoDraft
<1>12. DenialInv' BY <1>3, <1>4, <1>7 DEF DenialInv
<1>13. OvertakeInv' BY <1>7 DEF OvertakeInv
<1>14. LagInv'
  <2>1. SUFFICES ASSUME \A t \in Threads : saving'[t] = "no" PROVE UpToDate'
    BY DEF LagInv
  <2>2. saving'["ui"] = "no" /\ "ui" \in Threads BY <2>1 DEF Threads
  <2>3. ~NeedsSave(s) /\ config' = Migrate(s) BY <1>2, <2>2
  <2>4. file # Torn /\ s = file BY <1>1, <2>3, NothingSaved
  <2> QED BY <1>3, <2>3, <2>4 DEF UpToDate
<1> QED BY <1>8, <1>9, <1>10, <1>11, <1>12, <1>13, <1>14 DEF SettingsInv

LEMMA SettingsStarts == SettingsInit => SettingsInv
<1> SUFFICES ASSUME SettingsInit PROVE SettingsInv
  OBVIOUS
<1>1. file \in SavedFiles /\ Loadable(file) /\ file # Torn BY SavedAssumption DEF SettingsInit, Loadable
<1>2. PICK path, server : config = Detected(Migrate(file), path, server) BY DEF SettingsInit
<1>3. /\ saving = [t \in Threads |->
                     IF t = "ui" /\ (NeedsSave(file) \/ config # Migrate(file)) THEN "dump" ELSE "no"]
      /\ draft = NoDraft /\ todo = [t \in Threads |-> <<>>] /\ dump = [t \in Threads |-> <<>>]
      /\ late = [t \in Threads |-> FALSE] /\ excused = FALSE /\ acts = 0 /\ denials = 0
  BY DEF SettingsInit
<1>4. Sound(config) /\ Shown(config)
  <2>1. PICK r : r = config OBVIOUS
  <2> QED BY <1>1, <1>2, <2>1, StartSteps
<1>5. \A t \in Threads : saving[t] \in {"dump", "no"} BY <1>3
<1>6. SavingTypes
  <2>1. saving \in [Threads -> {"no", "dump", "replace", "open", "write"}] BY <1>3
  <2> QED BY <1>3, <2>1 DEF SavingTypes
<1>7. SoundInv BY <1>1, <1>3, <1>4, <1>5 DEF SoundInv
<1>8. QueueInv
  <2>1. "ui" \in Threads /\ "loader" \in Threads BY DEF Threads
  <2>2. todo["ui"] = <<>> /\ todo["loader"] = <<>> BY <1>3, <2>1
  <2> QED BY <1>3, <2>2, NoneChained DEF QueueInv
<1>9. DraftInv BY <1>3 DEF DraftInv, NoDraft
<1>10. DenialInv BY <1>1, <1>5 DEF DenialInv
<1>11. OvertakeInv BY <1>5 DEF OvertakeInv
<1>12. LagInv
  <2>1. SUFFICES ASSUME \A t \in Threads : saving[t] = "no" PROVE UpToDate
    BY DEF LagInv
  <2>2. saving["ui"] = "no" /\ "ui" \in Threads BY <2>1 DEF Threads
  <2>3. config = Migrate(file) BY <1>3, <2>2
  <2> QED BY <1>1, <2>3 DEF UpToDate
<1> QED BY <1>6, <1>7, <1>8, <1>9, <1>10, <1>11, <1>12 DEF SettingsInv

LEMMA SettingsIdle == ASSUME SettingsInv, UNCHANGED settingsVars PROVE SettingsInv'
<1>1. UNCHANGED <<config, file, saving, dump, late, excused, denials, acts, todo, draft>>
  BY DEF settingsVars, writing, bounds
<1>2. acts \in Nat BY DEF SettingsInv, SavingTypes
<1>3. QueueInv' /\ DraftInv' BY <1>1, SaveFrame
<1>4. acts' \in Nat /\ acts' >= acts BY <1>1, <1>2
<1> QED BY <1>1, <1>3, <1>4, AskedSteps

-----------------------------------------------------------------------------
(* The theorems about the settings.                                         *)

\* The inductive invariant of the settings, for any files of earlier versions and any bounds: they
\* are complete and agree with one another in memory, in the file and in every temporary file,
\* the calls that a handler has still to make lead to such settings, and a save that was not overtaken
\* writes the present ones (ConfigManager._load, set, save).
THEOREM SettingsInvariant == SettingsSpec => []SettingsInv
<1>1. SettingsInit => SettingsInv BY SettingsStarts
<1>2. SettingsInv /\ [SettingsNext]_settingsVars => SettingsInv'
  <2> SUFFICES ASSUME SettingsInv, [SettingsNext]_settingsVars PROVE SettingsInv'
    OBVIOUS
  <2>1. ASSUME NEW t \in Threads, Save(t) PROVE SettingsInv'
    BY <2>1, AssignSteps, WriteTemporarySteps, ReplaceSteps, TruncateSteps, WriteInPlaceSteps DEF Save
  <2>2. CASE LoadModel BY <2>2, LoadModelSteps
  <2>3. CASE ProtectTerm BY <2>3, ProtectTermSteps
  <2>4. CASE SelectModel BY <2>4, SelectModelSteps
  <2>5. CASE DownloadEnds BY <2>5, DownloadSteps
  <2>6. CASE OpenDialog \/ EditDraft \/ CancelDialog BY <2>6, DraftSteps
  <2>7. CASE ApplyDialog BY <2>7, ApplyDialogSteps
  <2>8. CASE Restart BY <2>8, RestartSteps
  <2>9. CASE UNCHANGED settingsVars BY <2>9, SettingsIdle
  <2> QED BY <2>1, <2>2, <2>3, <2>4, <2>5, <2>6, <2>7, <2>8, <2>9 DEF SettingsNext
<1> QED BY <1>1, <1>2, PTL DEF SettingsSpec

\* Starting again from what was saved gives the same settings, but for templates and custom modes
\* that the user removed, and the chat model follows the model of the corrections, whatever was
\* set, detected, applied, stopped and loaded (ConfigManager._load, set, auto_detect).
THEOREM SettingsAlwaysHold == SettingsSpec => []SettingsHold
<1>1. SettingsInv => SettingsHold
  <2> SUFFICES ASSUME SettingsInv PROVE SettingsHold
    OBVIOUS
  <2>1. Sound(config) /\ (acts = 0 => Shown(config)) /\ acts \in Nat
    BY DEF SettingsInv, SoundInv, SavingTypes
  <2>2. PICK m : m = Migrate(config) OBVIOUS
  <2>3. \A k \in DOMAIN config : k \in DOMAIN m /\ (k \notin Modes \/ Shown(config) => m[k] = config[k])
    BY <2>1, <2>2, MigrateAgain
  <2>4. acts = 0 \/ acts > 0 BY <2>1
  <2>5. RestartKeeps BY <2>1, <2>2, <2>3, <2>4 DEF RestartKeeps, Modes
  <2>6. ChatModelFollows BY <2>1 DEF ChatModelFollows, Sound
  <2> QED BY <2>5, <2>6 DEF SettingsHold
<1> QED BY <1>1, SettingsInvariant, PTL

\* The file is whole unless its replacement was denied, and at rest it holds the settings in memory,
\* or what reads as them, unless the older of two saves came last or the last one failed
\* (ConfigManager.save).
THEOREM FileAlwaysKeepsUp == SettingsSpec => []FileKeepsUp
<1>1. SettingsInv => FileKeepsUp
  <2> SUFFICES ASSUME SettingsInv PROVE FileKeepsUp
    OBVIOUS
  <2>1. TornOnlyByDenial BY DEF SettingsInv, DenialInv, TornOnlyByDenial
  <2>2. LagsOnlyByOvertaking
    BY DEF SettingsInv, LagInv, UpToDate, LagsOnlyByOvertaking, AtRest, Quiet
  <2> QED BY <2>1, <2>2 DEF FileKeepsUp
<1> QED BY <1>1, SettingsInvariant, PTL

-----------------------------------------------------------------------------
(* AppLifecycle: the parts of its safety properties and what makes them      *)
(* inductive.  Each part of the invariant reads few variables; a step that  *)
(* leaves those alone keeps it, and the others have a case of their own.    *)

\* The model and its retries.
Ends == {"none", "failed", "unconfigured", "loaded", "unloaded", "crashed"}
Histories == [lastEnd : Ends, auto : Nat, stale : Nat, below : BOOLEAN, refused : BOOLEAN]
ModelStates == {"none", "loading", "up", "stuck"}
Statuses == {"fail", "unconfigured", "loaded"}
RetryType ==
  /\ model \in ModelStates /\ loads \in Nat /\ timers \in Nat
  /\ statuses \in Seq(Statuses)
  /\ retry \in [scheduled : BOOLEAN, count : 0..MaxRetries]
  /\ history \in Histories

\* A retry that is scheduled has its timer, the end of the last load is the last status
\* that waits, and of a failure something is left that leads to a load.
RetryInv ==
  /\ RetryType
  /\ retry.scheduled => timers > 0
  /\ history.lastEnd = "failed" /\ statuses # <<>> => statuses[Len(statuses)] = "fail"
  /\ model = "none" /\ history.lastEnd = "failed" =>
       loads > 0 \/ statuses # <<>> \/ timers > 0 \/ retry.count = MaxRetries
  /\ history.auto + timers <= retry.count + history.stale

\* A correction that the welcome window waits for is not over.
WelcomeInv ==
  /\ corrections \in Seq({"running", "answer", "error", "over"})
  /\ CorrectingIsTrue

\* The processes.
InstanceInv ==
  /\ instances \in [Instances -> {"off", "attach", "create", "up", "leaving"}]
  /\ OneInstance

\* The dialogs: only the one on top was answered "yes", or a download below another
\* dialog, which is then on record; and the updater is started from none that is left, unless Qt
\* refused to quit.
Dialogs == [kind : {"setup", "download", "popup", "confirm", "warning"}, answer : {"open", "yes", "no"}]
DialogInv ==
  /\ frames \in Seq(Dialogs) /\ updaters \in Nat
  /\ \A f \in DOMAIN frames :
       frames[f].answer = "yes" =>
         /\ frames[f].kind # "download" => f = Len(frames)
         /\ frames[f].kind = "download" => history.below \/ (f = Len(frames) /\ ~Leaving)
         /\ frames[f].kind = "confirm" => updaters = 0 \/ history.refused
  /\ OneUpdater
  /\ QuitIsFinal

LifecycleInv == RetryInv /\ WelcomeInv /\ InstanceInv /\ DialogInv

-----------------------------------------------------------------------------
(* The model and its retries.                                               *)

\* How many retries are tried and are to come, when a load was cancelled or asked for.
LEMMA CancelStep ==
  ASSUME RetryInv, NEW end \in Ends, NEW left \in Nat, timers' = left, retry' = CancelledRetry,
         history' = AfterCancel(end, left), model' \in ModelStates, loads' \in Nat,
         statuses' \in Seq(Statuses),
         end = "failed" /\ statuses' # <<>> => statuses'[Len(statuses')] = "fail",
         model' = "none" /\ end = "failed" => loads' > 0 \/ statuses' # <<>>
  PROVE  RetryInv'
<1>1. retry' = [scheduled |-> FALSE, count |-> 0] /\ MaxRetries \in Nat
  BY LifecycleAssumption DEF CancelledRetry
<1>2. history \in Histories BY DEF RetryInv, RetryType
<1>3. /\ history' \in Histories /\ history'.lastEnd = end /\ history'.auto = 0 /\ history'.stale = left
  BY <1>2 DEF AfterCancel, Histories
<1>4. RetryType' BY <1>1, <1>3 DEF RetryType
<1> QED BY <1>1, <1>3, <1>4 DEF RetryInv

\* A new process, or none any more.
LEMMA NothingYetStep ==
  ASSUME NothingYet, loads' \in Nat PROVE RetryInv'
<1>1. /\ model' = "none" /\ statuses' = <<>> /\ timers' = 0
      /\ retry' = [scheduled |-> FALSE, count |-> 0] /\ MaxRetries \in Nat
      /\ history' = NoHistory
  BY LifecycleAssumption DEF NothingYet, CancelledRetry
<1>2. /\ history' \in Histories /\ history'.lastEnd = "none" /\ history'.auto = 0
      /\ history'.stale = 0
  BY <1>1 DEF NoHistory, Histories, Ends
<1>3. RetryType' BY <1>1, <1>2 DEF RetryType, ModelStates
<1> QED BY <1>1, <1>2, <1>3 DEF RetryInv

\* The model is gone, but not by a load that failed.
LEMMA UnloadStep ==
  ASSUME RetryInv, NEW end \in Ends \ {"failed"}, Unload(end),
         UNCHANGED <<loads, statuses, retry, timers>>
  PROVE  RetryInv'
<1>1. history \in Histories BY DEF RetryInv, RetryType
<1>2. /\ model' = "none" /\ history' \in Histories /\ history'.lastEnd = end
      /\ history'.auto = history.auto /\ history'.stale = history.stale
  BY <1>1 DEF Unload, Histories
<1>3. RetryType' BY <1>2 DEF RetryInv, RetryType, ModelStates
<1> QED BY <1>2, <1>3 DEF RetryInv

LEMMA ReloadStep ==
  ASSUME RetryInv, Reload, UNCHANGED <<statuses, timers>> PROVE RetryInv'
<1>1. RetryType BY DEF RetryInv
<1>2. /\ loads' \in Nat /\ loads' > 0 /\ model' = "none" /\ timers \in Nat
      /\ statuses' \in Seq(Statuses)
  BY <1>1 DEF Reload, RetryType, ModelStates
<1>3. PICK end \in Ends : end = (IF model = "none" THEN history.lastEnd ELSE "unloaded")
  BY <1>1 DEF RetryType, Histories, Ends
<1>4. end = "failed" /\ statuses' # <<>> => statuses'[Len(statuses')] = "fail"
  BY <1>3 DEF RetryInv
<1>5. retry' = CancelledRetry /\ history' = AfterCancel(end, timers) BY <1>3 DEF Reload
<1> QED BY <1>1, <1>2, <1>4, <1>5, CancelStep DEF ModelStates

LEMMA EndLoadStep == ASSUME RetryInv, EndLoad PROVE RetryInv'
<1>1. RetryType BY DEF RetryInv
<1>2. UNCHANGED <<loads, retry, timers>> BY DEF EndLoad
<1>3. ASSUME NEW end \in {"loaded", "failed", "unconfigured"}, NEW status \in Statuses,
             end = "failed" => status = "fail", statuses' = Append(statuses, status),
             history' = [history EXCEPT !.lastEnd = end], model' \in {"up", "none"}
      PROVE  RetryInv'
  <2>1. /\ statuses' \in Seq(Statuses) /\ statuses' # <<>> /\ statuses'[Len(statuses')] = status
    BY <1>1, <1>3 DEF RetryType
  <2>2. /\ history' \in Histories /\ history'.lastEnd = end
        /\ history'.auto = history.auto /\ history'.stale = history.stale
    BY <1>1, <1>3 DEF RetryType, Histories, Ends
  <2>3. RetryType' BY <1>1, <1>2, <1>3, <2>1, <2>2 DEF RetryType, ModelStates
  <2> QED BY <1>2, <1>3, <2>1, <2>2, <2>3 DEF RetryInv
<1>4. CASE model' = "stuck" /\ UNCHANGED <<statuses, history>>
  BY <1>1, <1>2, <1>4 DEF RetryInv, RetryType, ModelStates
<1>5. CASE Unload("failed") /\ statuses' = Append(statuses, "fail")
  BY <1>3, <1>5 DEF Unload, Statuses
<1>6. CASE Unload("unconfigured") /\ statuses' = Append(statuses, "unconfigured")
  BY <1>3, <1>6 DEF Unload, Statuses
<1> QED BY <1>3, <1>4, <1>5, <1>6 DEF EndLoad, Statuses

\* A status that is taken leaves the others, the last one among them.
LEMMA StatusTaken ==
  ASSUME RetryType, statuses # <<>>, statuses' = Tail(statuses)
  PROVE  /\ statuses' \in Seq(Statuses) /\ Head(statuses) \in Statuses
         /\ statuses' = <<>> => statuses[Len(statuses)] = Head(statuses)
         /\ statuses' # <<>> => statuses'[Len(statuses')] = statuses[Len(statuses)]
<1>1. statuses \in Seq(Statuses) BY DEF RetryType
<1>2. /\ Len(statuses) \in Nat \ {0} /\ Head(statuses) = statuses[1] /\ statuses' \in Seq(Statuses)
      /\ Len(statuses') = Len(statuses) - 1
      /\ \A i \in 1..Len(statuses) - 1 : statuses'[i] = statuses[i + 1]
  BY <1>1
<1>3. statuses[1] \in Statuses BY <1>1, <1>2
<1>4. statuses' = <<>> => Len(statuses) = 1
  <2>1. statuses' = <<>> => Len(statuses') = 0 OBVIOUS
  <2> QED BY <1>2, <2>1
<1>5. ASSUME statuses' # <<>> PROVE statuses'[Len(statuses')] = statuses[Len(statuses)]
  <2>1. Len(statuses') # 0 BY <1>2, <1>5
  <2>2. Len(statuses) - 1 \in 1..Len(statuses) - 1 BY <1>2, <2>1
  <2> QED BY <1>2, <2>2
<1> QED BY <1>2, <1>3, <1>4, <1>5

LEMMA ScheduleStep == ASSUME RetryInv, ScheduleModelRetryIfNeeded PROVE RetryInv'
<1>1. RetryType BY DEF RetryInv
<1>2. /\ statuses # <<>> /\ Head(statuses) # "loaded" /\ statuses' = Tail(statuses)
      /\ UNCHANGED <<model, loads, history>>
  BY DEF ScheduleModelRetryIfNeeded
<1>3. /\ statuses' \in Seq(Statuses)
      /\ history.lastEnd = "failed" /\ statuses' # <<>> => statuses'[Len(statuses')] = "fail"
  BY <1>1, <1>2, StatusTaken DEF RetryInv
<1>4. /\ timers \in Nat /\ retry.count \in 0..MaxRetries /\ retry.scheduled \in BOOLEAN /\ MaxRetries \in Nat
      /\ history.auto \in Nat /\ history.stale \in Nat
  BY <1>1, LifecycleAssumption DEF RetryType, Histories
<1>5. CASE Head(statuses) = "fail" /\ model = "none" /\ ~retry.scheduled /\ MayRetry
  <2>1. /\ retry' = [scheduled |-> TRUE, count |-> retry.count + 1] /\ timers' = timers + 1
        /\ retry.count < MaxRetries
    BY <1>5 DEF ScheduleModelRetryIfNeeded, MayRetry
  <2>2. retry' \in [scheduled : BOOLEAN, count : 0..MaxRetries] /\ retry'.count = retry.count + 1
    BY <1>4, <2>1
  <2>3. timers' > 0 /\ timers' \in Nat BY <1>4, <2>1
  <2>4. RetryType' BY <1>1, <1>2, <1>3, <2>2, <2>3 DEF RetryType
  <2>5. history.auto + timers' <= retry'.count + history.stale BY <1>4, <2>1, <2>2 DEF RetryInv
  <2> QED BY <1>2, <1>3, <2>3, <2>4, <2>5 DEF RetryInv
<1>6. CASE ~(Head(statuses) = "fail" /\ model = "none" /\ ~retry.scheduled /\ MayRetry)
  <2>1. UNCHANGED <<retry, timers>> BY <1>6 DEF ScheduleModelRetryIfNeeded
  <2>2. RetryType' BY <1>1, <1>2, <1>3, <2>1 DEF RetryType
  <2>3. Head(statuses) = "fail" /\ model = "none" => timers > 0 \/ retry.count = MaxRetries
    BY <1>4, <1>6 DEF MayRetry, RetryInv
  <2>4. history.lastEnd = "failed" /\ statuses' = <<>> => Head(statuses) = "fail"
    BY <1>1, <1>2, StatusTaken DEF RetryInv
  <2> QED BY <1>2, <1>3, <2>1, <2>2, <2>3, <2>4 DEF RetryInv
<1> QED BY <1>5, <1>6

LEMMA LoadedStep == ASSUME RetryInv, OnModelLoaded PROVE RetryInv'
<1>1. RetryType BY DEF RetryInv
<1>2. /\ statuses # <<>> /\ Head(statuses) = "loaded" /\ statuses' = Tail(statuses)
      /\ UNCHANGED <<model, loads, timers>> /\ retry' = CancelledRetry
      /\ history' = AfterCancel(history.lastEnd, timers)
  BY DEF OnModelLoaded
<1>3. /\ statuses' \in Seq(Statuses)
      /\ history.lastEnd = "failed" => statuses' # <<>> /\ statuses'[Len(statuses')] = "fail"
  BY <1>1, <1>2, StatusTaken DEF RetryInv
<1>4. /\ history.lastEnd \in Ends /\ timers \in Nat /\ model \in ModelStates /\ loads \in Nat
  BY <1>1 DEF RetryType, Histories
<1> QED BY <1>2, <1>3, <1>4, CancelStep

LEMMA DeferredStep == ASSUME RetryInv, DeferredModelRetry PROVE RetryInv'
<1>1. RetryType BY DEF RetryInv
<1>2. timers > 0 /\ timers' = timers - 1 /\ UNCHANGED <<model, statuses>> BY DEF DeferredModelRetry
<1>3. /\ timers \in Nat /\ timers' \in Nat /\ loads \in Nat /\ retry.count \in 0..MaxRetries /\ MaxRetries \in Nat
      /\ history.auto \in Nat /\ history.stale \in Nat /\ history.lastEnd \in Ends
  BY <1>1, <1>2, LifecycleAssumption DEF RetryType, Histories
<1>4. CASE model = "none"
  <2>1. loads' = loads + 1 /\ retry' = [retry EXCEPT !.scheduled = FALSE]
        /\ history' = [history EXCEPT !.auto = @ + 1]
    BY <1>4 DEF DeferredModelRetry, AfterRetry
  <2>2. /\ retry' \in [scheduled : BOOLEAN, count : 0..MaxRetries] /\ retry'.count = retry.count
        /\ ~retry'.scheduled
    BY <1>1, <2>1 DEF RetryType
  <2>3. /\ history' \in Histories /\ history'.lastEnd = history.lastEnd
        /\ history'.auto = history.auto + 1 /\ history'.stale = history.stale
    BY <1>1, <2>1 DEF RetryType, Histories
  <2>4. RetryType' BY <1>1, <1>2, <1>3, <2>1, <2>2, <2>3 DEF RetryType
  <2>5. loads' > 0 BY <1>3, <2>1
  <2>6. history'.auto + timers' <= retry'.count + history'.stale
    BY <1>2, <1>3, <2>2, <2>3 DEF RetryInv
  <2>7. history'.lastEnd = "failed" /\ statuses' # <<>> => statuses'[Len(statuses')] = "fail"
    BY <1>2, <2>3 DEF RetryInv
  <2> QED BY <2>2, <2>4, <2>5, <2>6, <2>7 DEF RetryInv
<1>5. CASE model # "none"
  <2>1. retry' = CancelledRetry /\ history' = AfterCancel(history.lastEnd, timers - 1) /\ loads' = loads
    BY <1>5 DEF DeferredModelRetry
  <2>2. statuses' \in Seq(Statuses) /\ model' \in ModelStates
        /\ (history.lastEnd = "failed" /\ statuses' # <<>> => statuses'[Len(statuses')] = "fail")
    BY <1>1, <1>2 DEF RetryType, RetryInv
  <2> QED BY <1>2, <1>3, <1>5, <2>1, <2>2, CancelStep
<1> QED BY <1>4, <1>5

\* The application quits, or not.
LEMMA QuitModelStep ==
  ASSUME RetryInv, TrayQuit \/ StartAppUpdate PROVE RetryInv'
<1>1. UNCHANGED <<loads, statuses, retry, timers>> BY DEF TrayQuit, StartAppUpdate
<1>2. ASSUME model' = "none", LeaveOrNot PROVE RetryInv'
  <2>1. history \in Histories BY DEF RetryInv, RetryType
  <2>2. /\ history' \in Histories /\ history'.lastEnd = "unloaded"
        /\ history'.auto = history.auto /\ history'.stale = history.stale
    BY <1>2, <2>1 DEF LeaveOrNot, Histories, Ends
  <2>3. RetryType' BY <1>1, <1>2, <2>2 DEF RetryInv, RetryType, ModelStates
  <2> QED BY <1>1, <1>2, <2>2, <2>3 DEF RetryInv
<1>3. CASE UNCHANGED <<model, history>> BY <1>1, <1>3 DEF RetryInv, RetryType
<1> QED BY <1>2, <1>3 DEF TrayQuit, StartAppUpdate, Quit

\* Every step leads to a history of the same kind.
LEMMA RetryStep == ASSUME RetryInv, AppNext PROVE RetryInv'
<1> USE DEF modelVars
<1>1. RetryType BY DEF RetryInv
<1>2. /\ timers \in Nat /\ loads \in Nat /\ history \in Histories /\ history.lastEnd \in Ends
      /\ model \in ModelStates /\ statuses \in Seq(Statuses)
  BY <1>1 DEF RetryType, Histories
<1>3. CASE UNCHANGED modelVars BY <1>3 DEF RetryInv, RetryType
<1>4. CASE Launches
  <2>1. PICK i \in Instances : StartProcess(i) \/ Attach(i) \/ Create(i) \/ Exit(i) \/ Killed(i)
    BY <1>4 DEF Launches
  <2>2. CASE Create(i)
    <3>1. CASE Boot
      <4>1. loads' \in Nat BY <3>1 DEF Boot
      <4> QED BY <3>1, <4>1, NothingYetStep DEF Boot
    <3> QED BY <2>2, <3>1, <1>3 DEF Create
  <2>3. CASE Exit(i) \/ Killed(i) BY <2>3, NothingYetStep DEF Exit, Killed, Gone
  <2> QED BY <2>1, <2>2, <2>3, <1>3 DEF StartProcess, Attach
<1>5. CASE TrayLoadModel
  <2>1. /\ loads' = loads + 1 /\ retry' = CancelledRetry /\ history' = AfterCancel(history.lastEnd, timers)
        /\ UNCHANGED <<model, statuses, timers>>
    BY <1>5 DEF TrayLoadModel
  <2>2. loads' \in Nat /\ loads' > 0 BY <1>2, <2>1
  <2>3. history.lastEnd = "failed" /\ statuses' # <<>> => statuses'[Len(statuses')] = "fail"
    BY <2>1 DEF RetryInv
  <2> QED BY <1>2, <2>1, <2>2, <2>3, CancelStep
<1>6. CASE TrayUnloadModel
  <2>1. /\ model' = "none" /\ retry' = CancelledRetry /\ history' = AfterCancel("unloaded", timers)
        /\ UNCHANGED <<loads, statuses, timers>>
    BY <1>6 DEF TrayUnloadModel
  <2> QED BY <1>2, <2>1, CancelStep DEF Ends, ModelStates
<1>7. CASE RebuildLlmMenu
  <2>1. loads' = loads + 1 /\ UNCHANGED <<model, statuses, retry, timers, history>>
    BY <1>7 DEF RebuildLlmMenu
  <2>2. loads' \in Nat /\ loads' > 0 BY <1>2, <2>1
  <2> QED BY <2>1, <2>2 DEF RetryInv, RetryType
<1>8. CASE ModelGone
  <2>1. PICK end \in {"unloaded", "crashed"} : Unload(end) BY <1>8 DEF ModelGone
  <2> QED BY <1>8, <2>1, UnloadStep DEF ModelGone, Ends
<1>9. CASE TraySelectModel \/ SettingsSaved \/ DownloadsDone
  BY <1>9, ReloadStep DEF TraySelectModel, SettingsSaved, DownloadsDone
<1>10. CASE Loading
  BY <1>10, <1>5, <1>6, <1>7, <1>8, <1>9, DeferredStep DEF Loading
<1>11. CASE EnterLoad
  <2>1. /\ loads > 0 /\ loads' = loads - 1 /\ UNCHANGED <<statuses, retry, timers, history>>
        /\ model' # "none" /\ model' \in ModelStates
    BY <1>2, <1>11 DEF EnterLoad, ModelStates
  <2>2. loads' \in Nat BY <1>2, <2>1
  <2> QED BY <2>1, <2>2 DEF RetryInv, RetryType
<1>12. CASE OnFinished
  <2>1. PICK b : history' = [history EXCEPT !.below = b] /\ b \in BOOLEAN
    <3>1. PICK f \in DOMAIN frames : history' = [history EXCEPT !.below = @ \/ f < Len(frames)]
      BY <1>12 DEF OnFinished
    <3>2. (history.below \/ f < Len(frames)) \in BOOLEAN BY <1>2 DEF Histories
    <3> QED BY <3>1, <3>2
  <2>2. /\ history' \in Histories /\ history'.lastEnd = history.lastEnd
        /\ history'.auto = history.auto /\ history'.stale = history.stale
    BY <1>2, <2>1 DEF Histories
  <2>3. UNCHANGED <<model, loads, statuses, retry, timers>> BY <1>12 DEF OnFinished
  <2> QED BY <2>2, <2>3 DEF RetryInv, RetryType
<1>13. CASE Setup
  BY <1>13, <1>3, <1>12 DEF Setup, CheckFirstRunDownloads, AnswerSetup, WorkerEnds, CancelDownload,
     RetryDownload
<1>14. CASE Updates
  BY <1>14, <1>3 DEF Updates, AutomaticCheck, AnHourPasses, RunSettingsUpdateAction, CheckerAnswers,
     OnUpdateAvailable, MaybeShowUpdatePopup, OnUpdateCheckFinished, SetTrayIcon, AnswerUpdate
<1>15. CASE HandlerGoesOn
  BY <1>15, <1>3, <1>9, QuitModelStep DEF HandlerGoesOn, StartDownload, SetupSkipped, AnswerPopup
<1>16. CASE Welcome
  BY <1>16, <1>3 DEF Welcome, CheckWelcomeFlag, OnWelcomeCorrection, CloseWelcome, EndCorrection,
     OnWelcomeCorrectionFinished
<1>17. CASE Login BY <1>17, <1>3 DEF Login, UpdateStartupAction, ToggleStartup
<1>18. CASE LoadThread \/ ModelSignals
  BY <1>11, <1>18, EndLoadStep, ScheduleStep, LoadedStep DEF LoadThread, ModelSignals
<1> QED BY <1>4, <1>10, <1>13, <1>14, <1>15, <1>16, <1>17, <1>18, QuitModelStep DEF AppNext

-----------------------------------------------------------------------------
(* The welcome window and the processes.                                    *)

LEMMA WelcomeStep == ASSUME WelcomeInv, AppNext PROVE WelcomeInv'
<1> DEFINE CorrectionStates == {"running", "answer", "error", "over"}
<1> USE DEF welcomeVars
<1>1. CASE UNCHANGED corrections /\ (welcome' = "correcting" => welcome = "correcting")
  BY <1>1 DEF WelcomeInv, CorrectingIsTrue
<1>2. CASE corrections' = <<>> /\ welcome' = "none" BY <1>2 DEF WelcomeInv, CorrectingIsTrue
<1>3. ASSUME NEW loaded, WelcomeShown(loaded) \/ NoWelcome \/ ShowWelcome
      PROVE  welcome' = "correcting" => welcome = "correcting"
  BY <1>3 DEF ShowWelcome, WelcomeShown, NoWelcome
<1>4. CASE OnWelcomeCorrection
  <2>1. corrections' = Append(corrections, "running") BY <1>4 DEF OnWelcomeCorrection
  <2>2. corrections \in Seq(CorrectionStates) BY DEF WelcomeInv
  <2>3. corrections' \in Seq(CorrectionStates) BY <2>1, <2>2
  <2>4. /\ Len(corrections) + 1 \in DOMAIN corrections'
        /\ corrections'[Len(corrections) + 1] = "running"
    BY <2>1, <2>2
  <2>5. \E i \in DOMAIN corrections' : corrections'[i] # "over" BY <2>4
  <2> QED BY <2>3, <2>5 DEF WelcomeInv, CorrectingIsTrue
<1>5. ASSUME NEW i \in DOMAIN corrections, EndCorrection(i) PROVE WelcomeInv'
  <2>1. PICK end \in {"answer", "error"} : corrections' = [corrections EXCEPT ![i] = end]
    BY <1>5 DEF EndCorrection
  <2>2. corrections \in Seq(CorrectionStates) BY DEF WelcomeInv
  <2>3. corrections' \in Seq(CorrectionStates) BY <1>5, <2>1, <2>2
  <2>4. /\ DOMAIN corrections' = DOMAIN corrections /\ corrections'[i] = end
    BY <1>5, <2>1, <2>2
  <2>5. \E j \in DOMAIN corrections' : corrections'[j] # "over" BY <1>5, <2>4
  <2> QED BY <2>3, <2>5 DEF WelcomeInv, CorrectingIsTrue
<1>6. ASSUME NEW i \in DOMAIN corrections, OnWelcomeCorrectionFinished(i) PROVE WelcomeInv'
  <2>1. /\ corrections[i] \in {"answer", "error"} /\ corrections' = [corrections EXCEPT ![i] = "over"]
        /\ welcome' = corrections[i]
    BY <1>6 DEF OnWelcomeCorrectionFinished
  <2>2. corrections \in Seq(CorrectionStates) BY DEF WelcomeInv
  <2>3. corrections' \in Seq(CorrectionStates) BY <1>6, <2>1, <2>2
  <2>4. welcome' # "correcting" BY <2>1
  <2> QED BY <2>3, <2>4 DEF WelcomeInv, CorrectingIsTrue
<1>7. CASE Welcome
  BY <1>1, <1>3, <1>4, <1>5, <1>6, <1>7 DEF Welcome, CheckWelcomeFlag, CloseWelcome
<1>8. CASE Launches
  BY <1>1, <1>2, <1>8 DEF Launches, StartProcess, Attach, Create, Boot, Exit, Killed, Gone, NothingYet
<1>9. CASE Loading \/ LoadThread \/ ModelSignals
  BY <1>1, <1>9 DEF Loading, LoadThread, ModelSignals, TraySelectModel, SettingsSaved, TrayLoadModel,
     TrayUnloadModel, RebuildLlmMenu, ModelGone, DeferredModelRetry, EnterLoad, EndLoad,
     ScheduleModelRetryIfNeeded, OnModelLoaded
<1>10. CASE Setup
  BY <1>1, <1>3, <1>10 DEF Setup, CheckFirstRunDownloads, AnswerSetup, WorkerEnds, OnFinished,
     CancelDownload, RetryDownload
<1>11. CASE Updates
  BY <1>1, <1>11 DEF Updates, AutomaticCheck, AnHourPasses, RunSettingsUpdateAction, CheckerAnswers,
     OnUpdateAvailable, MaybeShowUpdatePopup, OnUpdateCheckFinished, SetTrayIcon, AnswerUpdate
<1>12. CASE HandlerGoesOn \/ TrayQuit
  BY <1>1, <1>3, <1>12 DEF HandlerGoesOn, StartDownload, DownloadsDone, SetupSkipped, AnswerPopup,
     StartAppUpdate, TrayQuit
<1>13. CASE Login BY <1>1, <1>13 DEF Login, UpdateStartupAction, ToggleStartup
<1> QED BY <1>7, <1>8, <1>9, <1>10, <1>11, <1>12, <1>13 DEF AppNext

\* A process comes up only where no other one is, and only one that is up leaves.
LEMMA InstanceStep == ASSUME InstanceInv, AppNext PROVE InstanceInv'
<1> USE DEF launchVars
<1>1. CASE UNCHANGED instances BY <1>1 DEF InstanceInv, OneInstance
<1>2. ASSUME NEW i \in Instances, NEW s \in {"off", "attach", "create"},
             instances' = [instances EXCEPT ![i] = s]
      PROVE  InstanceInv'
  BY <1>2 DEF InstanceInv, OneInstance
<1>3. ASSUME NEW i \in Instances, instances' = [instances EXCEPT ![i] = "up"], ~Segment
      PROVE  InstanceInv'
  <2>1. \A j \in Instances : instances[j] \notin {"up", "leaving"}
    BY <1>3 DEF Segment, Running, Leaving
  <2> QED BY <1>3, <2>1 DEF InstanceInv, OneInstance
<1>4. ASSUME NEW fs, Quit(fs) PROVE InstanceInv'
  <2>1. CASE instances' = [i \in Instances |-> IF instances[i] = "up" THEN "leaving" ELSE instances[i]]
    BY <2>1 DEF InstanceInv, OneInstance
  <2> QED BY <1>1, <1>4, <2>1 DEF Quit, LeaveOrNot
<1>5. CASE Launches
  <2>1. PICK i \in Instances : StartProcess(i) \/ Attach(i) \/ Create(i) \/ Exit(i) \/ Killed(i)
    BY <1>5 DEF Launches
  <2>2. CASE StartProcess(i) BY <1>2, <2>2 DEF StartProcess
  <2>3. CASE Attach(i) BY <1>2, <2>3 DEF Attach, ShowYourself
  <2>4. CASE Create(i) BY <1>2, <1>3, <2>4 DEF Create, Created, ShowYourself
  <2>5. CASE Exit(i) \/ Killed(i) BY <1>2, <2>5 DEF Exit, Killed, Gone
  <2> QED BY <2>1, <2>2, <2>3, <2>4, <2>5
<1>6. CASE TrayQuit \/ StartAppUpdate BY <1>1, <1>4, <1>6 DEF TrayQuit, StartAppUpdate
<1>7. CASE Loading \/ LoadThread \/ ModelSignals
  BY <1>1, <1>7 DEF Loading, LoadThread, ModelSignals, TraySelectModel, SettingsSaved, TrayLoadModel,
     TrayUnloadModel, RebuildLlmMenu, ModelGone, DeferredModelRetry, EnterLoad, EndLoad,
     ScheduleModelRetryIfNeeded, OnModelLoaded
<1>8. CASE Setup
  BY <1>1, <1>8 DEF Setup, CheckFirstRunDownloads, AnswerSetup, WorkerEnds, OnFinished,
     CancelDownload, RetryDownload
<1>9. CASE Updates
  BY <1>1, <1>9 DEF Updates, AutomaticCheck, AnHourPasses, RunSettingsUpdateAction, CheckerAnswers,
     OnUpdateAvailable, MaybeShowUpdatePopup, OnUpdateCheckFinished, SetTrayIcon, AnswerUpdate
<1>10. CASE HandlerGoesOn
  BY <1>1, <1>6, <1>10 DEF HandlerGoesOn, StartDownload, DownloadsDone, SetupSkipped, AnswerPopup
<1>11. CASE Welcome
  BY <1>1, <1>11 DEF Welcome, CheckWelcomeFlag, OnWelcomeCorrection, CloseWelcome, EndCorrection,
     OnWelcomeCorrectionFinished
<1>12. CASE Login BY <1>1, <1>12 DEF Login, UpdateStartupAction, ToggleStartup
<1> QED BY <1>5, <1>6, <1>7, <1>8, <1>9, <1>10, <1>11, <1>12 DEF AppNext

-----------------------------------------------------------------------------
(* The dialogs.                                                             *)

\* Stacks of dialogs on which "yes" waits nowhere but in a download below another dialog.
Resting(fs, below) ==
  \A f \in DOMAIN fs : fs[f].answer = "yes" => fs[f].kind = "download" /\ below

LEMMA PushRests ==
  ASSUME NEW fs \in Seq(Dialogs), NEW below, Resting(fs, below), NEW d \in Dialogs, d.answer # "yes"
  PROVE  Append(fs, d) \in Seq(Dialogs) /\ Resting(Append(fs, d), below)
<1>1. /\ Append(fs, d) \in Seq(Dialogs) /\ DOMAIN Append(fs, d) = DOMAIN fs \cup {Len(fs) + 1}
      /\ \A f \in DOMAIN fs : Append(fs, d)[f] = fs[f]
      /\ Append(fs, d)[Len(fs) + 1] = d
  OBVIOUS
<1> QED BY <1>1 DEF Resting

LEMMA OpenRests ==
  ASSUME DialogInv, Top.answer # "yes" PROVE Resting(frames, history.below)
<1>1. frames \in Seq(Dialogs) BY DEF DialogInv
<1>2. ASSUME NEW f \in DOMAIN frames, frames[f].answer = "yes"
      PROVE  frames[f].kind = "download" /\ history.below
  <2>1. frames # <<>> BY <1>1, <1>2
  <2>2. f # Len(frames) BY <1>2, <2>1 DEF Top
  <2> QED BY <1>2, <2>2 DEF DialogInv
<1> QED BY <1>2 DEF Resting

\* What is left when the dialog on top is gone.
LEMMA PopRests ==
  ASSUME DialogInv, frames # <<>>
  PROVE  Pop \in Seq(Dialogs) /\ Resting(Pop, history.below)
<1>1. frames \in Seq(Dialogs) /\ Len(frames) \in Nat \ {0} BY DEF DialogInv
<1>2. /\ Pop \in Seq(Dialogs) /\ DOMAIN Pop = 1..Len(frames) - 1
      /\ \A f \in DOMAIN Pop : Pop[f] = frames[f] /\ f \in DOMAIN frames /\ f # Len(frames)
  BY <1>1 DEF Pop
<1>3. ASSUME NEW f \in DOMAIN Pop, Pop[f].answer = "yes"
      PROVE  Pop[f].kind = "download" /\ history.below
  BY <1>2, <1>3 DEF DialogInv
<1> QED BY <1>2, <1>3 DEF Resting

LEMMA DeclinedRests ==
  ASSUME NEW fs \in Seq(Dialogs), NEW below, Resting(fs, below)
  PROVE  Declined(fs) \in Seq(Dialogs) /\ Resting(Declined(fs), below)
<1>1. Len(fs) \in Nat /\ DOMAIN fs = 1..Len(fs) OBVIOUS
<1>2. ASSUME NEW f \in DOMAIN fs
      PROVE  /\ Declined(fs)[f] \in Dialogs /\ Declined(fs)[f].kind = fs[f].kind
             /\ Declined(fs)[f].answer = "yes" => fs[f].answer = "yes"
  <2>1. fs[f] \in Dialogs BY <1>2
  <2> QED BY <2>1 DEF Declined, Dialogs
<1>3. DOMAIN Declined(fs) = 1..Len(fs) BY <1>1 DEF Declined
<1>4. Declined(fs) \in Seq(Dialogs)
  <2>1. PICK n \in Nat : n = Len(fs) BY <1>1
  <2>2. Declined(fs) \in [1..n -> Dialogs] BY <1>1, <1>2, <1>3, <2>1 DEF Declined
  <2> QED BY <2>1, <2>2
<1> QED BY <1>1, <1>2, <1>3, <1>4 DEF Resting

\* A step after which nobody has just said "yes".
LEMMA RestingStep ==
  ASSUME DialogInv, frames' \in Seq(Dialogs), Resting(frames', history'.below), updaters' = updaters,
         history.refused => history'.refused, Running' => Running, QuitIsFinal'
  PROVE  DialogInv'
BY DEF DialogInv, Resting, OneUpdater

\* A step that does not touch the dialogs.
LEMMA UntouchedStep ==
  ASSUME DialogInv, UNCHANGED <<frames, updaters>>, history.below => history'.below,
         history.refused => history'.refused, Running' => Running, Leaving' => Leaving,
         hotkeys' => hotkeys
  PROVE  DialogInv'
BY DEF DialogInv, QuitIsFinal, OneUpdater

\* The process that runs is not leaving.
LEMMA RunningStays == ASSUME InstanceInv, Running PROVE ~Leaving
BY DEF InstanceInv, OneInstance, Running, Leaving

\* What was on record stays on record, as long as the process is the same.
Recorded(h, later) == (h.below => later.below) /\ (h.refused => later.refused)

LEMMA RecordStays ==
  ASSUME RetryInv,
         Loading \/ LoadThread \/ ModelSignals \/ Setup \/ Updates \/ HandlerGoesOn \/ TrayQuit
           \/ Welcome \/ Login
  PROVE  Recorded(history, history')
<1>1. history \in Histories BY DEF RetryInv, RetryType
<1>2. \A end, left : Recorded(history, AfterCancel(end, left)) BY <1>1 DEF AfterCancel, Histories, Recorded
<1>3. ASSUME NEW end, Unload(end) PROVE Recorded(history, history')
  BY <1>1, <1>3 DEF Unload, Histories, Recorded
<1>13. history' = history => Recorded(history, history') BY DEF Recorded
<1> USE DEF modelVars
<1>5. CASE Loading
  <2>1. history' = [history EXCEPT !.auto = @ + 1] => Recorded(history, history')
    BY <1>1 DEF Histories, Recorded
  <2>2. CASE DeferredModelRetry BY <1>2, <1>13, <2>1, <2>2 DEF DeferredModelRetry
  <2> QED BY <1>2, <1>3, <1>5, <1>13, <2>2 DEF Loading, TraySelectModel, SettingsSaved, TrayLoadModel,
     TrayUnloadModel, RebuildLlmMenu, ModelGone, Reload
<1>6. CASE LoadThread \/ ModelSignals
  <2>1. history' = [history EXCEPT !.lastEnd = "loaded"] => Recorded(history, history')
    BY <1>1 DEF Histories, Recorded
  <2> QED BY <1>2, <1>3, <1>6, <1>13, <2>1 DEF LoadThread, ModelSignals, EnterLoad, EndLoad,
     ScheduleModelRetryIfNeeded, OnModelLoaded
<1>7. CASE OnFinished
  <2>1. PICK f \in DOMAIN frames : history' = [history EXCEPT !.below = @ \/ f < Len(frames)]
    BY <1>7 DEF OnFinished
  <2> QED BY <1>1, <2>1 DEF Histories, Recorded
<1>8. CASE Setup
  BY <1>7, <1>8, <1>13 DEF Setup, CheckFirstRunDownloads, AnswerSetup, WorkerEnds, CancelDownload, RetryDownload
<1>9. CASE Updates
  BY <1>9, <1>13 DEF Updates, AutomaticCheck, AnHourPasses, RunSettingsUpdateAction, CheckerAnswers,
     OnUpdateAvailable, MaybeShowUpdatePopup, OnUpdateCheckFinished, SetTrayIcon, AnswerUpdate
<1>4. LeaveOrNot => Recorded(history, history') BY <1>1 DEF LeaveOrNot, Histories, Recorded
<1>10. CASE HandlerGoesOn \/ TrayQuit
  BY <1>2, <1>4, <1>10, <1>13 DEF HandlerGoesOn, StartDownload, DownloadsDone, SetupSkipped, AnswerPopup,
     StartAppUpdate, TrayQuit, Quit, Reload
<1>11. CASE Welcome
  BY <1>11, <1>13 DEF Welcome, CheckWelcomeFlag, OnWelcomeCorrection, CloseWelcome, EndCorrection,
     OnWelcomeCorrectionFinished
<1>12. CASE Login BY <1>12, <1>13 DEF Login, UpdateStartupAction, ToggleStartup
<1> QED BY <1>5, <1>6, <1>8, <1>9, <1>10, <1>11, <1>12

LEMMA QuitStep ==
  ASSUME DialogInv, history \in Histories, NEW fs \in Seq(Dialogs), Resting(fs, history.below),
         Quit(fs), updaters' \in Nat, ~history.refused => updaters' \in {0, 1}
  PROVE  DialogInv'
<1>1. frames' \in Seq(Dialogs) /\ Resting(frames', history.below) BY DeclinedRests DEF Quit
<1>2. history'.below = history.below /\ (history.refused => history'.refused)
  BY DEF Quit, LeaveOrNot, Histories
<1>3. ~hotkeys' BY DEF Quit
<1>4. ~Running' \/ history'.refused
  <2>1. LeaveOrNot BY DEF Quit
  <2>2. CASE history' = [history EXCEPT !.lastEnd = "unloaded", !.refused = TRUE]
    BY <2>2 DEF Histories
  <2>3. CASE instances' = [i \in Instances |-> IF instances[i] = "up" THEN "leaving" ELSE instances[i]]
    BY <2>3 DEF Running
  <2> QED BY <2>1, <2>2, <2>3 DEF LeaveOrNot
<1> QED BY <1>1, <1>2, <1>3, <1>4 DEF DialogInv, Resting, QuitIsFinal, OneUpdater

LEMMA NewProcessStep ==
  ASSUME NothingYet, hotkeys' => ~Leaving' PROVE DialogInv'
<1>1. frames' = <<>> /\ updaters' = 0 BY DEF NothingYet
<1> QED BY <1>1 DEF DialogInv, QuitIsFinal, OneUpdater

LEMMA DialogLaunchStep == ASSUME DialogInv, InstanceInv, Launches PROVE DialogInv'
<1> USE DEF modelVars, setupVars, updateVars
<1>1. PICK i \in Instances : StartProcess(i) \/ Attach(i) \/ Create(i) \/ Exit(i) \/ Killed(i)
  BY DEF Launches
<1>2. instances \in [Instances -> {"off", "attach", "create", "up", "leaving"}] BY DEF InstanceInv
<1>3. ASSUME NEW s \in {"off", "attach", "create"}, instances' = [instances EXCEPT ![i] = s]
      PROVE  (Running' => Running) /\ (Leaving' => Leaving)
  BY <1>2, <1>3 DEF Running, Leaving
<1>4. CASE StartProcess(i) BY <1>3, <1>4, UntouchedStep DEF StartProcess
<1>5. CASE Attach(i) BY <1>3, <1>5, UntouchedStep DEF Attach, ShowYourself
<1>6. CASE Create(i)
  <2>1. CASE Created
    <3>1. instances' = [instances EXCEPT ![i] = "up"] /\ NothingYet
      BY <1>6, <2>1 DEF Create, Boot
    <3>2. ~Leaving' BY <1>2, <2>1, <3>1 DEF Created, Segment, Leaving
    <3> QED BY <3>1, <3>2, NewProcessStep
  <2>2. CASE ~Created BY <1>3, <1>6, <2>2, UntouchedStep DEF Create, ShowYourself
  <2> QED BY <2>1, <2>2
<1>7. CASE Exit(i) \/ Killed(i) BY <1>7, NewProcessStep DEF Exit, Killed, Gone
<1> QED BY <1>1, <1>4, <1>5, <1>6, <1>7

\* A dialog is answered "no", or a dialog that belongs to an updater or the setup "yes"
\* while the application runs.
LEMMA AnswerStep ==
  ASSUME DialogInv, InstanceInv, UNCHANGED <<instances, hotkeys, updaters>>, Running,
         history'.below = history.below, history'.refused = history.refused,
         Top.answer = "open", frames # <<>>, NEW a \in {"yes", "no"}, Answer(a)
  PROVE  DialogInv'
<1>1. frames \in Seq(Dialogs) /\ Len(frames) \in DOMAIN frames BY DEF DialogInv
<1>2. /\ frames' \in Seq(Dialogs) /\ DOMAIN frames' = DOMAIN frames /\ Len(frames') = Len(frames)
      /\ \A f \in DOMAIN frames : frames'[f].kind = frames[f].kind
      /\ \A f \in DOMAIN frames : f # Len(frames) => frames'[f] = frames[f]
  <2>1. PICK n \in DOMAIN frames : n = Len(frames) BY <1>1
  <2>2. frames[n] \in Dialogs BY <1>1, <2>1
  <2>3. PICK d : d = [frames[n] EXCEPT !.answer = a] OBVIOUS
  <2>4. d \in Dialogs /\ d.kind = frames[n].kind BY <2>2, <2>3 DEF Dialogs
  <2>5. frames' = [frames EXCEPT ![n] = d] BY <2>1, <2>3 DEF Answer
  <2> QED BY <1>1, <2>1, <2>4, <2>5
<1>3. (updaters = 0 \/ history.refused) /\ ~Leaving BY RunningStays DEF DialogInv, OneUpdater
<1>4. Running' /\ ~Leaving' /\ updaters' = updaters BY <1>3 DEF Running, Leaving
<1>5. Resting(frames, history.below) BY OpenRests
<1> QED BY <1>2, <1>3, <1>4, <1>5 DEF DialogInv, Resting, QuitIsFinal, OneUpdater

\* Another dialog opens, on top of those that are.
LEMMA PushStep ==
  ASSUME DialogInv, UNCHANGED <<instances, hotkeys, updaters, history>>, Top.answer # "yes",
         NEW kind \in {"setup", "popup", "confirm"}, frames' = Push(kind)
  PROVE  DialogInv'
<1>1. [kind |-> kind, answer |-> "open"] \in Dialogs BY DEF Dialogs
<1>2. frames \in Seq(Dialogs) BY DEF DialogInv
<1>3. frames' \in Seq(Dialogs) /\ Resting(frames', history.below)
  BY <1>1, <1>2, OpenRests, PushRests DEF Push
<1>4. (Running' => Running) /\ QuitIsFinal' BY DEF DialogInv, QuitIsFinal, Running, Leaving
<1> QED BY <1>3, <1>4, RestingStep

\* A handler goes on: its dialog is gone, and the next one may open in its place.
LEMMA PopStep ==
  ASSUME DialogInv, UNCHANGED <<instances, updaters>>, history'.below = history.below,
         history.refused => history'.refused, frames # <<>>,
         hotkeys' => hotkeys \/ history.below \/ ~Leaving,
         \/ frames' = Pop
         \/ \E kind \in {"download", "confirm", "warning"} :
              frames' = Append(Pop, [kind |-> kind, answer |-> "open"])
  PROVE  DialogInv'
<1>1. Pop \in Seq(Dialogs) /\ Resting(Pop, history.below) BY PopRests
<1>2. \A kind \in {"download", "confirm", "warning"} : [kind |-> kind, answer |-> "open"] \in Dialogs
  BY DEF Dialogs
<1>3. frames' \in Seq(Dialogs) /\ Resting(frames', history.below) BY <1>1, <1>2, PushRests
<1>4. (Running' => Running) /\ QuitIsFinal' BY DEF DialogInv, QuitIsFinal, Running, Leaving
<1> QED BY <1>3, <1>4, RestingStep

\* The download of a dialog has ended, which may be below another dialog.
LEMMA FinishedStep == ASSUME DialogInv, InstanceInv, history \in Histories, OnFinished PROVE DialogInv'
<1> USE DEF launchVars, updateVars
<1>1. PICK f \in DOMAIN frames :
        /\ frames[f] = [kind |-> "download", answer |-> "open"]
        /\ \/ \E a \in {"yes", "no"} : frames' = [frames EXCEPT ![f].answer = a]
           \/ UNCHANGED frames
        /\ history' = [history EXCEPT !.below = @ \/ f < Len(frames)]
  BY DEF OnFinished
<1>2. frames \in Seq(Dialogs) /\ Len(frames) \in Nat BY DEF DialogInv
<1>3. (history'.below <=> history.below \/ f < Len(frames)) /\ history'.refused = history.refused
  BY <1>1 DEF Histories
<1>4. UNCHANGED <<instances, hotkeys, updaters>> BY DEF OnFinished
<1>5. Running /\ Top.answer = "open" BY DEF OnFinished, Waiting
<1>6. ~Leaving /\ (updaters = 0 \/ history.refused) BY <1>5, RunningStays DEF DialogInv, OneUpdater
<1>7. ~Leaving' /\ Running' BY <1>4, <1>5, <1>6 DEF Running, Leaving
<1>8. CASE UNCHANGED frames
  BY <1>3, <1>4, <1>5, <1>7, <1>8, UntouchedStep
<1>9. ASSUME NEW a \in {"yes", "no"}, frames' = [frames EXCEPT ![f].answer = a] PROVE DialogInv'
  <2>1. /\ frames' \in Seq(Dialogs) /\ DOMAIN frames' = DOMAIN frames /\ Len(frames') = Len(frames)
        /\ frames'[f].kind = "download"
        /\ \A g \in DOMAIN frames : g # f => frames'[g] = frames[g]
    BY <1>1, <1>2, <1>9 DEF Dialogs
  <2>2. Resting(frames, history.below) BY <1>5, OpenRests
  <2>3. f = Len(frames) \/ f < Len(frames) BY <1>2
  <2> QED BY <1>3, <1>4, <1>6, <1>7, <2>1, <2>2, <2>3 DEF DialogInv, Resting, QuitIsFinal, OneUpdater
<1> QED BY <1>1, <1>8, <1>9

LEMMA SetupStep == ASSUME DialogInv, InstanceInv, history \in Histories, Setup PROVE DialogInv'
<1> USE DEF launchVars, updateVars, modelVars
<1>1. CASE UNCHANGED <<instances, frames, updaters, hotkeys, history>>
  BY <1>1, UntouchedStep DEF Running, Leaving
<1>2. CASE CheckFirstRunDownloads
  BY <1>1, <1>2, PushStep DEF CheckFirstRunDownloads, Waiting
<1>3. ASSUME NEW kind, kind # "none", Asked(kind)
      PROVE  Running /\ Top.answer = "open" /\ frames # <<>>
  BY <1>3 DEF Asked, Top
<1>4. CASE AnswerSetup BY <1>3, <1>4, AnswerStep DEF AnswerSetup
<1>5. CASE CancelDownload BY <1>1, <1>3, <1>5, AnswerStep DEF CancelDownload
<1> QED BY <1>1, <1>2, <1>4, <1>5, FinishedStep DEF Setup, WorkerEnds, RetryDownload

LEMMA UpdatesStep == ASSUME DialogInv, InstanceInv, Updates PROVE DialogInv'
<1> USE DEF launchVars, modelVars, setupVars
<1>1. CASE UNCHANGED <<instances, frames, updaters, hotkeys, history>>
  BY <1>1, UntouchedStep DEF Running, Leaving
<1>2. CASE RunSettingsUpdateAction
  BY <1>1, <1>2, PushStep DEF RunSettingsUpdateAction, Ask, Waiting
<1>3. CASE MaybeShowUpdatePopup
  BY <1>1, <1>3, PushStep DEF MaybeShowUpdatePopup, Signal, Waiting
<1>4. CASE AnswerUpdate
  <2>1. Running /\ Top.answer = "open" /\ frames # <<>> BY <1>4 DEF AnswerUpdate, Asked, Top
  <2> QED BY <1>4, <2>1, AnswerStep DEF AnswerUpdate, updateVars
<1> QED BY <1>1, <1>2, <1>3, <1>4 DEF Updates, AutomaticCheck, AnHourPasses, CheckerAnswers,
     OnUpdateAvailable, OnUpdateCheckFinished, SetTrayIcon

LEMMA HandlerStep ==
  ASSUME DialogInv, RetryInv, InstanceInv, HandlerGoesOn PROVE DialogInv'
<1> USE DEF launchVars, updateVars, modelVars
<1>1. history \in Histories BY DEF RetryInv, RetryType
<1>2. frames # <<>> BY DEF HandlerGoesOn, StartDownload, DownloadsDone, SetupSkipped, AnswerPopup,
     StartAppUpdate, GoesOn, Top
<1>3. CASE StartDownload \/ SetupSkipped \/ AnswerPopup
  BY <1>2, <1>3, PopStep DEF StartDownload, SetupSkipped, AnswerPopup, setupVars
<1>4. CASE DownloadsDone
  <2>1. history.below \/ ~Leaving
    <3>1. /\ Len(frames) \in DOMAIN frames /\ frames[Len(frames)].kind = "download"
          /\ frames[Len(frames)].answer = "yes"
      BY <1>2, <1>4 DEF DownloadsDone, GoesOn, Top, DialogInv
    <3> QED BY <3>1 DEF DialogInv
  <2>2. history'.below = history.below /\ history'.refused = history.refused
    BY <1>1, <1>4 DEF DownloadsDone, Reload, AfterCancel, Histories
  <2> QED BY <1>2, <1>4, <2>1, <2>2, PopStep DEF DownloadsDone
<1>5. CASE StartAppUpdate
  <2>1. CASE GoesOn("confirm", "yes") /\ updaters' = updaters + 1 /\ Quit(Pop)
    <3>1. /\ Len(frames) \in DOMAIN frames /\ frames[Len(frames)].kind = "confirm"
          /\ frames[Len(frames)].answer = "yes"
      BY <1>2, <2>1 DEF GoesOn, Top, DialogInv
    <3>2. updaters \in Nat /\ (updaters = 0 \/ history.refused) BY <3>1 DEF DialogInv
    <3> QED BY <1>1, <1>2, <2>1, <3>2, PopRests, QuitStep
  <2>2. CASE /\ frames' = Pop \/ frames' = Append(Pop, [kind |-> "warning", answer |-> "open"])
             /\ UNCHANGED <<instances, hotkeys, history, updaters>>
    BY <1>2, <2>2, PopStep
  <2> QED BY <1>5, <2>1, <2>2 DEF StartAppUpdate
<1> QED BY <1>3, <1>4, <1>5 DEF HandlerGoesOn

LEMMA DialogStep == ASSUME LifecycleInv, AppNext PROVE DialogInv'
<1> USE DEF LifecycleInv
<1>1. history \in Histories BY DEF RetryInv, RetryType
<1>2. ASSUME UNCHANGED <<instances, frames, updaters>>, Recorded(history, history'),
             hotkeys' => hotkeys \/ ~Leaving
      PROVE  DialogInv'
  <2>1. (Running' => Running) /\ (Leaving' => Leaving) BY <1>2 DEF Running, Leaving
  <2> QED BY <1>2, <2>1 DEF DialogInv, QuitIsFinal, OneUpdater, Recorded
<1>3. CASE TrayQuit
  <2>1. Top.answer = "open" /\ updaters' = updaters /\ Quit(frames)
    BY <1>3 DEF TrayQuit, Ask, Waiting
  <2>2. /\ updaters' \in Nat /\ frames \in Seq(Dialogs)
        /\ ~history.refused => updaters' \in {0, 1}
    BY <2>1 DEF DialogInv, OneUpdater
  <2> QED BY <1>1, <2>1, <2>2, OpenRests, QuitStep
<1>4. CASE Loading \/ LoadThread \/ ModelSignals
  <2>1. Recorded(history, history') BY <1>4, RecordStays
  <2>2. CASE SettingsSaved
    <3>1. ~Leaving BY <2>2, RunningStays DEF SettingsSaved, Ask, Waiting
    <3> QED BY <1>2, <2>1, <2>2, <3>1 DEF SettingsSaved, launchVars, updateVars
  <2>3. CASE UNCHANGED <<launchVars, setupVars, updateVars>>
    BY <1>2, <2>1, <2>3 DEF launchVars, setupVars, updateVars
  <2> QED BY <1>4, <2>2, <2>3 DEF Loading, LoadThread, ModelSignals, TraySelectModel, TrayLoadModel,
     TrayUnloadModel, RebuildLlmMenu, ModelGone, DeferredModelRetry, EnterLoad, EndLoad,
     ScheduleModelRetryIfNeeded, OnModelLoaded
<1>5. CASE Welcome \/ Login
  <2>1. UNCHANGED <<instances, setupVars, updateVars, modelVars>>
    BY <1>5 DEF Welcome, Login, CheckWelcomeFlag, OnWelcomeCorrection, CloseWelcome, EndCorrection,
       OnWelcomeCorrectionFinished, UpdateStartupAction, ToggleStartup, launchVars
  <2> QED BY <1>2, <2>1 DEF setupVars, updateVars, modelVars, Recorded
<1> QED BY <1>1, <1>3, <1>4, <1>5, DialogLaunchStep, SetupStep, UpdatesStep, HandlerStep DEF AppNext

-----------------------------------------------------------------------------
LEMMA LifecycleStep == LifecycleInv /\ [AppNext]_appVars => LifecycleInv'
<1> SUFFICES ASSUME LifecycleInv, [AppNext]_appVars PROVE LifecycleInv'
  OBVIOUS
<1>1. CASE AppNext BY <1>1, RetryStep, WelcomeStep, InstanceStep, DialogStep DEF LifecycleInv
<1>2. CASE UNCHANGED appVars
  <2>1. UNCHANGED <<instances, frames, updaters, hotkeys, history, model, loads, statuses, retry, timers,
                    welcome, corrections>>
    BY <1>2 DEF appVars, launchVars, setupVars, updateVars, modelVars, welcomeVars
  <2>2. RetryInv' BY <2>1 DEF LifecycleInv, RetryInv, RetryType
  <2>3. WelcomeInv' BY <2>1 DEF LifecycleInv, WelcomeInv, CorrectingIsTrue
  <2>4. InstanceInv' BY <2>1 DEF LifecycleInv, InstanceInv, OneInstance
  <2>5. DialogInv' BY <2>1, UntouchedStep DEF LifecycleInv, Running, Leaving
  <2> QED BY <2>2, <2>3, <2>4, <2>5 DEF LifecycleInv
<1> QED BY <1>1, <1>2

LEMMA LifecycleInit == AppInit => LifecycleInv
<1> SUFFICES ASSUME AppInit PROVE LifecycleInv
  OBVIOUS
<1>1. RetryInv
  <2>1. /\ model = "none" /\ loads = 0 /\ statuses = <<>> /\ timers = 0 /\ MaxRetries \in Nat
        /\ retry = [scheduled |-> FALSE, count |-> 0]
        /\ history = NoHistory
    BY LifecycleAssumption DEF AppInit, CancelledRetry
  <2>2. history \in Histories /\ history.lastEnd = "none" /\ history.auto = 0 /\ history.stale = 0
    BY <2>1 DEF NoHistory, Histories, Ends
  <2>3. RetryType BY <2>1, <2>2 DEF RetryType, ModelStates
  <2> QED BY <2>1, <2>2, <2>3 DEF RetryInv
<1>2. WelcomeInv BY DEF AppInit, WelcomeInv, CorrectingIsTrue
<1>3. InstanceInv BY DEF AppInit, InstanceInv, OneInstance
<1>4. DialogInv BY DEF AppInit, DialogInv, QuitIsFinal, OneUpdater
<1> QED BY <1>1, <1>2, <1>3, <1>4 DEF LifecycleInv

\* The invariant that carries both properties: the bookkeeping of retries, the processes,
\* and where in a stack of dialogs an answer can wait (app.py:706, main.py:150).
THEOREM LifecycleInvariant == AppSpec => []LifecycleInv
<1> QED BY LifecycleInit, LifecycleStep, PTL DEF AppSpec

\* Whatever is cancelled, asked for or reported late: a model that failed to load in words
\* the retry knows is tried again up to the limit and not beyond, and a correction the
\* welcome window waits for is still to come (app.py:710, app.py:2878).
THEOREM NothingInVain == AppSpec => []NothingWaitsInVain
<1>1. LifecycleInv => NothingWaitsInVain
  <2> SUFFICES ASSUME LifecycleInv PROVE NothingWaitsInVain
    OBVIOUS
  <2>1. RetryInv /\ RetryType /\ CorrectingIsTrue BY DEF LifecycleInv, RetryInv, WelcomeInv
  <2>2. NoLostRetry BY <2>1 DEF NoLostRetry, NothingPending, RetryInv
  <2>3. AutoBounded
    <3>1. /\ history.auto \in Nat /\ history.stale \in Nat /\ timers \in Nat
          /\ retry.count \in 0..MaxRetries /\ MaxRetries \in Nat
          /\ history.auto + timers <= retry.count + history.stale
      BY <2>1, LifecycleAssumption DEF RetryType, RetryInv, Histories
    <3> QED BY <3>1 DEF AutoBounded
  <2> QED BY <2>1, <2>2, <2>3 DEF NothingWaitsInVain
<1> QED BY <1>1, LifecycleInvariant, PTL

\* One process at a time owns the desktop: a second start gives way, the first makes way
\* for at most one updater, and a process that leaves takes its hotkeys back for no dialog
\* it still has to go on with - where Qt did not refuse to quit (main.py:150, app.py:3536).
THEOREM DesktopHandedOver == AppSpec => []HandsOver
<1>1. LifecycleInv => HandsOver
  BY DEF LifecycleInv, InstanceInv, DialogInv, HandsOver
<1> QED BY <1>1, LifecycleInvariant, PTL
=============================================================================
