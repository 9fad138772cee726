----------------------------- MODULE Installation -----------------------------
(***************************************************************************)
(* The install directory of Stet on Windows and the programs that write    *)
(* it: the installer (windows_installer_payload.py), the updater           *)
(* (update.py), the uninstaller (uninstall.py), the first-run download of  *)
(* the engine and the model (app.py, ui/downloader.py) and the             *)
(* application saving its settings (core/config.py).  One of them works at *)
(* a time, and a step ends wherever the process could be stopped with      *)
(* something different on the disk: the machine may go down, and the       *)
(* wizard's Cancel terminates the worker thread the same way.              *)
(*                                                                         *)
(* A file is what it holds: a version of the program, a truncated file, a  *)
(* payload other than the published one, the settings of the user.  The    *)
(* published release is "new".  owed, unsigned and jobs are history.       *)
(***************************************************************************)
EXTENDS Naturals, Sequences, FiniteSets, SequencesExt

CONSTANTS
    Files,    \* the files of the application; "VERSION" is one of them
    Models,   \* the model files that are downloaded
    MaxJobs   \* bound: jobs started

ASSUME InstallationAssumption ==
    /\ "VERSION" \in Files /\ IsFiniteSet(Models)
    /\ Models \cap Files = {}
    /\ (Models \cup Files) \cap {"llama_zip", "cuda_zip", "llama", "cuda", "config"} = {}
    /\ MaxJobs \in Nat

VARIABLES
    disk,       \* what each file of the install directory holds; "none" is no file
    tmp,        \* the temporary names that exist: .updating, .tmp, StetUpdate_*
    registered, \* the entry under Add/Remove Programs, which the uninstaller reads
    job,        \* the program at work, where it is and what it has left to do
    result,     \* how the last job ended
    unsigned,   \* history: whether an update ever went on without a published hash
    owed,       \* history: the user has settings that every start so far could read, and
                \* has not asked for their removal
    jobs        \* jobs started so far

vars == <<disk, tmp, registered, job, result, unsigned, owed, jobs>>

Engine == <<"llama_zip", "cuda_zip">>
Folder == [llama_zip |-> "llama", cuda_zip |-> "cuda"]
Archives == DOMAIN Folder
Names == Files \cup Models \cup Archives \cup {"config", "llama", "cuda"}
Contents == {"none", "old", "new", "bad", "torn", "user"}

\* The archives of installer and release hold the program and a default config.json.
Payload == Files \cup {"config"}

Kinds == {"none", "update", "install", "firstrun", "save", "uninstall"}
Pcs == {"idle", "fetch", "verify", "stage", "copy", "replace", "validate", "extract", "extracting",
        "next", "get", "rename", "unpack", "unpacking", "configuring", "register",
        "write", "moving", "overwriting", "remove", "cleanup"}
Options == {"allow_unsigned", "backend", "model", "start", "user", "purge"}

Jobs == [kind: Kinds, pc: Pcs, opt: SUBSET Options, todo: SUBSET Names,
         list: Seq(Archives \cup Models), cur: Names \cup {"none"}, cargo: Contents]

Idle == [kind |-> "none", pc |-> "idle", opt |-> {}, todo |-> {}, list |-> <<>>, cur |-> "none",
         cargo |-> "new"]

Exists(f) == disk[f] /= "none"
At(pc) == job.pc = pc
Goto(pc) == job' = [job EXCEPT !.pc = pc]

Begin(kind, pc, opt, list) ==
    /\ job = Idle /\ jobs < MaxJobs
    /\ jobs' = jobs + 1 /\ result' = "none"
    /\ job' = [Idle EXCEPT !.kind = kind, !.pc = pc, !.opt = opt, !.list = list]

End(r) == job' = Idle /\ result' = r
StepDone == UNCHANGED <<result, unsigned, jobs>>

\* Before the first installation, or with the previous release installed and used.
Init ==
    /\ \/ disk = [f \in Names |-> "none"] /\ owed = FALSE
       \/ /\ disk = [f \in Names |-> CASE f \in Files -> "old"
                                       [] f = "config" -> "user"
                                       [] f \in {"llama_zip", "cuda_zip"} -> "none"
                                       [] OTHER -> "new"]
          /\ owed = TRUE
    /\ registered = owed
    /\ tmp = {} /\ job = Idle /\ result = "none" /\ unsigned = FALSE /\ jobs = 0

-------------------------------------------------------------------------------
(* The updater.                                                             *)

StartUpdate(allow) ==
    /\ \A f \in Files: Exists(f)
    /\ Begin("update", "fetch", allow, <<>>)
    /\ UNCHANGED <<disk, tmp, registered, unsigned, owed>>

\* No answer, a malformed tag or no asset fails; a VERSION no older than the release ends
\* the update as a success; otherwise the asset goes to a fresh temporary directory.
UpdateFetch ==
    /\ At("fetch")
    /\ \/ End("failed") /\ UNCHANGED tmp
       \/ disk["VERSION"] = "new" /\ End("latest") /\ UNCHANGED tmp
       \/ /\ disk["VERSION"] /= "new"
          /\ \E payload \in {"new", "bad"}: job' = [job EXCEPT !.pc = "verify", !.cargo = payload]
          /\ tmp' = tmp \cup {"StetUpdate"} /\ UNCHANGED result
    /\ UNCHANGED <<unsigned, jobs, disk, registered, owed>>

UpdateFails == End("failed") /\ tmp' = tmp \ {"StetUpdate"}

\* Whether the hash of the payload published for the asset (if any) is that of the file.
Verified(sums) == sums = "listed" /\ job.cargo = "new"

\* The download may break off; a mismatch is always fatal, a missing entry or file only
\* without --allow-unsigned.
UpdateVerify ==
    /\ At("verify")
    /\ \/ UpdateFails /\ UNCHANGED unsigned
       \/ \E sums \in {"listed", "absent"}:
             \/ /\ Verified(sums)
                /\ Goto("stage") /\ UNCHANGED <<tmp, result, unsigned>>
             \/ /\ sums = "absent" /\ "allow_unsigned" \in job.opt
                /\ Goto("stage") /\ unsigned' = TRUE /\ UNCHANGED <<tmp, result>>
             \/ /\ ~Verified(sums) /\ ~(sums = "absent" /\ "allow_unsigned" \in job.opt)
                /\ UpdateFails /\ UNCHANGED unsigned
    /\ UNCHANGED <<disk, registered, owed, jobs>>

\* An archive with an unsafe path, or without Stet.exe, is refused before anything is copied.
UpdateStage ==
    /\ At("stage")
    /\ \/ End("failed") /\ tmp' \in {tmp, tmp \ {"StetUpdate"}}
       \/ job' = [job EXCEPT !.pc = "copy", !.todo = Payload] /\ UNCHANGED <<tmp, result>>
    /\ UNCHANGED <<unsigned, jobs, disk, registered, owed>>

Skipped(f) == f \in Models \cup {"config"}

\* Mutant of UpdateCopy: the file is written in place.
CopyInPlace ==
    /\ At("copy")
    /\ \E f \in job.todo:
          /\ job' = [job EXCEPT !.todo = @ \ {f}, !.cur = f, !.pc = IF Skipped(f) THEN @ ELSE "replace"]
          /\ disk' = IF Skipped(f) THEN disk ELSE [disk EXCEPT ![f] = "torn"]
    /\ UNCHANGED <<unsigned, jobs, tmp, result, registered, owed>>

\* A file is written beside its destination; a permission error ends the update where it is.
UpdateCopy ==
    /\ At("copy")
    /\ \E f \in job.todo:
          \/ /\ Skipped(f)
             /\ job' = [job EXCEPT !.todo = @ \ {f}] /\ UNCHANGED <<tmp, result>>
          \/ /\ ~Skipped(f)
             /\ \/ /\ tmp' = tmp \cup {f} /\ UNCHANGED result
                   /\ job' = [job EXCEPT !.todo = @ \ {f}, !.pc = "replace", !.cur = f]
                \/ End("failed") /\ tmp' \in {tmp \ {f}, tmp \ {"StetUpdate", f}}
    /\ UNCHANGED <<unsigned, jobs, disk, registered, owed>>

\* os.replace; the file beside stays when it is refused.
UpdateReplace ==
    /\ At("replace")
    /\ \/ /\ disk' = [disk EXCEPT ![job.cur] = job.cargo] /\ tmp' = tmp \ {job.cur}
          /\ Goto("copy") /\ UNCHANGED result
       \/ UpdateFails /\ UNCHANGED disk
    /\ UNCHANGED <<unsigned, jobs, registered, owed>>

UpdateDone ==
    /\ At("copy") /\ job.todo = {}
    /\ End("updated") /\ tmp' = tmp \ {"StetUpdate"}
    /\ UNCHANGED <<unsigned, jobs, disk, registered, owed>>

-------------------------------------------------------------------------------
(* The installer.                                                           *)

\* The archive is checked as a whole; an existing config.json is left out of the members.
StartInstall(wanted) ==
    /\ Begin("install", "validate", wanted, <<>>)
    /\ UNCHANGED <<disk, tmp, registered, unsigned, owed>>

\* Mutant of Members: the archive is extracted whole.
MembersAll == Payload

Members == IF Exists("config") THEN Payload \ {"config"} ELSE Payload

InstallValidate ==
    /\ At("validate")
    /\ \/ End("error")
       \/ job' = [job EXCEPT !.pc = "extract", !.todo = Members] /\ UNCHANGED result
    /\ UNCHANGED <<unsigned, jobs, disk, tmp, registered, owed>>

\* zf.extract truncates the file before it writes it.
InstallExtract ==
    /\ At("extract")
    /\ \E f \in job.todo:
          \/ /\ disk' = [disk EXCEPT ![f] = "torn"] /\ UNCHANGED result
             /\ job' = [job EXCEPT !.pc = "extracting", !.todo = @ \ {f}, !.cur = f]
          \/ End("error") /\ UNCHANGED disk
    /\ UNCHANGED <<unsigned, jobs, tmp, registered, owed>>

InstallExtracted ==
    /\ At("extracting")
    /\ \/ disk' = [disk EXCEPT ![job.cur] = "new"] /\ Goto("extract") /\ UNCHANGED result
       \/ End("error") /\ UNCHANGED disk
    /\ UNCHANGED <<unsigned, jobs, tmp, registered, owed>>

\* The engine is downloaded unless llama-server.exe is there, each model unless its file is.
InstallDownloads ==
    /\ At("extract") /\ job.todo = {}
    /\ job' = [job EXCEPT !.pc = "next",
                          !.list = (IF "backend" \in job.opt /\ ~Exists("llama") THEN Engine ELSE <<>>)
                                   \o (IF "model" \in job.opt
                                       THEN SetToSeq({m \in Models: ~Exists(m)}) ELSE <<>>)]
    /\ StepDone /\ UNCHANGED <<disk, tmp, registered, owed>>

\* The paths chosen go into config.json, which is opened for writing over the old one.
\* One that cannot be read, or opened for writing, is left alone.
InstallConfigure ==
    /\ At("next") /\ job.kind = "install" /\ job.list = <<>>
    /\ \/ /\ job.opt /= {} /\ disk["config"] \in {"new", "user"}
          /\ disk' = [disk EXCEPT !["config"] = "torn"]
          /\ job' = [job EXCEPT !.pc = "configuring", !.cargo = disk["config"]]
       \/ Goto("register") /\ UNCHANGED disk
    /\ StepDone /\ UNCHANGED <<tmp, registered, owed>>

\* An error while it is written is logged, and the installation goes on.
InstallConfigured ==
    /\ At("configuring")
    /\ \/ disk' = [disk EXCEPT !["config"] = job.cargo] /\ UNCHANGED owed
       \/ owed' = FALSE /\ UNCHANGED disk
    /\ Goto("register") /\ StepDone /\ UNCHANGED <<tmp, registered>>

\* A registry that refuses only warns.
InstallRegister ==
    /\ At("register")
    /\ \/ registered' \in {registered, TRUE} /\ End("installed")
       \/ UNCHANGED registered /\ End("error")
    /\ UNCHANGED <<unsigned, jobs, disk, tmp, owed>>

-------------------------------------------------------------------------------
(* Downloads: of the installer, and of the first run of the application.    *)

\* What the application asks for when the engine or the model is missing: the engine if it
\* is, the models if the box is checked.
StartFirstRun(withModel) ==
    /\ \A f \in Files: disk[f] \in {"old", "new"}
    /\ withModel => \E m \in Models: ~Exists(m)
    /\ ~Exists("llama") \/ withModel
    /\ Begin("firstrun", "next", {},
             (IF Exists("llama") THEN <<>> ELSE Engine) \o (IF withModel THEN SetToSeq(Models) ELSE <<>>))
    /\ UNCHANGED <<disk, tmp, registered, unsigned, owed>>

DownloadFails == End("failed") /\ tmp' = tmp \ {job.cur}

DownloadNext ==
    /\ At("next") /\ job.list /= <<>>
    /\ job' = [job EXCEPT !.pc = "get", !.cur = Head(job.list), !.list = Tail(@)]
    /\ tmp' = tmp \cup {Head(job.list)}
    /\ StepDone /\ UNCHANGED <<disk, registered, owed>>

\* Mutant of DownloadCheck: the file is written under its final name.
DownloadInPlace ==
    /\ At("get")
    /\ \/ DownloadFails /\ UNCHANGED disk
       \/ /\ Goto("rename") /\ disk' = [disk EXCEPT ![job.cur] = "torn"]
          /\ UNCHANGED <<tmp, result>>
    /\ UNCHANGED <<unsigned, jobs, registered, owed>>

\* What arrives may be cut short, cancelled or not the published file; the file it
\* replaces goes first.
DownloadCheck ==
    /\ At("get")
    /\ \/ DownloadFails /\ UNCHANGED disk
       \/ /\ Goto("rename") /\ disk' = [disk EXCEPT ![job.cur] = "none"]
          /\ UNCHANGED <<tmp, result>>
    /\ UNCHANGED <<unsigned, jobs, registered, owed>>

\* Only the installer says where an archive is to be extracted.
Extracts == job.kind = "install" /\ job.cur \in Archives

DownloadRename ==
    /\ At("rename")
    /\ \/ /\ disk' = [disk EXCEPT ![job.cur] = "new"] /\ tmp' = tmp \ {job.cur}
          /\ Goto(IF Extracts THEN "unpack" ELSE "next") /\ UNCHANGED result
       \/ DownloadFails /\ UNCHANGED disk
    /\ UNCHANGED <<unsigned, jobs, registered, owed>>

DownloadUnpack ==
    /\ At("unpack")
    /\ disk' = [disk EXCEPT ![Folder[job.cur]] = "torn"]
    /\ Goto("unpacking") /\ StepDone /\ UNCHANGED <<tmp, registered, owed>>

DownloadUnpacked ==
    /\ At("unpacking")
    /\ \/ /\ disk' = [disk EXCEPT ![Folder[job.cur]] = "new", ![job.cur] = "none"]
          /\ Goto("next") /\ UNCHANGED result
       \/ End("error") /\ UNCHANGED disk
    /\ UNCHANGED <<unsigned, jobs, tmp, registered, owed>>

FirstRunDone ==
    /\ At("next") /\ job.kind = "firstrun" /\ job.list = <<>>
    /\ End("fetched")
    /\ UNCHANGED <<unsigned, jobs, disk, tmp, registered, owed>>

-------------------------------------------------------------------------------
(* The settings (ConfigManager of core/config.py).                         *)

\* The application starts without readable settings: there is no file, a torn one, or a
\* whole one whose reading failed.  The defaults are saved over it (the file is copied aside
\* first, unless that fails as well), so a start gives up what it could not read.  Or the
\* user changes a setting.
StartSave(by) ==
    /\ \A f \in Files: disk[f] \in {"old", "new"}
    /\ Begin("save", "write", {by}, <<>>)
    /\ owed' = (owed /\ by = "user")
    /\ UNCHANGED <<disk, tmp, registered, unsigned>>

\* The settings are written beside the file and moved over it.  Where Windows denies that
\* five times they are written over the file itself; what was written beside it stays.
SaveWrite ==
    /\ At("write")
    /\ \/ Goto("moving") /\ tmp' = tmp \cup {"config"} /\ UNCHANGED result
       \/ End("failed") /\ UNCHANGED tmp
    /\ UNCHANGED <<unsigned, jobs, disk, registered, owed>>

Saved == [disk EXCEPT !["config"] = IF job.opt = {"start"} THEN "new" ELSE "user"]

SaveMove ==
    /\ At("moving")
    /\ \/ /\ disk' = Saved /\ tmp' = tmp \ {"config"} /\ End("saved")
          /\ owed' = (owed \/ job.opt = {"user"})
       \/ End("failed") /\ tmp' = tmp \ {"config"} /\ UNCHANGED <<disk, owed>>
       \/ /\ disk' = [disk EXCEPT !["config"] = "torn"] /\ Goto("overwriting")
          /\ UNCHANGED <<tmp, result, owed>>
    /\ UNCHANGED <<registered, unsigned, jobs>>

SaveOverwritten ==
    /\ At("overwriting")
    /\ \/ /\ disk' = Saved /\ owed' = (owed \/ job.opt = {"user"})
          /\ End("saved") /\ UNCHANGED tmp
       \/ End("failed") /\ owed' = FALSE /\ tmp' = tmp \ {"config"} /\ UNCHANGED disk
    /\ UNCHANGED <<registered, unsigned, jobs>>

-------------------------------------------------------------------------------
(* The uninstaller.                                                         *)

StartUninstall(purge) ==
    /\ registered
    /\ Begin("uninstall", "remove", purge, <<>>)
    /\ owed' = (owed /\ purge = {})
    /\ UNCHANGED <<disk, tmp, registered, unsigned>>

Preserved(f) == f \in Models \cup {"config"} /\ job.opt = {}

\* What a removal leaves: nothing, all of it where it is in use, or part of a folder.
Leftovers(f) == {"none", disk[f]} \cup IF f \in {"llama", "cuda"} THEN {"torn"} ELSE {}

\* Every item of the directory in some order; a refusal is passed over.
UninstallRemove ==
    /\ At("remove")
    /\ \/ \E f \in {g \in Names \ job.todo: Exists(g) /\ ~Preserved(g)}:
             /\ job' = [job EXCEPT !.todo = @ \cup {f}]
             /\ \E left \in Leftovers(f): disk' = [disk EXCEPT ![f] = left]
       \/ /\ \A f \in Names \ job.todo: ~Exists(f) \/ Preserved(f)
          /\ Goto("cleanup") /\ UNCHANGED disk
    /\ StepDone /\ UNCHANGED <<tmp, registered, owed>>

\* The batch file deletes the shortcuts and the registry entries, and with --purge the
\* directory; without it only an empty directory goes.
UninstallCleanup ==
    /\ At("cleanup")
    /\ registered' = FALSE
    /\ IF job.opt = {} THEN UNCHANGED <<disk, tmp>>
                       ELSE disk' = [f \in Names |-> "none"] /\ tmp' = tmp \cap {"StetUpdate"}
    /\ End("removed")
    /\ UNCHANGED <<unsigned, jobs, owed>>

-------------------------------------------------------------------------------
\* The process is killed, the machine goes down, or Cancel terminates the worker.  The
\* settings are lost where they were being written over.
Overwriting == job.pc \in {"configuring", "overwriting"}

Crash ==
    /\ job /= Idle
    /\ End("crashed")
    /\ owed' = (owed /\ ~Overwriting)
    /\ UNCHANGED <<disk, tmp, registered, unsigned, jobs>>

Start ==
    \/ \E allow \in SUBSET {"allow_unsigned"}: StartUpdate(allow)
    \/ \E wanted \in SUBSET {"backend", "model"}: StartInstall(wanted)
    \/ \E withModel \in BOOLEAN: StartFirstRun(withModel)
    \/ \E by \in {"start", "user"}: StartSave(by)
    \/ \E purge \in SUBSET {"purge"}: StartUninstall(purge)

Work ==
    \/ UpdateFetch \/ UpdateVerify \/ UpdateStage \/ UpdateCopy \/ UpdateReplace \/ UpdateDone
    \/ InstallValidate \/ InstallExtract \/ InstallExtracted \/ InstallDownloads
    \/ InstallConfigure \/ InstallConfigured \/ InstallRegister
    \/ DownloadNext \/ DownloadCheck \/ DownloadRename \/ DownloadUnpack \/ DownloadUnpacked
    \/ FirstRunDone
    \/ SaveWrite \/ SaveMove \/ SaveOverwritten
    \/ UninstallRemove \/ UninstallCleanup

Next == Start \/ Work \/ Crash

\* A program at work goes on: its network reads and its waits have timeouts.
Spec == Init /\ [][Next]_vars /\ WF_vars(Work)

-------------------------------------------------------------------------------
TypeOK ==
    /\ disk \in [Names -> Contents]
    /\ tmp \subseteq Names \cup {"StetUpdate"}
    /\ registered \in BOOLEAN /\ unsigned \in BOOLEAN /\ owed \in BOOLEAN
    /\ job \in Jobs
    /\ job.pc \in {"get", "rename"} => job.cur \in Archives \cup Models
    /\ job.pc \in {"unpack", "unpacking"} => job.cur \in Archives
    /\ jobs \in 0..MaxJobs

\* An update writes the files of the application only, and each of them from one whole
\* version to the next: whenever it is stopped, no file is cut short and the settings and
\* models are as they were (_copy_file_atomic and _should_skip_update_file of update.py).
UpdateReplacesWholeFiles ==
    [][job.kind = "update" =>
          \A f \in Names: disk'[f] /= disk[f] => f \in Files /\ disk'[f] = job.cargo]_vars

\* A payload whose hash is not the published one reaches the install directory only through
\* an update that was told to go on without one (F-1 in update_app).
VerifiedOnly == unsigned \/ \A f \in Names: disk[f] /= "bad"

\* Settings the user made outlive every sequence of installations, updates, starts and
\* uninstallations without --purge, whatever stops them, with two exceptions: a stop (or an
\* error) while config.json is being written over in place, and a start of the application
\* that fails to read the whole file and saves the defaults over it (config.py:121-142).
SettingsSurvive == owed => disk["config"] = "user" \/ Overwriting

\* A model under its final name is a complete, verified file: the installer skips the
\* download and the application loads it on that evidence alone.
NamedModelIsWhole == \A m \in Models: disk[m] \in {"none", "new"}

\* What app.py:3018 tells the user: the first run downloads the engine.  The archives are
\* never extracted.
FirstRunBringsEngine == result = "fetched" => Exists("llama")

\* What update.py:261 says True means.
LatestMeansWhole == result = "latest" => \A f \in Files: disk[f] \in {"new", "bad"}
===============================================================================
