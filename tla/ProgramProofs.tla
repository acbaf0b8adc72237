---------------------------- MODULE ProgramProofs ----------------------------
(***************************************************************************)
(* A whole use of the program, for all package configurations, plan files,  *)
(* warnings and capacities: what is saved, generated and installed.         *)
(***************************************************************************)
EXTENDS Program, StartupProofs, FiniteSetTheorems

(***************************************************************************)
(* The inductive invariant.                                                 *)
(***************************************************************************)
EarlySteps  == {"config", "asking", "defaults", "paths", "load", "loaded", "validate",
                "detect", "capture", "inventory"}
BuilderEnds == {"session", "bash", "generated", "exit"}
Finals      == {"refused_early", "refused_late", "failed", "finished"}

(* What is in memory and on disk, by what has been done so far.  A script   *)
(* was generated from settings that passed validate_plan; its path and that *)
(* of the plan are one directory entry only where it is mounted twice.      *)
PlansInMemory ==
    [disks : Nat, partitions : Nat, mode : Int, size : Int, number : Int, usage : Int,
     text : {"", "short", "cut"}, system : Settings]

FilesInv ==
    /\ at \in EarlySteps \cup BuilderEnds \cup Steps \cup Finals
    /\ mode \in {"tui", "generate"} /\ dirty \in BOOLEAN /\ changes \in 0 .. MaxChanges
    /\ config.kind \in {"absent", "special", "broken", "packages"}
    /\ packages.kind \in {"absent", "packages"}
    /\ paths \in PathRelations \ {"same", "spelled"}
    /\ plan \in PlansInMemory
    /\ plan_file.kind \in {"absent", "plan", "script"}
    /\ script_file.kind \in {"absent", "plan", "script"}
    /\ PlanOutlivesScript

ScriptInv ==
    /\ script_file.kind = "script" => script_file.settings \in Settings /\ ValidSettings(script_file.settings)
    /\ at \in Steps \cup Finals => script_file.kind = "script"

(* Whoever is about to save the defaults has found nothing or was told yes. *)
AgreedInv ==
    /\ overwritten \in BOOLEAN /\ answer \in {"none", "yes", "no"}
    /\ at = "config" => seen = NoFile
    /\ at \in {"config", "asking", "defaults"} => ~overwritten
    /\ at = "defaults" => answer = "yes" \/ seen = NoFile
    /\ PackageFileReplacedOnlyWhenAgreed

LoadedInv ==
    /\ at = "load" => plan_file = NoFile \/ \E file \in PlanFiles : plan_file = PlanOf(file)
    /\ at = "loaded" => \E file \in PlanFiles :
          plan_file = PlanOf(file) /\ Accepted(file) /\ plan = Loaded(file)

(* The inventory is that of a call that ended well. *)
DetectedInv ==
    at = "inventory" => /\ parent = "done" /\ result = "exit_0"
                        /\ devices \in DeviceTrees /\ inventory = Detected(devices)

DialogInv ==
    \/ dialog = NoDialog
    \/ dialog \in [kind : {"list"}, count : Nat, offset : Nat] /\ ListInView(dialog)
    \/ dialog \in [kind : {"choice"}, count : Nat, selected : Nat] /\ ChoiceInView(dialog)
    \/ /\ dialog \in [kind : {"text"}, field : {"identity"}, length : Nat, cursor : Nat, edited : BOOLEAN]
       /\ TextInView(dialog)
    \/ \E question \in Trusting \cup {"run", "quit"}, yes \in BOOLEAN :
          \E message \in Warnings[question] :
             dialog = [kind |-> "confirm", question |-> question, message |-> message, yes |-> yes]

(* The steps and the end that lie behind each installation.                 *)
BehindBase     == ChrootSteps \cup {"finished"}
BehindCore     == BehindBase \ {"identity", "core"}
BehindDrivers  == BehindCore \ {"drivers"}
BehindDesktop  == BehindDrivers \ {"desktop"}
BehindFonts    == BehindDesktop \ {"fonts"}
BehindOptional == BehindFonts \ {"optional"}

GroupsBefore(step, s) ==
    Only(step \in BehindBase, BaseGroups(s)) \cup Only(step \in BehindCore, CoreGroups(s))
    \cup Only(step \in BehindDrivers, DriverGroups(s)) \cup Only(step \in BehindDesktop, DesktopGroups(s))
    \cup Only(step \in BehindFonts, {"fonts"}) \cup Only(step \in BehindOptional, OptionalGroups(s))

(* The target at each step: what was installed, that nothing unknown to     *)
(* pacman is left once the disks may be erased, and what the loader has.    *)
InstalledInv == at \in Steps \cup {"finished"} => installed = GroupsBefore(at, System) \ Empty
ResolvedInv ==
    /\ at \in {"sources", "signing", "resolve", "erase"} => ~erased
    /\ at \in {"erase", "base"} \cup BehindBase => ~Unresolved(RequiredGroups(System))
    /\ NoLateSurprise
BootableInv ==
    /\ at \in Steps \ {"sources"} => mirrors = IF On("local_mirror") THEN "loopback" ELSE "ranked"
    /\ at \in {"loader", "units", "account", "mirrors", "finished"} =>
          initramfs = "fresh" /\ KernelGroup(System.kernel) \subseteq installed
    /\ at \in {"units", "account", "mirrors", "finished"} =>
          entry = KernelGroup(System.kernel) \cup PlatformGroup(System.platform)
    /\ at = "finished" => mirrors \notin {"live", "loopback"}

TargetTypes ==
    /\ installed \subseteq Groups /\ entry \subseteq Groups /\ erased \in BOOLEAN
    /\ initramfs \in {"none", "fresh", "stale"} /\ mirrors \in {"live", "ranked", "loopback", "china"}
    /\ at \notin Steps \cup Finals => installed = {} /\ ~erased

TargetInv == TargetTypes /\ InstalledInv /\ ResolvedInv /\ BootableInv

ProgramInv ==
    CaptureInv /\ FilesInv /\ ScriptInv /\ AgreedInv /\ LoadedInv /\ DetectedInv /\ DialogInv /\ TargetInv

-----------------------------------------------------------------------------
(***************************************************************************)
(* What a step leaves alone.                                                *)
(***************************************************************************)
FirstSteps ==
    \/ ConfigDirectoryFails \/ LoadPackages \/ FindNoPackages \/ PackagesRejected
    \/ (\E reply \in {"yes", "no"} : ConfirmPackageConfigOverwrite(reply))
    \/ SaveDefaults \/ SaveDefaultsFails \/ EditConfig
PlanSteps ==
    ComparePaths \/ LoadPlan \/ PlanRejected \/ PlanInit \/ UseLoaded \/ GenerateDirectly \/ NotGenerated
DetectionSteps ==
    \/ CallLsblk \/ DetectionFails \/ TakeInventory \/ StartSession
    \/ at = "capture" /\ CaptureActions /\ UNCHANGED startupVars

LEMMA StartupSteps ==
    StartupNext <=> ((FirstSteps \/ PlanSteps) /\ UNCHANGED captureVars) \/ DetectionSteps
BY Zenon DEF StartupNext, FirstSteps, PlanSteps, DetectionSteps

LEMMA FirstFrame ==
    ASSUME FirstSteps
    PROVE  /\ at \in {"config", "asking", "defaults"}
           /\ at' \in {"config", "asking", "defaults", "paths", "exit"}
           /\ UNCHANGED <<mode, fileVars, plan, devices, inventory>>
BY DEF FirstSteps, ConfigDirectoryFails, LoadPackages, FindNoPackages, PackagesRejected,
       ConfirmPackageConfigOverwrite, SaveDefaults, SaveDefaultsFails, EditConfig, Goes,
       configVars, fileVars

LEMMA PlanFrame ==
    ASSUME PlanSteps
    PROVE  /\ at \in {"paths", "load", "loaded", "validate"}
           /\ at' \in {"load", "loaded", "validate", "detect", "generated", "exit"}
           /\ UNCHANGED <<mode, configVars, devices, inventory>>
BY DEF PlanSteps, ComparePaths, LoadPlan, PlanRejected, PlanInit, UseLoaded, GenerateDirectly,
       NotGenerated, Goes, configVars, fileVars

LEMMA DetectionFrame ==
    ASSUME DetectionSteps
    PROVE  /\ at \in {"detect", "capture", "inventory"}
           /\ at' \in {"capture", "inventory", "session", "exit"}
           /\ UNCHANGED <<mode, configVars, fileVars, plan>>
           /\ CaptureActions \/ Enter \/ Forget \/ UNCHANGED captureVars
<1>1. ASSUME CallLsblk \/ DetectionFails \/ TakeInventory \/ StartSession
      PROVE  /\ at \in {"detect", "capture", "inventory"}
             /\ at' \in {"capture", "inventory", "session", "exit"}
             /\ UNCHANGED <<mode, configVars, fileVars, plan>>
             /\ Enter \/ Forget \/ UNCHANGED captureVars
  BY <1>1 DEF CallLsblk, DetectionFails, TakeInventory, StartSession, Goes
<1>2. ASSUME at = "capture", CaptureActions, UNCHANGED startupVars
      PROVE  at' = "capture" /\ UNCHANGED <<mode, configVars, fileVars, plan>>
  BY <1>2 DEF startupVars, configVars, fileVars
<1> QED
  BY <1>1, <1>2 DEF DetectionSteps

LEMMA SessionFrame ==
    ASSUME SessionNext
    PROVE  /\ at = "session" /\ at' \in {"session", "bash", "exit"}
           /\ UNCHANGED <<captureVars, mode, configVars, paths, devices, inventory>>
<1> USE DEF Unchanged, AtPage, AtDialog
<1>1. CASE Cycle \/ (\E flag \in Flags : Toggle(flag)) \/ ApplyText \/ AcceptTrust
  <2>1. PICK system : Changes(system)
    BY <1>1, Zenon DEF Cycle, Toggle, ApplyText, AcceptTrust
  <2>2. at = "session"
    BY <1>1 DEF Cycle, Toggle, ApplyText, AcceptTrust
  <2> QED
    BY <2>1, <2>2 DEF Changes
<1>2. CASE \/ \E flag \in Trusting : AskTrust(flag)
           \/ \E row \in PreviewRows : ShowPackages(row)
           \/ ShowChoice \/ EditText \/ DialogKey \/ AskQuit
  <2>1. PICK d : Opens(d)
    BY <1>2, Zenon DEF AskTrust, ShowPackages, ShowChoice, EditText, DialogKey, AskQuit
  <2>2. at = "session"
    BY <1>2 DEF AskTrust, ShowPackages, ShowChoice, EditText, DialogKey, AskQuit
  <2> QED
    BY <2>1, <2>2 DEF Opens
<1>3. CASE Dismiss \/ SavePlan \/ Generate \/ GenerationFails \/ Run \/ Leave \/ Stop
  BY <1>3 DEF Dismiss, Closes, SavePlan, Generate, GenerationFails, Run, Leave, Stop
<1> QED
  BY <1>1, <1>2, <1>3, Zenon DEF SessionNext

LEMMA TargetFrame ==
    ASSUME TargetNext
    PROVE  /\ at \in Steps /\ at' \in Steps \cup Finals
           /\ UNCHANGED <<captureVars, mode, configVars, fileVars, plan, devices, inventory, sessionVars>>
<1> USE DEF Step, Goes, Steps, LiveSteps, ChrootSteps, Finals
<1>1. CASE SelectSource \/ InstallSigningTools \/ ResolvePackages \/ PrepareStorage
           \/ InstallBaseSystem \/ ConfigureBase \/ InstallCorePackages \/ InstallDrivers
  BY <1>1 DEF SelectSource, InstallSigningTools, ResolvePackages, PrepareStorage,
       InstallBaseSystem, ConfigureBase, InstallCorePackages, InstallDrivers
<1>2. CASE InstallDesktop \/ InstallFonts \/ InstallOptionalSoftware \/ RebuildInitramfs
           \/ ConfigureBootloader \/ EnableUnits \/ CreateAccount \/ ConfigureMirrors
  BY <1>2 DEF InstallDesktop, InstallFonts, InstallOptionalSoftware, RebuildInitramfs,
       ConfigureBootloader, EnableUnits, CreateAccount, ConfigureMirrors
<1>3. CASE Refuse \/ Fail
  BY <1>3 DEF Refuse, Fail
<1> QED
  BY <1>1, <1>2, <1>3, Zenon DEF TargetNext

(* The four kinds of steps, each with what it leaves alone. *)
LEMMA ProgramSteps ==
    ASSUME [ProgramNext]_programVars
    PROVE  \/ FirstSteps /\ UNCHANGED <<captureVars, sessionVars, targetVars>>
           \/ PlanSteps /\ UNCHANGED <<captureVars, sessionVars, targetVars>>
           \/ DetectionSteps /\ UNCHANGED <<sessionVars, targetVars>>
           \/ SessionNext /\ UNCHANGED targetVars
           \/ StartInstaller
           \/ TargetNext
           \/ UNCHANGED programVars
BY StartupSteps, Zenon DEF ProgramNext
-----------------------------------------------------------------------------
(* The capture.                                                             *)
LEMMA CaptureKept ==
    ASSUME CaptureInv, [ProgramNext]_programVars
    PROVE  CaptureInv'
<1>1. CaptureActions \/ Enter \/ Forget \/ UNCHANGED captureVars
  BY ProgramSteps, DetectionFrame, SessionFrame, TargetFrame DEF StartInstaller, programVars
<1>2. [CaptureNext]_captureVars \/ Enter \/ Forget
  BY <1>1 DEF CaptureNext
<1>3. CASE Enter
  BY <1>3, BeginsAnew DEF Enter, ParentStates, Calling
<1>4. CASE Forget
  BY <1>4, BeginsAnew DEF Forget, ParentStates
<1> QED
  BY <1>2, <1>3, <1>4, CaptureStepInv

-----------------------------------------------------------------------------
(***************************************************************************)
(* Plans, files and flags.                                                  *)
(***************************************************************************)
LEMMA InitialPlanTyped == InitialPlan \in PlansInMemory
<1>1. DefaultSystem \in Settings
  BY OwnGroupDomain DEF DefaultSystem, Settings, Platforms, Kernels, Desktops, Identities, Flags,
     OwnFlags
<1> QED
  BY <1>1 DEF InitialPlan, PlansInMemory

LEMMA LoadedTyped ==
    ASSUME NEW file \in JsonFiles
    PROVE  Loaded(file) \in PlansInMemory
<1>1. ASSUME NEW value \in Int PROVE GetInt(value) \in Int /\ GetUint64(value) \in Int
  BY Widths DEF GetInt, GetUint64, Clamp
<1> QED
  BY <1>1 DEF JsonFiles, Loaded, PlansInMemory, CopyText

LEMMA PlanFilesTyped == ASSUME NEW file \in PlanFiles PROVE file \in JsonFiles /\ NothingElse(file)
BY FilesAssumption DEF FilesAssumption

LEMMA SettingsStayTyped ==
    ASSUME NEW p \in PlansInMemory, NEW system \in Settings
    PROVE  [p EXCEPT !.system = system] \in PlansInMemory
BY DEF PlansInMemory

LEMMA FilesByFirst ==
    ASSUME FilesInv, FirstSteps, UNCHANGED <<captureVars, sessionVars, targetVars>>
    PROVE  FilesInv'
<1>1. at' \in EarlySteps \cup BuilderEnds \cup Steps \cup Finals
  BY FirstFrame DEF EarlySteps, BuilderEnds
<1>2. config'.kind \in {"absent", "special", "broken", "packages"}
      /\ packages'.kind \in {"absent", "packages"}
  BY DEF FilesInv, FirstSteps, ConfigDirectoryFails, LoadPackages, FindNoPackages, PackagesRejected,
     ConfirmPackageConfigOverwrite, SaveDefaults, SaveDefaultsFails, EditConfig, Goes, configVars,
     Defaults, PackagesWith
<1> QED
  BY <1>1, <1>2, FirstFrame DEF FilesInv, fileVars, sessionVars, PlanOutlivesScript

LEMMA FilesByPlan ==
    ASSUME FilesInv, LoadedInv, PlanSteps, UNCHANGED <<captureVars, sessionVars, targetVars>>
    PROVE  FilesInv'
<1>1. at' \in EarlySteps \cup BuilderEnds \cup Steps \cup Finals
  BY PlanFrame DEF EarlySteps, BuilderEnds
<1>2. UNCHANGED <<mode, config, packages, dirty, changes>>
  BY PlanFrame DEF configVars, sessionVars
<1>3. CASE ComparePaths
  BY <1>1, <1>2, <1>3 DEF FilesInv, ComparePaths, SameDestination, SameInodes, PlanOf, NoFile,
     PlanOutlivesScript
<1>4. CASE LoadPlan
  <2>1. PICK file \in PlanFiles : plan_file = PlanOf(file)
    BY <1>4 DEF LoadPlan, LoadedInv
  <2>2. plan' \in PlansInMemory
    BY <1>4, <2>1, PlanFilesTyped, LoadedTyped DEF LoadPlan, PlanOf
  <2> QED
    BY <1>1, <1>2, <1>4, <2>2 DEF FilesInv, LoadPlan, fileVars, PlanOutlivesScript
<1>5. CASE PlanRejected \/ PlanInit \/ UseLoaded \/ NotGenerated
  BY <1>1, <1>2, <1>5 DEF FilesInv, PlanRejected, PlanInit, UseLoaded, NotGenerated, fileVars,
     PlanOutlivesScript
<1>6. CASE GenerateDirectly
  BY <1>1, <1>2, <1>6 DEF FilesInv, GenerateDirectly, WriteScript, OneEntry, ScriptOf,
     PlanOutlivesScript
<1> QED
  BY <1>3, <1>4, <1>5, <1>6 DEF PlanSteps

LEMMA FilesByDetection ==
    ASSUME FilesInv, DetectionSteps, UNCHANGED <<sessionVars, targetVars>>
    PROVE  FilesInv'
<1>1. at' \in EarlySteps \cup BuilderEnds \cup Steps \cup Finals
  BY DetectionFrame DEF EarlySteps, BuilderEnds
<1> QED
  BY <1>1, DetectionFrame DEF FilesInv, configVars, fileVars, sessionVars, PlanOutlivesScript

(* The pages change the settings to other settings. *)
LEMMA ChangesStayTyped ==
    ASSUME FilesInv, Cycle \/ (\E flag \in Flags : Toggle(flag)) \/ ApplyText \/ AcceptTrust
    PROVE  \E system \in Settings : Changes(system)
<1>1. plan.system \in Settings
  BY DEF FilesInv, PlansInMemory
<1>2. Trusting \subseteq Flags
  BY DEF Trusting, Flags
<1>3. ASSUME NEW s \in Settings
      PROVE  /\ [s EXCEPT !.platform = NextPlatform[@]] \in Settings
             /\ [s EXCEPT !.kernel = NextKernel[@]] \in Settings
             /\ [s EXCEPT !.desktop = NextDesktop[@]] \in Settings
  <2>1. /\ \A platform \in Platforms : NextPlatform[platform] \in Platforms
        /\ \A kernel \in Kernels : NextKernel[kernel] \in Kernels
        /\ \A desktop \in Desktops : NextDesktop[desktop] \in Desktops
    BY DEF NextPlatform, NextKernel, NextDesktop, Platforms, Kernels, Desktops
  <2> QED
    BY <2>1 DEF Settings
<1>4. ASSUME NEW s \in Settings, NEW on \in SUBSET Flags
      PROVE  [s EXCEPT !.on = on] \in Settings
  BY DEF Settings
<1>5. CASE Cycle
  BY <1>1, <1>3, <1>5 DEF Cycle
<1>6. CASE \E flag \in Flags : Toggle(flag)
  <2>1. PICK flag \in Flags : Toggle(flag)
    BY <1>6
  <2>2. Toggled(plan.system.on, flag) \in SUBSET Flags
    BY <1>1 DEF Toggled, Settings
  <2> QED
    BY <1>1, <1>4, <2>1, <2>2 DEF Toggle
<1>7. CASE ApplyText
  <2>0. (IF dialog.edited THEN Identities ELSE {plan.system.identity}) \subseteq Identities
    BY <1>1 DEF Settings
  <2>1. PICK identity \in Identities : Changes([plan.system EXCEPT !.identity = identity])
    BY <1>7, <2>0 DEF ApplyText
  <2>2. [plan.system EXCEPT !.identity = identity] \in Settings
    BY <1>1 DEF Settings
  <2> QED
    BY <2>1, <2>2
<1>8. CASE AcceptTrust
  <2>1. plan.system.on \cup {dialog.question} \in SUBSET Flags
    BY <1>1, <1>2, <1>8 DEF AcceptTrust, Settings
  <2> QED
    BY <1>1, <1>4, <1>8, <2>1 DEF AcceptTrust
<1> QED
  BY <1>5, <1>6, <1>7, <1>8

LEMMA SessionSteps ==
    ASSUME FilesInv, SessionNext
    PROVE  \/ \E system \in Settings : Changes(system)
           \/ \E d : Opens(d)
           \/ Closes \/ SavePlan \/ Generate \/ GenerationFails \/ Run \/ Leave \/ Stop
<1>1. CASE Cycle \/ (\E flag \in Flags : Toggle(flag)) \/ ApplyText \/ AcceptTrust
  BY <1>1, ChangesStayTyped
<1>2. CASE \/ \E flag \in Trusting : AskTrust(flag)
           \/ \E row \in PreviewRows : ShowPackages(row)
           \/ ShowChoice \/ EditText \/ DialogKey \/ AskQuit
  BY <1>2, Zenon DEF AskTrust, ShowPackages, ShowChoice, EditText, DialogKey, AskQuit
<1>3. CASE Dismiss \/ SavePlan \/ Generate \/ GenerationFails \/ Run \/ Leave \/ Stop
  BY <1>3 DEF Dismiss
<1> QED
  BY <1>1, <1>2, <1>3, Zenon DEF SessionNext

LEMMA FilesBySession ==
    ASSUME FilesInv, SessionNext
    PROVE  FilesInv'
<1>1. at' \in EarlySteps \cup BuilderEnds \cup Steps \cup Finals
  BY SessionFrame DEF BuilderEnds
<1>2. UNCHANGED <<mode, config, packages, paths>>
  BY SessionFrame DEF configVars
<1>3. CASE \E system \in Settings : Changes(system)
  <2>1. PICK system \in Settings : Changes(system)
    BY <1>3
  <2>2. plan' \in PlansInMemory
    BY <2>1, SettingsStayTyped DEF FilesInv, Changes
  <2>3. changes' \in 0 .. MaxChanges
    BY <2>1, PagesAssumption DEF FilesInv, Changes, MayChange, PagesAssumption
  <2> QED
    BY <1>1, <1>2, <2>1, <2>2, <2>3 DEF FilesInv, Changes, FilesStay, PlanOutlivesScript
<1>4. CASE \E d : Opens(d)
  BY <1>1, <1>2, <1>4 DEF FilesInv, Opens, FilesStay, PlanOutlivesScript
<1>5. CASE Closes \/ Run \/ Leave \/ Stop
  BY <1>1, <1>2, <1>5 DEF FilesInv, Closes, Run, Leave, Stop, FilesStay, PlanOutlivesScript
<1>6. CASE SavePlan \/ GenerationFails
  <2>1. plan_file'.kind = "plan"
    BY <1>6 DEF SavePlan, GenerationFails, PlanWritten, PlanOf
  <2>2. script_file' = plan_file' \/ script_file' = script_file
    BY <1>6 DEF SavePlan, GenerationFails
  <2>3. UNCHANGED <<plan, changes>> /\ dirty' \in BOOLEAN
    BY <1>6 DEF SavePlan, GenerationFails, FilesInv
  <2> QED
    BY <1>1, <1>2, <2>1, <2>2, <2>3 DEF FilesInv, PlanOutlivesScript
<1>7. CASE Generate
  BY <1>1, <1>2, <1>7 DEF FilesInv, Generate, PlanOf, ScriptOf, OneEntry, PlanOutlivesScript
<1> QED
  BY <1>3, <1>4, <1>5, <1>6, <1>7, SessionSteps

LEMMA FilesByInstaller ==
    ASSUME FilesInv, StartInstaller \/ TargetNext
    PROVE  FilesInv'
<1>1. CASE StartInstaller
  <2>1. at' \in Steps /\ changes' \in 0 .. MaxChanges
    BY <1>1, PagesAssumption DEF StartInstaller, Steps, LiveSteps, PagesAssumption
  <2> QED
    BY <1>1, <2>1, InitialPlanTyped DEF FilesInv, StartInstaller, fileVars, NoFile, PlanOutlivesScript
<1>2. CASE TargetNext
  <2>1. UNCHANGED <<mode, configVars, fileVars, plan, sessionVars>> /\ at' \in Steps \cup Finals
    BY <1>2, TargetFrame
  <2> QED
    BY <2>1 DEF FilesInv, configVars, fileVars, sessionVars, PlanOutlivesScript
<1> QED
  BY <1>1, <1>2

LEMMA FilesKept ==
    ASSUME FilesInv, LoadedInv, [ProgramNext]_programVars
    PROVE  FilesInv'
<1>1. CASE UNCHANGED programVars
  BY <1>1 DEF programVars, startupVars, sessionVars, FilesInv, PlanOutlivesScript
<1> QED
  BY <1>1, ProgramSteps, FilesByFirst, FilesByPlan, FilesByDetection, FilesBySession, FilesByInstaller
-----------------------------------------------------------------------------
(***************************************************************************)
(* The script holds settings that were validated.                           *)
(***************************************************************************)
LEMMA ScriptKept ==
    ASSUME FilesInv, ScriptInv, [ProgramNext]_programVars
    PROVE  ScriptInv'
<1>1. plan.system \in Settings
  BY DEF FilesInv, PlansInMemory
<1>2. ASSUME UNCHANGED script_file, at' \in Steps \cup Finals => script_file.kind = "script"
      PROVE  ScriptInv'
  BY <1>2 DEF ScriptInv, ValidSettings
<1>3. ASSUME script_file'.kind # "script", at' \notin Steps \cup Finals
      PROVE  ScriptInv'
  BY <1>3 DEF ScriptInv
<1>4. ASSUME script_file' = ScriptOf(plan.system, packages), ValidSettings(plan.system)
      PROVE  ScriptInv'
  <2>1. script_file'.kind = "script" /\ script_file'.settings = plan.system
    BY <1>4 DEF ScriptOf
  <2> QED
    BY <1>1, <1>4, <2>1 DEF ScriptInv, ValidSettings
<1>5. ASSUME at' \in EarlySteps \cup BuilderEnds PROVE at' \notin Steps \cup Finals
  BY <1>5 DEF EarlySteps, BuilderEnds, Steps, Finals, LiveSteps, ChrootSteps
<1>6. CASE FirstSteps
  BY <1>2, <1>5, <1>6, FirstFrame DEF fileVars, EarlySteps, BuilderEnds
<1>7. CASE PlanSteps
  <2>1. at' \notin Steps \cup Finals
    BY <1>5, <1>7, PlanFrame DEF EarlySteps, BuilderEnds
  <2>2. CASE GenerateDirectly
    BY <1>4, <2>2 DEF GenerateDirectly, WriteScript
  <2>3. CASE ~GenerateDirectly
    BY <1>2, <1>7, <2>1, <2>3 DEF PlanSteps, ComparePaths, LoadPlan, PlanRejected, PlanInit, UseLoaded,
       NotGenerated, fileVars
  <2> QED
    BY <2>2, <2>3
<1>8. CASE DetectionSteps
  BY <1>2, <1>5, <1>8, DetectionFrame DEF fileVars, EarlySteps, BuilderEnds
<1>9. CASE SessionNext
  <2>1. at' \notin Steps \cup Finals
    BY <1>5, <1>9, SessionFrame DEF BuilderEnds
  <2>2. CASE Generate
    BY <1>4, <2>2 DEF Generate
  <2>3. CASE SavePlan \/ GenerationFails
    <3>1. script_file' = script_file \/ script_file'.kind = "plan"
      BY <2>3 DEF SavePlan, GenerationFails, PlanWritten, PlanOf
    <3> QED
      BY <1>2, <1>3, <2>1, <3>1
  <2>4. CASE ~Generate /\ ~SavePlan /\ ~GenerationFails
    <3>1. UNCHANGED script_file
      BY <1>9, <2>4, SessionSteps DEF Changes, Opens, Closes, Run, Leave, Stop, FilesStay
    <3> QED
      BY <1>2, <2>1, <3>1
  <2> QED
    BY <2>2, <2>3, <2>4
<1>10. CASE StartInstaller
  BY <1>2, <1>10 DEF StartInstaller, fileVars
<1>11. CASE TargetNext
  BY <1>2, <1>11, TargetFrame DEF ScriptInv, fileVars
<1>12. CASE UNCHANGED programVars
  BY <1>2, <1>12 DEF ScriptInv, programVars, startupVars
<1> QED
  BY <1>6, <1>7, <1>8, <1>9, <1>10, <1>11, <1>12, ProgramSteps

-----------------------------------------------------------------------------
(***************************************************************************)
(* What is agreed to, loaded and detected.                                  *)
(***************************************************************************)
LEMMA AgreedKept ==
    ASSUME AgreedInv, [ProgramNext]_programVars
    PROVE  AgreedInv'
<1> USE DEF AgreedInv, PackageFileReplacedOnlyWhenAgreed
<1>1. ASSUME UNCHANGED configVars, at' \notin {"config", "asking", "defaults"}
      PROVE  AgreedInv'
  BY <1>1 DEF configVars
<1>2. CASE FirstSteps
  <2>1. CASE SaveDefaults
    <3>1. /\ overwritten' \in BOOLEAN /\ at' = "paths"
          /\ UNCHANGED <<answer, seen>> /\ (answer = "yes" \/ seen = NoFile)
      BY <2>1, Zenon DEF SaveDefaults, Goes
    <3> QED
      BY <3>1
  <2>2. CASE ConfigDirectoryFails \/ LoadPackages \/ FindNoPackages \/ PackagesRejected
    BY <2>2 DEF ConfigDirectoryFails, LoadPackages, FindNoPackages, PackagesRejected, Goes, configVars
  <2>3. CASE (\E reply \in {"yes", "no"} : ConfirmPackageConfigOverwrite(reply)) \/ SaveDefaultsFails
    BY <2>3 DEF ConfirmPackageConfigOverwrite, SaveDefaultsFails, Goes, configVars
  <2>4. CASE EditConfig
    BY <2>4 DEF EditConfig
  <2> QED
    BY <1>2, <2>1, <2>2, <2>3, <2>4 DEF FirstSteps
<1>3. CASE PlanSteps
  BY <1>1, <1>3, PlanFrame
<1>4. CASE DetectionSteps
  BY <1>1, <1>4, DetectionFrame
<1>5. CASE SessionNext
  BY <1>1, <1>5, SessionFrame
<1>6. CASE StartInstaller
  BY <1>6 DEF StartInstaller, NoFile
<1>7. CASE TargetNext
  BY <1>1, <1>7, TargetFrame DEF Steps, LiveSteps, ChrootSteps, Finals
<1>8. CASE UNCHANGED programVars
  BY <1>8 DEF programVars, startupVars
<1> QED
  BY <1>2, <1>3, <1>4, <1>5, <1>6, <1>7, <1>8, ProgramSteps

LEMMA LoadedKept ==
    ASSUME LoadedInv, [ProgramNext]_programVars
    PROVE  LoadedInv'
<1>1. ASSUME at' \notin {"load", "loaded"} PROVE LoadedInv'
  BY <1>1 DEF LoadedInv
<1>2. CASE FirstSteps
  BY <1>1, <1>2, FirstFrame
<1>3. CASE ComparePaths
  <2>1. PICK relation \in PathRelations, file \in {NoFile} \cup {PlanOf(f) : f \in PlanFiles} :
           IF SameDestination(relation, file # NoFile)
           THEN at' = "exit" /\ UNCHANGED <<paths, plan_file>>
           ELSE at' = "load" /\ paths' = relation /\ plan_file' = file
    BY <1>3, Zenon DEF ComparePaths
  <2>2. at' = "exit" \/ (at' = "load" /\ plan_file' = file)
    BY <2>1 DEF SameDestination, SameInodes
  <2> QED
    BY <2>2 DEF LoadedInv
<1>4. CASE LoadPlan
  <2>1. PICK file \in PlanFiles : plan_file = PlanOf(file)
    BY <1>4 DEF LoadPlan, LoadedInv
  <2>2. plan_file.content = file
    BY <2>1 DEF PlanOf
  <2>3. plan_file' = PlanOf(file) /\ Accepted(file) /\ plan' = Loaded(file) /\ at' = "loaded"
    BY <1>4, <2>1, <2>2 DEF LoadPlan, fileVars
  <2> QED
    BY <2>3 DEF LoadedInv
<1>5. CASE PlanRejected \/ PlanInit \/ UseLoaded \/ GenerateDirectly \/ NotGenerated
  BY <1>1, <1>5 DEF PlanRejected, PlanInit, UseLoaded, GenerateDirectly, NotGenerated, Goes
<1>6. CASE DetectionSteps
  BY <1>1, <1>6, DetectionFrame
<1>7. CASE SessionNext
  BY <1>1, <1>7, SessionFrame
<1>8. CASE StartInstaller
  BY <1>1, <1>8 DEF StartInstaller
<1>9. CASE TargetNext
  BY <1>1, <1>9, TargetFrame DEF Steps, LiveSteps, ChrootSteps, Finals
<1>10. CASE UNCHANGED programVars
  <2>1. UNCHANGED <<at, plan, plan_file>>
    BY <1>10 DEF programVars, startupVars
  <2> QED
    BY <2>1 DEF LoadedInv
<1> QED
  BY <1>2, <1>3, <1>4, <1>5, <1>6, <1>7, <1>8, <1>9, <1>10, ProgramSteps DEF PlanSteps

LEMMA DetectedKept ==
    ASSUME DetectedInv, [ProgramNext]_programVars
    PROVE  DetectedInv'
<1>1. ASSUME at' # "inventory" PROVE DetectedInv'
  BY <1>1 DEF DetectedInv
<1>2. CASE FirstSteps
  BY <1>1, <1>2, FirstFrame
<1>3. CASE PlanSteps
  BY <1>1, <1>3, PlanFrame
<1>4. CASE CallLsblk \/ DetectionFails \/ StartSession
  BY <1>1, <1>4 DEF CallLsblk, DetectionFails, StartSession, Goes
<1>5. CASE TakeInventory
  BY <1>5 DEF TakeInventory, DetectedInv, captureVars
<1>6. CASE at = "capture" /\ CaptureActions /\ UNCHANGED startupVars
  BY <1>1, <1>6 DEF startupVars
<1>7. CASE SessionNext
  BY <1>1, <1>7, SessionFrame
<1>8. CASE StartInstaller
  BY <1>1, <1>8 DEF StartInstaller
<1>9. CASE TargetNext
  BY <1>1, <1>9, TargetFrame DEF Steps, LiveSteps, ChrootSteps, Finals
<1>10. CASE UNCHANGED programVars
  BY <1>10 DEF DetectedInv, programVars, startupVars, captureVars
<1> QED
  BY <1>2, <1>3, <1>4, <1>5, <1>6, <1>7, <1>8, <1>9, <1>10, ProgramSteps DEF DetectionSteps

-----------------------------------------------------------------------------
(***************************************************************************)
(* Dialogs: what a key does to a list, a choice and a text field.           *)
(***************************************************************************)
LEMMA Sizes == DialogWidth \in Nat \ {0} /\ ListPage \in Nat \ {0} /\ TextSize \in Nat \ {0}
BY DialogsAssumption DEF DialogsAssumption

LEMMA ClippedIsMax ==
    ASSUME NEW a \in Int
    PROVE  Clipped(a) = IF a > 0 THEN a ELSE 0
BY DEF Clipped, Max

ListStates   == [kind : {"list"}, count : Nat, offset : Nat]
ChoiceStates == [kind : {"choice"}, count : Nat, selected : Nat]
TextStates   == [kind : {"text"}, field : {"identity"}, length : Nat, cursor : Nat, edited : BOOLEAN]

LEMMA ListKeyInView ==
    ASSUME NEW d \in ListStates, ListInView(d), NEW key
    PROVE  ListKey(d, key) \in ListStates /\ ListInView(ListKey(d, key))
<1> DEFINE Moved(n) == [d EXCEPT !.offset = n]
           last == IF d.count - ListPage > 0 THEN d.count - ListPage ELSE 0
<1>0. d.count \in Nat /\ d.offset \in Nat
  BY DEF ListStates
<1>1. LastPage(d) = last /\ last \in Nat
  BY <1>0, Sizes, ClippedIsMax DEF LastPage
<1>2. d.offset \in 0 .. last
  BY <1>1 DEF ListInView
<1>3. ASSUME NEW n \in 0 .. last
      PROVE  Moved(n) \in ListStates /\ ListInView(Moved(n))
  <2>1. Moved(n) \in ListStates /\ Moved(n).count = d.count /\ Moved(n).offset = n
    BY <1>3, <1>1 DEF ListStates
  <2>2. LastPage(Moved(n)) = last
    BY <2>1, <1>1 DEF LastPage
  <2> QED
    BY <2>1, <2>2, <1>3 DEF ListInView
<1>4. \/ ListKey(d, key) = Moved(d.offset - 1) /\ d.offset > 0
      \/ ListKey(d, key) = Moved(d.offset + 1) /\ d.offset + ListPage < d.count
      \/ ListKey(d, key) = Moved(Clipped(d.offset - ListPage))
      \/ ListKey(d, key) = Moved(Min({d.offset + ListPage, LastPage(d)})) /\ d.count > ListPage
      \/ ListKey(d, key) = Moved(0)
      \/ ListKey(d, key) = Moved(LastPage(d))
      \/ ListKey(d, key) = d
  BY Zenon DEF ListKey
<1> HIDE DEF Moved
<1>5. CASE ListKey(d, key) = Moved(d.offset - 1) /\ d.offset > 0
  <2>1. d.offset - 1 \in 0 .. last
    BY <1>0, <1>1, <1>2, <1>5
  <2> QED
    BY <1>3, <1>5, <2>1
<1>6. CASE ListKey(d, key) = Moved(d.offset + 1) /\ d.offset + ListPage < d.count
  <2>1. d.offset + 1 \in 0 .. last
    BY <1>0, <1>1, <1>2, <1>6, Sizes
  <2> QED
    BY <1>3, <1>6, <2>1
<1>7. CASE ListKey(d, key) = Moved(Clipped(d.offset - ListPage))
  <2>1. Clipped(d.offset - ListPage) \in 0 .. last
    BY <1>0, <1>2, ClippedIsMax, Sizes
  <2> QED
    BY <1>3, <1>7, <2>1
<1>8. CASE ListKey(d, key) = Moved(Min({d.offset + ListPage, LastPage(d)}))
  <2>1. Min({d.offset + ListPage, LastPage(d)}) \in 0 .. last
    BY <1>0, <1>1, MinOfTwo, Sizes
  <2> QED
    BY <1>3, <1>8, <2>1
<1>9. CASE ListKey(d, key) = Moved(0) \/ ListKey(d, key) = Moved(LastPage(d))
  BY <1>1, <1>3, <1>9
<1>10. CASE ListKey(d, key) = d
  BY <1>10
<1> QED
  BY <1>4, <1>5, <1>6, <1>7, <1>8, <1>9, <1>10

(* The window of a choice is computed from the selection. *)
LEMMA SelectionInWindow ==
    ASSUME NEW d, d.selected \in 0 .. d.count - 1, d.count \in Nat
    PROVE  ChoiceInView(d)
<1>1. ChoiceOffset(d) = IF d.selected - ListPage + 1 > 0 THEN d.selected - ListPage + 1 ELSE 0
  BY Sizes, ClippedIsMax DEF ChoiceOffset
<1> QED
  BY <1>1, Sizes DEF ChoiceInView

LEMMA ChoiceKeyInView ==
    ASSUME NEW d \in ChoiceStates, ChoiceInView(d), NEW key
    PROVE  ChoiceKey(d, key) \in ChoiceStates /\ ChoiceInView(ChoiceKey(d, key))
<1>0. d.count \in Nat /\ d.selected \in 0 .. d.count - 1
  BY DEF ChoiceStates, ChoiceInView
<1>1. \/ ChoiceKey(d, key) = [d EXCEPT !.selected = @ - 1] /\ d.selected > 0
      \/ ChoiceKey(d, key) = [d EXCEPT !.selected = @ + 1] /\ d.selected + 1 < d.count
      \/ ChoiceKey(d, key) = d
  BY Zenon DEF ChoiceKey
<1>2. ASSUME NEW n \in 0 .. d.count - 1
      PROVE  /\ [d EXCEPT !.selected = n] \in ChoiceStates
             /\ ChoiceInView([d EXCEPT !.selected = n])
  <2> DEFINE e == [d EXCEPT !.selected = n]
  <2>1. e \in ChoiceStates /\ e.selected = n /\ e.count = d.count
    BY <1>0 DEF ChoiceStates
  <2> HIDE DEF e
  <2>2. ChoiceInView(e)
    BY <1>0, <2>1, SelectionInWindow
  <2> QED
    BY <2>1, <2>2 DEF e
<1>3. d.selected > 0 => d.selected - 1 \in 0 .. d.count - 1
  BY <1>0
<1>4. d.selected + 1 < d.count => d.selected + 1 \in 0 .. d.count - 1
  BY <1>0
<1> QED
  BY <1>1, <1>2, <1>3, <1>4

LEMMA TextKeyInView ==
    ASSUME NEW d \in TextStates, TextInView(d), NEW key
    PROVE  TextKey(d, key) \in TextStates /\ TextInView(TextKey(d, key))
<1> DEFINE Typed(c, n, b) == [d EXCEPT !.cursor = c, !.length = n, !.edited = b]
<1>0. d.length \in Nat /\ d.cursor \in 0 .. d.length /\ d.length < TextSize /\ d.edited \in BOOLEAN
  BY DEF TextStates, TextInView
<1>1. ASSUME NEW n \in 0 .. TextSize - 1, NEW c \in 0 .. n, NEW b \in BOOLEAN
      PROVE  Typed(c, n, b) \in TextStates /\ TextInView(Typed(c, n, b))
  <2>0. n \in Nat /\ c \in Nat /\ n < TextSize
    BY <1>1, Sizes
  <2>1. Typed(c, n, b) \in TextStates /\ Typed(c, n, b).cursor = c /\ Typed(c, n, b).length = n
    BY <2>0 DEF TextStates
  <2> HIDE DEF Typed
  <2> QED
    BY <2>0, <2>1, Sizes DEF TextInView, TextViewStart
<1>2. \/ TextKey(d, key) = Typed(d.cursor - 1, d.length - 1, TRUE) /\ d.cursor > 0
      \/ TextKey(d, key) = Typed(d.cursor, d.length - 1, TRUE) /\ d.cursor < d.length
      \/ TextKey(d, key) = Typed(d.cursor - 1, d.length, d.edited) /\ d.cursor > 0
      \/ TextKey(d, key) = Typed(d.cursor + 1, d.length, d.edited) /\ d.cursor < d.length
      \/ TextKey(d, key) = Typed(0, 0, TRUE)
      \/ TextKey(d, key) = Typed(d.cursor + 1, d.length + 1, TRUE) /\ d.length + 1 < TextSize
      \/ TextKey(d, key) = d
  <2>1. \/ TextKey(d, key) = [d EXCEPT !.cursor = @ - 1, !.length = @ - 1, !.edited = TRUE] /\ d.cursor > 0
        \/ TextKey(d, key) = [d EXCEPT !.length = @ - 1, !.edited = TRUE] /\ d.cursor < d.length
        \/ TextKey(d, key) = [d EXCEPT !.cursor = @ - 1] /\ d.cursor > 0
        \/ TextKey(d, key) = [d EXCEPT !.cursor = @ + 1] /\ d.cursor < d.length
        \/ TextKey(d, key) = [d EXCEPT !.cursor = 0, !.length = 0, !.edited = TRUE]
        \/ /\ TextKey(d, key) = [d EXCEPT !.cursor = @ + 1, !.length = @ + 1, !.edited = TRUE]
           /\ d.length + 1 < TextSize
        \/ TextKey(d, key) = d
    BY Zenon DEF TextKey
  <2>2. /\ [d EXCEPT !.length = d.length - 1, !.edited = TRUE] = Typed(d.cursor, d.length - 1, TRUE)
        /\ [d EXCEPT !.cursor = d.cursor - 1] = Typed(d.cursor - 1, d.length, d.edited)
        /\ [d EXCEPT !.cursor = d.cursor + 1] = Typed(d.cursor + 1, d.length, d.edited)
    BY DEF TextStates
  <2> QED
    BY <2>1, <2>2
<1> HIDE DEF Typed
<1>3. ASSUME NEW n, NEW c, NEW b \in BOOLEAN, n \in 0 .. TextSize - 1 /\ c \in 0 .. n,
             TextKey(d, key) = Typed(c, n, b)
      PROVE  TextKey(d, key) \in TextStates /\ TextInView(TextKey(d, key))
  BY <1>1, <1>3
<1>4. /\ d.cursor > 0 => d.length - 1 \in 0 .. TextSize - 1 /\ d.cursor - 1 \in 0 .. d.length - 1
      /\ d.cursor < d.length => d.length - 1 \in 0 .. TextSize - 1 /\ d.cursor \in 0 .. d.length - 1
      /\ d.cursor > 0 => d.length \in 0 .. TextSize - 1 /\ d.cursor - 1 \in 0 .. d.length
      /\ d.cursor < d.length => d.length \in 0 .. TextSize - 1 /\ d.cursor + 1 \in 0 .. d.length
      /\ 0 \in 0 .. TextSize - 1 /\ 0 \in 0 .. 0
      /\ d.length + 1 < TextSize =>
            d.length + 1 \in 0 .. TextSize - 1 /\ d.cursor + 1 \in 0 .. d.length + 1
  BY <1>0, Sizes
<1> QED
  BY <1>0, <1>2, <1>3, <1>4

(***************************************************************************)
(* Dialogs as the pages open, change and close them.                        *)
(***************************************************************************)
LEMMA SingletonIsFinite == ASSUME NEW x PROVE IsFiniteSet({x})
BY FS_Singleton, Zenon

LEMMA PreviewIsFinite ==
    ASSUME NEW row \in PreviewRows, NEW s, NEW without
    PROVE  Cardinality(Preview(row, s) \ without) \in Nat
<1>1. IsFiniteSet(Preview(row, s))
  <2>1. CASE row \in DOMAIN OwnGroup
    BY <2>1, OwnPreview, SingletonIsFinite
  <2>2. CASE row \notin DOMAIN OwnGroup
    <3>1. ASSUME NEW a, NEW b, NEW c PROVE IsFiniteSet({a, b, c})
      <4>1. {a, b, c} = ({a} \cup {b}) \cup {c}
        OBVIOUS
      <4>2. IsFiniteSet({a} \cup {b})
        BY SingletonIsFinite, FS_Union, Zenon
      <4>3. IsFiniteSet(({a} \cup {b}) \cup {c})
        BY <4>2, SingletonIsFinite, FS_Union, Zenon
      <4> QED
        BY <4>1, <4>3
    <3>2. row \in {"platform", "kernel", "desktop", "laptop", "desktop_recommended",
                   "chinese_input", "local_mirror", "secure_boot"}
      BY <2>2 DEF PreviewRows
    <3>3. \E a, b, c : Preview(row, s) \subseteq {a, b, c}
      <4>1. CASE row = "platform"
        <5>1. Preview(row, s) \subseteq {"platform_intel", "platform_amd", ""}
          BY <4>1, NamedPreview DEF PlatformGroup, Only
        <5> QED
          BY <5>1
      <4>2. CASE row = "kernel"
        <5>1. Preview(row, s) \subseteq {KernelGroups[s.kernel], "", ""}
          BY <4>2, NamedPreview DEF KernelGroup
        <5> QED
          BY <5>1
      <4>3. CASE row = "desktop"
        <5>1. Preview(row, s) \subseteq {s.desktop, "", ""}
          BY <4>3, NamedPreview DEF DesktopGroup
        <5> QED
          BY <5>1
      <4>4. CASE row = "laptop"
        <5>1. Preview(row, s) \subseteq {"laptop_firmware", "laptop_tools", "gnome_laptop"}
          BY <4>4, NamedPreview DEF LaptopGroups, LaptopFirmware, Only
        <5> QED
          BY <5>1
      <4>5. CASE row \in {"desktop_recommended", "chinese_input"}
        <5>1. \/ Preview(row, s) \subseteq {"kde_recommended", "gnome_recommended", ""}
              \/ Preview(row, s) \subseteq {"ibus", "fcitx", ""}
          BY <4>5, NamedPreview DEF RecommendedGroup, InputGroup, Only
        <5> QED
          BY <5>1
      <4>6. CASE row \in {"local_mirror", "secure_boot"}
        <5>1. Preview(row, s) \subseteq {"local_mirror_live", "secure_boot_live", ""}
          BY <4>6, NamedPreview DEF Only
        <5> QED
          BY <5>1
      <4> QED
        BY <3>2, <4>1, <4>2, <4>3, <4>4, <4>5, <4>6
    <3> QED
      BY <3>1, <3>3, FS_Subset
  <2> QED
    BY <2>1, <2>2
<1>2. IsFiniteSet(Preview(row, s) \ without)
  BY <1>1, FS_Difference
<1> QED
  BY <1>2, FS_CardinalityType

Confirms(question) ==
    \E message \in Warnings[question] : dialog' = ConfirmDialog(question, message)

LEMMA ConfirmIsADialog ==
    ASSUME NEW question \in Trusting \cup {"run", "quit"}, Confirms(question)
    PROVE  DialogInv'
BY DEF Confirms, ConfirmDialog, DialogInv

LEMMA DialogOpened ==
    ASSUME \/ \E flag \in Trusting : AskTrust(flag)
           \/ \E row \in PreviewRows : ShowPackages(row)
           \/ ShowChoice \/ EditText \/ AskQuit
    PROVE  DialogInv'
<1>1. CASE (\E flag \in Trusting : AskTrust(flag)) \/ AskQuit
  <2>1. \E question \in Trusting \cup {"run", "quit"} : Confirms(question)
    BY <1>1 DEF AskTrust, AskQuit, Opens, Confirms
  <2> QED
    BY <2>1, ConfirmIsADialog
<1>2. CASE \E row \in PreviewRows : ShowPackages(row)
  <2>1. PICK row \in PreviewRows : ShowPackages(row)
    BY <1>2
  <2> DEFINE groups == Cardinality(Preview(row, plan.system) \ packages.empty)
             count  == GroupSize * groups
  <2>2. groups \in Nat
    BY <2>1, PreviewIsFinite
  <2>3. GroupSize \in Nat
    BY PagesAssumption DEF PagesAssumption
  <2> HIDE DEF groups
  <2>4. count \in Nat
    BY <2>2, <2>3
  <2>5. dialog' = ListDialog(count)
    BY <2>1 DEF ShowPackages, Opens, groups
  <2> HIDE DEF count
  <2>6. ListDialog(count) \in ListStates /\ ListInView(ListDialog(count))
    BY <2>4, Sizes, ClippedIsMax DEF ListDialog, ListStates, ListInView, LastPage
  <2> QED
    BY <2>5, <2>6 DEF DialogInv, ListStates
<1>3. CASE ShowChoice
  <2>1. PICK count \in 1 .. MaxChoices, current \in -1 .. MaxChoices : Opens(ChoiceDialog(count, current))
    BY <1>3 DEF ShowChoice
  <2>2. count \in Nat /\ count > 0 /\ current \in Int
    BY <2>1, PagesAssumption DEF PagesAssumption
  <2>3. /\ ChoiceDialog(count, current) \in ChoiceStates
        /\ ChoiceDialog(count, current).selected \in 0 .. count - 1
        /\ ChoiceDialog(count, current).count = count
    BY <2>2 DEF ChoiceDialog, ChoiceStates
  <2>4. ChoiceInView(ChoiceDialog(count, current))
    BY <2>2, <2>3, SelectionInWindow
  <2> QED
    BY <2>1, <2>3, <2>4 DEF Opens, DialogInv, ChoiceStates
<1>4. CASE EditText
  <2>1. PICK length \in 0 .. TextSize - 1 : Opens(TextDialog("identity", length))
    BY <1>4 DEF EditText
  <2>2. length \in Nat /\ length < TextSize
    BY <2>1, Sizes
  <2>3. TextDialog("identity", length) \in TextStates /\ TextInView(TextDialog("identity", length))
    BY <2>2, Sizes DEF TextDialog, TextStates, TextInView, TextViewStart
  <2> QED
    BY <2>1, <2>3 DEF Opens, DialogInv, TextStates
<1> QED
  BY <1>1, <1>2, <1>3, <1>4

LEMMA DialogTurned ==
    ASSUME DialogInv, DialogKey
    PROVE  DialogInv'
<1> USE DEF Opens
<1>1. CASE dialog.kind = "list" /\ \E key \in ListKeys : Opens(ListKey(dialog, key))
  <2>1. dialog \in ListStates /\ ListInView(dialog)
    BY <1>1 DEF DialogInv, ListStates, NoDialog
  <2> QED
    BY <1>1, <2>1, ListKeyInView DEF DialogInv, ListStates
<1>2. CASE dialog.kind = "choice" /\ \E key \in {"up", "down"} : Opens(ChoiceKey(dialog, key))
  <2>1. dialog \in ChoiceStates /\ ChoiceInView(dialog)
    BY <1>2 DEF DialogInv, ChoiceStates, NoDialog
  <2> QED
    BY <1>2, <2>1, ChoiceKeyInView DEF DialogInv, ChoiceStates
<1>3. CASE dialog.kind = "text" /\ \E key \in TextKeys : Opens(TextKey(dialog, key))
  <2>1. dialog \in TextStates /\ TextInView(dialog)
    BY <1>3 DEF DialogInv, TextStates, NoDialog
  <2> QED
    BY <1>3, <2>1, TextKeyInView DEF DialogInv, TextStates
<1>4. CASE dialog.kind = "confirm" /\ Opens(ConfirmKey(dialog))
  <2>1. PICK question \in Trusting \cup {"run", "quit"}, yes \in BOOLEAN :
           \E message \in Warnings[question] :
              dialog = [kind |-> "confirm", question |-> question, message |-> message, yes |-> yes]
    BY <1>4 DEF DialogInv, NoDialog
  <2>2. PICK message \in Warnings[question] :
           dialog = [kind |-> "confirm", question |-> question, message |-> message, yes |-> yes]
    BY <2>1
  <2>3. dialog' = [kind |-> "confirm", question |-> question, message |-> message, yes |-> ~yes]
    BY <1>4, <2>2 DEF ConfirmKey
  <2> QED
    BY <2>3 DEF DialogInv
<1> QED
  BY <1>1, <1>2, <1>3, <1>4 DEF DialogKey

LEMMA DialogKept ==
    ASSUME DialogInv, [ProgramNext]_programVars
    PROVE  DialogInv'
<1>1. ASSUME dialog' = NoDialog PROVE DialogInv'
  BY <1>1 DEF DialogInv
<1>2. ASSUME UNCHANGED dialog PROVE DialogInv'
  BY <1>2 DEF DialogInv, ListInView, LastPage, ChoiceInView, ChoiceOffset, TextInView, TextViewStart
<1>3. CASE SessionNext
  <2>1. CASE Cycle \/ (\E flag \in Flags : Toggle(flag)) \/ ApplyText \/ AcceptTrust
    <3>1. \E system : Changes(system)
      BY <2>1, Zenon DEF Cycle, Toggle, ApplyText, AcceptTrust
    <3> QED
      BY <1>1, <3>1 DEF Changes
  <2>2. CASE \/ \E flag \in Trusting : AskTrust(flag)
             \/ \E row \in PreviewRows : ShowPackages(row)
             \/ ShowChoice \/ EditText \/ AskQuit
    BY <2>2, DialogOpened
  <2>3. CASE DialogKey
    BY <2>3, DialogTurned
  <2>4. CASE Generate
    <3>1. dialog' = NoDialog \/ Confirms("run")
      BY <2>4 DEF Generate, Confirms
    <3> QED
      BY <1>1, <3>1, ConfirmIsADialog
  <2>5. CASE Dismiss \/ SavePlan \/ GenerationFails \/ Run \/ Leave \/ Stop
    <3>1. dialog' = NoDialog \/ UNCHANGED dialog
      BY <2>5 DEF Dismiss, Closes, SavePlan, GenerationFails, Run, Leave, Stop
    <3> QED
      BY <1>1, <1>2, <3>1
  <2> QED
    BY <1>3, <2>1, <2>2, <2>3, <2>4, <2>5, Zenon DEF SessionNext
<1>4. CASE ~SessionNext
  <2>1. UNCHANGED dialog
    BY <1>4, ProgramSteps, TargetFrame DEF StartInstaller, programVars, sessionVars
  <2> QED
    BY <1>2, <2>1
<1> QED
  BY <1>3, <1>4


-----------------------------------------------------------------------------
(***************************************************************************)
(* The wrapped lines of a warning: what one call of next_wrapped_line does  *)
(* with what is at its pointer.                                             *)
(***************************************************************************)
Messages == Seq({"letter", "blank", "feed"})

LEMMA CharactersOf ==
    ASSUME NEW message \in Messages
    PROVE  /\ Len(message) \in Nat /\ DOMAIN message = 1 .. Len(message) /\ Nul(message) \in Nat \ {0}
           /\ \A p \in 1 .. Len(message) : message[p] \in {"letter", "blank", "feed"}
           /\ \A p \in Int : p \in 1 .. Len(message) <=> 1 <= p /\ p < Nul(message)
BY LenProperties, ElementOfSeq DEF Messages, Nul

LEMMA SkipLands ==
    ASSUME NEW message \in Messages, NEW k \in 1 .. Nul(message)
    PROVE  /\ SkipBlanks(message, k) \in k .. Nul(message)
           /\ SkipBlanks(message, k) # Nul(message) => message[SkipBlanks(message, k)] # "blank"
           /\ \A p \in k .. SkipBlanks(message, k) - 1 : message[p] = "blank"
<1> DEFINE T == {j \in k .. Nul(message) : j = Nul(message) \/ message[j] # "blank"}
<1>1. Nul(message) \in T /\ T \subseteq Nat /\ Nul(message) \in Nat
  BY CharactersOf
<1>2. SkipBlanks(message, k) \in T /\ \A j \in T : SkipBlanks(message, k) <= j
  <2>1. SkipBlanks(message, k) = Min(T)
    BY DEF SkipBlanks
  <2> HIDE DEF T
  <2> QED
    BY <1>1, <2>1, Smallest
<1>3. ASSUME NEW p \in k .. SkipBlanks(message, k) - 1 PROVE message[p] = "blank"
  <2>1. p \in k .. Nul(message) /\ ~(SkipBlanks(message, k) <= p)
    BY <1>1, <1>2
  <2>2. p \notin T
    BY <1>2, <2>1
  <2> QED
    BY <2>1, <2>2
<1> QED
  BY <1>2, <1>3

LEMMA ParagraphLands ==
    ASSUME NEW message \in Messages, NEW k \in 1 .. Nul(message)
    PROVE  /\ ParagraphEnd(message, k) \in k .. Nul(message)
           /\ ParagraphEnd(message, k) # Nul(message) => message[ParagraphEnd(message, k)] = "feed"
           /\ \A p \in k .. ParagraphEnd(message, k) - 1 : message[p] # "feed"
<1> DEFINE T == {j \in k .. Nul(message) : j = Nul(message) \/ message[j] = "feed"}
<1>1. Nul(message) \in T /\ T \subseteq Nat /\ Nul(message) \in Nat
  BY CharactersOf
<1>2. ParagraphEnd(message, k) \in T /\ \A j \in T : ParagraphEnd(message, k) <= j
  <2>1. ParagraphEnd(message, k) = Min(T)
    BY DEF ParagraphEnd
  <2> HIDE DEF T
  <2> QED
    BY <1>1, <2>1, Smallest
<1>3. ASSUME NEW p \in k .. ParagraphEnd(message, k) - 1 PROVE message[p] # "feed"
  <2>1. p \in k .. Nul(message) /\ ~(ParagraphEnd(message, k) <= p)
    BY <1>1, <1>2
  <2>2. p \notin T
    BY <1>2, <2>1
  <2> QED
    BY <2>1, <2>2
<1> QED
  BY <1>2, <1>3

LEMMA SplitLands ==
    ASSUME NEW message, NEW first
    PROVE  /\ Split(message, first) \in 1 .. DialogWidth
           /\ \/ message[first + Split(message, first)] = "blank"
              \/ /\ Split(message, first) = DialogWidth
                 /\ \A s \in 1 .. DialogWidth : message[first + s] # "blank"
<1> DEFINE T == {s \in 1 .. DialogWidth : message[first + s] = "blank"}
<1>1. Split(message, first) = IF T = {} THEN DialogWidth ELSE Max(T)
  BY DEF Split
<1>2. CASE T = {}
  BY <1>1, <1>2, Sizes
<1>3. CASE T # {}
  <2>1. T \subseteq 1 .. DialogWidth /\ DialogWidth \in Nat
    BY Sizes
  <2>2. Max(T) \in T
    <3> HIDE DEF T
    <3> QED
      BY <1>3, <2>1, Greatest
  <2> QED
    BY <1>1, <1>3, <2>2
<1> QED
  BY <1>2, <1>3

LEMMA StrippedLands ==
    ASSUME NEW message, NEW first \in Nat, NEW length \in Nat \ {0}, message[first] # "blank"
    PROVE  /\ Stripped(message, first, length) \in 1 .. length
           /\ \A n \in 1 .. length : message[first + n - 1] # "blank" => n <= Stripped(message, first, length)
<1> DEFINE T == {n \in 1 .. length : message[first + n - 1] # "blank"}
<1>1. 1 \in T /\ T \subseteq 1 .. length
  <2>1. first + 1 - 1 = first /\ 1 \in 1 .. length
    OBVIOUS
  <2> QED
    BY <2>1
<1>2. Max(T) \in T /\ \A n \in T : n <= Max(T)
  <2> HIDE DEF T
  <2> QED
    BY <1>1, Greatest
<1>3. Stripped(message, first, length) = Max(T)
  BY DEF Stripped
<1> QED
  BY <1>2, <1>3

(* What a line is for the part of the message between two pointers: within  *)
(* the window and within one paragraph, with every letter of that part and  *)
(* every word that begins in it and fits.                                   *)
Shows(message, from, line) ==
    /\ line \in [first : Nat, length : Nat, next : Nat]
    /\ from <= line.first /\ line.first + line.length <= line.next /\ line.first < line.next
    /\ line.next <= Nul(message) /\ line.length <= DialogWidth
    /\ \A p \in Span(line) : message[p] # "feed"
    /\ \A p \in from .. line.next - 1 : message[p] = "letter" => p \in Span(line)
    /\ \A w \in Words(message) :
          w[1] \in from .. line.next - 1 /\ w[2] - w[1] < DialogWidth => w[1] .. w[2] \subseteq Span(line)

LEMMA WordsTyped ==
    ASSUME NEW message \in Messages, NEW w \in Words(message)
    PROVE  /\ w[1] \in 1 .. Len(message) /\ w[2] \in 1 .. Len(message) /\ w[1] <= w[2]
           /\ \A p \in w[1] .. w[2] : message[p] = "letter"
           /\ w[1] = 1 \/ message[w[1] - 1] # "letter"
           /\ w[2] = Len(message) \/ message[w[2] + 1] # "letter"
BY CharactersOf DEF Words

(* The rest of a paragraph fits. *)
LEMMA WholeLineShows ==
    ASSUME NEW message \in Messages, NEW k \in 1 .. Nul(message),
           NEW first, first = SkipBlanks(message, k), first # Nul(message),
           NEW feed, feed = ParagraphEnd(message, first), feed - first <= DialogWidth
    PROVE  Shows(message, k, [first |-> first, length |-> feed - first, next |-> Min({feed + 1, Nul(message)})])
<1> DEFINE next == Min({feed + 1, Nul(message)})
           line == [first |-> first, length |-> feed - first, next |-> next]
<1>1. /\ Nul(message) \in Nat /\ k \in Nat /\ first \in k .. Nul(message) /\ first < Nul(message)
      /\ \A p \in k .. first - 1 : message[p] = "blank"
  BY CharactersOf, SkipLands
<1>2. /\ feed \in first .. Nul(message)
      /\ feed # Nul(message) => message[feed] = "feed"
      /\ \A p \in first .. feed - 1 : message[p] # "feed"
  <2>1. first \in 1 .. Nul(message)
    BY <1>1
  <2> QED
    BY <2>1, ParagraphLands
<1>3. next = IF feed = Nul(message) THEN Nul(message) ELSE feed + 1
  <2>1. next = IF feed + 1 < Nul(message) THEN feed + 1 ELSE Nul(message)
    BY <1>1, <1>2, MinOfTwo
  <2> QED
    BY <1>1, <1>2, <2>1
<1> HIDE DEF next
<1>4. line \in [first : Nat, length : Nat, next : Nat] /\ first <= feed /\ feed <= next /\ first < next
  BY <1>1, <1>2, <1>3
<1>5. Span(line) = first .. feed - 1
  BY <1>1, <1>2 DEF Span
<1>6. ASSUME NEW p \in k .. next - 1, message[p] = "letter" PROVE p \in first .. feed - 1
  <2>1. p \notin k .. first - 1
    BY <1>1, <1>6
  <2>2. feed # Nul(message) => p # feed
    BY <1>2, <1>6
  <2> QED
    BY <1>1, <1>2, <1>3, <2>1, <2>2
<1>7. ASSUME NEW w \in Words(message), w[1] \in k .. next - 1 PROVE w[1] .. w[2] \subseteq first .. feed - 1
  <2>1. /\ w[1] \in Nat /\ w[2] \in Nat /\ w[1] <= w[2] /\ w[2] < Nul(message)
        /\ \A p \in w[1] .. w[2] : message[p] = "letter"
    BY WordsTyped, CharactersOf
  <2>2. w[1] \in first .. feed - 1
    BY <1>6, <1>7, <2>1
  <2>3. ASSUME w[2] >= feed PROVE FALSE
    <3>1. feed # Nul(message) /\ feed \in w[1] .. w[2]
      BY <1>1, <1>2, <2>1, <2>2, <2>3
    <3> QED
      BY <1>2, <2>1, <3>1
  <2> QED
    BY <1>1, <1>2, <2>1, <2>2, <2>3
<1>8. next <= Nul(message)
  BY <1>1, <1>2, <1>3
<1> HIDE DEF line
<1>9. line.first = first /\ line.length = feed - first /\ line.next = next
  BY DEF line
<1>10. first + (feed - first) = feed
  BY <1>1, <1>2
<1>11. Shows(message, k, line)
  <2>1. /\ line \in [first : Nat, length : Nat, next : Nat]
        /\ k <= line.first /\ line.first + line.length <= line.next /\ line.first < line.next
        /\ line.next <= Nul(message) /\ line.length <= DialogWidth
    BY <1>1, <1>2, <1>4, <1>8, <1>9, <1>10
  <2>2. \A p \in Span(line) : message[p] # "feed"
    BY <1>2, <1>5
  <2>3. \A p \in k .. line.next - 1 : message[p] = "letter" => p \in Span(line)
    BY <1>5, <1>6, <1>9
  <2>4. \A w \in Words(message) :
           w[1] \in k .. line.next - 1 /\ w[2] - w[1] < DialogWidth => w[1] .. w[2] \subseteq Span(line)
    BY <1>5, <1>7, <1>9
  <2> QED
    BY <2>1, <2>2, <2>3, <2>4 DEF Shows
<1> QED
  BY <1>11 DEF line, next

(* The paragraph is cut.                                                    *)
LEMMA CutLineShows ==
    ASSUME NEW message \in Messages, NEW k \in 1 .. Nul(message),
           NEW first, first = SkipBlanks(message, k), first # Nul(message),
           NEW feed, feed = ParagraphEnd(message, first), ~(feed - first <= DialogWidth),
           NEW cut, cut = Split(message, first),
           NEW length, length = Stripped(message, first, cut)
    PROVE  Shows(message, k, [first |-> first, length |-> length, next |-> SkipBlanks(message, first + cut)])
<1> DEFINE next == SkipBlanks(message, first + cut)
           line == [first |-> first, length |-> length, next |-> next]
<1>1. /\ Nul(message) \in Nat /\ k \in Nat /\ first \in k .. Nul(message) /\ first < Nul(message)
      /\ message[first] # "blank"
      /\ \A p \in k .. first - 1 : message[p] = "blank"
  BY CharactersOf, SkipLands
<1>2. /\ feed \in first .. Nul(message) /\ first + DialogWidth < feed
      /\ \A p \in first .. feed - 1 : message[p] # "feed"
  <2>1. first \in 1 .. Nul(message)
    BY <1>1
  <2>2. /\ feed \in first .. Nul(message)
        /\ \A p \in first .. feed - 1 : message[p] # "feed"
    BY <2>1, ParagraphLands
  <2> QED
    BY <1>1, <2>2, Sizes
<1>3. /\ cut \in 1 .. DialogWidth
      /\ \/ message[first + cut] = "blank"
         \/ cut = DialogWidth /\ \A s \in 1 .. DialogWidth : message[first + s] # "blank"
  BY SplitLands
<1>4. /\ length \in 1 .. cut
      /\ \A n \in 1 .. cut : message[first + n - 1] # "blank" => n <= length
  <2>1. first \in Nat /\ cut \in Nat \ {0}
    BY <1>1, <1>3, Sizes
  <2> QED
    BY <1>1, <2>1, StrippedLands
<1>5. /\ next \in first + cut .. Nul(message)
      /\ \A p \in first + cut .. next - 1 : message[p] = "blank"
  <2>1. first + cut \in 1 .. Nul(message)
    BY <1>1, <1>2, <1>3, Sizes
  <2> HIDE DEF next
  <2>2. next = SkipBlanks(message, first + cut)
    BY DEF next
  <2> QED
    BY <2>1, <2>2, SkipLands
<1> HIDE DEF next
<1>6. DialogWidth \in Nat \ {0} /\ cut \in Nat /\ length \in Nat /\ length <= cut /\ cut <= DialogWidth
  BY <1>3, <1>4, Sizes
<1>7. Span(line) = first .. first + length - 1
  BY DEF Span
<1>8. ASSUME NEW p \in first .. first + cut - 1, message[p] = "letter" PROVE p \in first .. first + length - 1
  <2>1. p - first + 1 \in 1 .. cut /\ first + (p - first + 1) - 1 = p
    BY <1>1, <1>6
  <2>2. p - first + 1 <= length
    BY <1>4, <1>8, <2>1
  <2> QED
    BY <1>1, <1>6, <2>2
<1>9. ASSUME NEW p \in k .. next - 1, message[p] = "letter" PROVE p \in first .. first + cut - 1
  <2>1. p \notin k .. first - 1 /\ p \notin first + cut .. next - 1
    BY <1>1, <1>5, <1>9
  <2> QED
    BY <1>1, <1>5, <1>6, <2>1
<1>10. ASSUME NEW w \in Words(message), w[1] \in k .. next - 1, w[2] - w[1] < DialogWidth
       PROVE  w[1] .. w[2] \subseteq first .. first + length - 1
  <2>1. /\ w[1] \in Nat /\ w[2] \in Nat /\ w[1] <= w[2] /\ w[2] < Nul(message)
        /\ \A p \in w[1] .. w[2] : message[p] = "letter"
        /\ w[1] = 1 \/ message[w[1] - 1] # "letter"
    BY WordsTyped, CharactersOf
  <2>2. w[1] \in first .. first + cut - 1
    BY <1>9, <1>10, <2>1
  <2>3. ASSUME w[2] >= first + cut PROVE FALSE
    <3>1. first + cut \in w[1] .. w[2]
      BY <1>1, <1>6, <2>1, <2>2, <2>3
    <3>2. message[first + cut] = "letter"
      BY <2>1, <3>1
    <3>3. cut = DialogWidth /\ \A s \in 1 .. DialogWidth : message[first + s] # "blank"
      BY <1>3, <3>2
    <3>4. ASSUME NEW p \in first .. first + DialogWidth PROVE message[p] = "letter"
      <4>1. p \in first .. feed - 1 /\ p \in 1 .. Len(message)
        <5>1. p \in Nat /\ first <= p /\ p <= first + DialogWidth /\ 1 <= first
          BY <1>1, <1>6
        <5>2. feed \in Nat /\ first + DialogWidth < feed /\ feed <= Nul(message)
          BY <1>1, <1>2
        <5>3. p < feed /\ p < Nul(message) /\ 1 <= p
          BY <1>1, <1>6, <5>1, <5>2
        <5>4. p \in 1 .. Len(message)
          BY <5>1, <5>3, CharactersOf
        <5> QED
          BY <1>1, <5>1, <5>2, <5>3, <5>4
      <4>2. message[p] # "blank"
        <5>1. CASE p = first
          BY <1>1, <5>1
        <5>2. CASE p # first
          <6>1. p - first \in 1 .. DialogWidth /\ first + (p - first) = p
            BY <1>1, <1>6, <5>2
          <6> QED
            BY <3>3, <6>1
        <5> QED
          BY <5>1, <5>2
      <4>3. message[p] \in {"letter", "blank", "feed"}
        BY <4>1, CharactersOf
      <4> QED
        BY <1>2, <4>1, <4>2, <4>3
    <3>5. w[1] = first
      <4>1. SUFFICES ASSUME w[1] # first PROVE FALSE
        OBVIOUS
      <4>2. w[1] - 1 \in first .. first + DialogWidth /\ w[1] # 1
        BY <1>1, <1>6, <2>1, <2>2, <4>1
      <4> QED
        BY <2>1, <3>4, <4>2
    <3> QED
      BY <1>1, <1>6, <1>10, <2>1, <2>3, <3>3, <3>5
  <2>4. w[2] \in first .. first + cut - 1 /\ message[w[2]] = "letter"
    BY <1>1, <1>6, <2>1, <2>2, <2>3
  <2>5. w[2] \in first .. first + length - 1
    BY <1>8, <2>4
  <2> QED
    BY <1>1, <1>6, <2>1, <2>2, <2>5
<1>11. line \in [first : Nat, length : Nat, next : Nat]
  BY <1>1, <1>5, <1>6
<1>12. first + length <= next /\ first < next /\ k <= first /\ next <= Nul(message)
  BY <1>1, <1>3, <1>4, <1>5, <1>6
<1> HIDE DEF line
<1>13. line.first = first /\ line.length = length /\ line.next = next
  BY DEF line
<1>14. Shows(message, k, line)
  <2>1. ASSUME NEW p \in Span(line) PROVE message[p] # "feed"
    <3>1. p \in Nat /\ first <= p /\ p < first + length
      BY <1>1, <1>6, <1>7
    <3>2. feed \in Nat /\ first + length < feed
      BY <1>1, <1>2, <1>6
    <3>3. p \in first .. feed - 1
      BY <1>1, <1>6, <3>1, <3>2
    <3> QED
      BY <1>2, <3>3
  <2>2. \A p \in k .. line.next - 1 : message[p] = "letter" => p \in Span(line)
    BY <1>7, <1>8, <1>9, <1>13
  <2>3. \A w \in Words(message) :
           w[1] \in k .. line.next - 1 /\ w[2] - w[1] < DialogWidth => w[1] .. w[2] \subseteq Span(line)
    BY <1>7, <1>10, <1>13
  <2>4. line.length <= DialogWidth
    BY <1>6, <1>13
  <2> QED
    BY <1>11, <1>12, <1>13, <2>1, <2>2, <2>3, <2>4 DEF Shows
<1> QED
  BY <1>14 DEF line, next

LEMMA NextLineShows ==
    ASSUME NEW message \in Messages, NEW k \in 1 .. Nul(message), SkipBlanks(message, k) # Nul(message)
    PROVE  Shows(message, k, NextWrappedLine(message, k))
<1> DEFINE first == SkipBlanks(message, k)
           feed  == ParagraphEnd(message, first)
<1>1. CASE feed - first <= DialogWidth
  BY <1>1, WholeLineShows DEF NextWrappedLine
<1>2. CASE ~(feed - first <= DialogWidth)
  BY <1>2, CutLineShows DEF NextWrappedLine
<1> QED
  BY <1>1, <1>2

(***************************************************************************)
(* All the lines from a pointer on.                                         *)
(***************************************************************************)
Line == [first : Nat, length : Nat, next : Nat]

LEMMA LinesStepByStep ==
    ASSUME NEW message \in Messages, NEW k \in 1 .. Nul(message)
    PROVE  WrappedLinesFrom(message)[k] =
              IF SkipBlanks(message, k) = Nul(message) THEN <<>>
              ELSE <<NextWrappedLine(message, k)>> \o WrappedLinesFrom(message)[NextWrappedLine(message, k).next]
<1> DEFINE End == Nul(message)
           D == 1 .. End
           S == Seq(Line)
           Next1(j) == NextWrappedLine(message, j)
           Body(h) == [j \in D |-> IF SkipBlanks(message, j) = End THEN <<>> ELSE <<Next1(j)>> \o h[Next1(j).next]]
           Value(j, h) == IF SkipBlanks(message, j) = End THEN <<>> ELSE <<Next1(j)>> \o h[Next1(j).next]
           height == [j \in D |-> End - j]
           g == [x \in D \X [D -> S] |-> Value(x[1], x[2])]
<1>1. End \in Nat /\ height \in [D -> 0 .. End]
  BY CharactersOf
<1>2. ASSUME NEW j \in D, SkipBlanks(message, j) # End
      PROVE  Next1(j) \in Line /\ Next1(j).next \in D /\ height[Next1(j).next] < height[j]
  <2>1. Shows(message, j, Next1(j))
    BY <1>2, NextLineShows
  <2>2. Next1(j) \in Line /\ j <= Next1(j).first /\ Next1(j).first < Next1(j).next /\ Next1(j).next <= End
    BY <2>1 DEF Shows, Line
  <2>3. Next1(j).first \in Nat /\ Next1(j).next \in Nat
    BY <2>2 DEF Line
  <2> HIDE DEF Next1
  <2>4. Next1(j).next \in D /\ j < Next1(j).next
    BY <1>1, <2>2, <2>3
  <2> QED
    BY <1>1, <2>2, <2>4
<1>3. ASSUME NEW j \in D, NEW h \in [D -> S] PROVE Value(j, h) \in S
  <2>1. CASE SkipBlanks(message, j) = End
    BY <2>1, EmptySeq
  <2>2. CASE SkipBlanks(message, j) # End
    <3>1. Next1(j) \in Line /\ h[Next1(j).next] \in S
      BY <1>2, <2>2
    <3> HIDE DEF Next1
    <3>2. <<Next1(j)>> \in S
      BY <3>1
    <3>3. <<Next1(j)>> \o h[Next1(j).next] \in S
      BY <3>1, <3>2, ConcatProperties
    <3> QED
      BY <2>2, <3>3
  <2> QED
    BY <2>1, <2>2
<1>4. ASSUME NEW j \in D, NEW h1 \in [D -> S], NEW h2 \in [D -> S],
             \A i \in D : height[i] < height[j] => h1[i] = h2[i]
      PROVE  Value(j, h1) = Value(j, h2)
  <2>1. CASE SkipBlanks(message, j) = End
    BY <2>1
  <2>2. CASE SkipBlanks(message, j) # End
    <3>1. h1[Next1(j).next] = h2[Next1(j).next]
      <4> HIDE DEF Next1, height
      <4> QED
        BY <1>2, <1>4, <2>2
    <3> QED
      BY <3>1
  <2> QED
    BY <2>1, <2>2
<1> DEFINE c == WrappedLinesFrom(message)
<1>5. c = CHOOSE h : h = Body(h)
  BY DEF WrappedLinesFrom
<1>6. \A h : Body(h) = [j \in D |-> Value(j, h)]
  OBVIOUS
<1> HIDE DEF Value, Body
<1>7. g \in [D \X [D -> S] -> S]
  BY <1>3
<1>8. \A j \in D, h \in [D -> S] : g[<<j, h>>] = Value(j, h)
  OBVIOUS
<1> HIDE DEF g, height
<1>9. LooksDown(D, S, height, g)
  <2> HIDE DEF D, S
  <2> QED
    BY <1>4, <1>8 DEF LooksDown
<1>10. PICK f \in [D -> S] : \A j \in D : f[j] = g[<<j, f>>]
  <2>1. S # {}
    BY EmptySeq
  <2> HIDE DEF S, D
  <2>2. Solutions(D, S, g) # {}
    BY <1>1, <1>7, <1>9, <2>1, RecursionByHeight
  <2> QED
    BY <2>2 DEF Solutions
<1>11. f = Body(f)
  BY <1>6, <1>8, <1>10
<1>12. c = Body(c)
  BY <1>5, <1>11, Zenon
<1> HIDE DEF c
<1>13. c[k] = Value(k, c)
  BY <1>6, <1>12
<1> QED
  BY <1>13 DEF c, Value

(* The lines show in their order what the message has from k on.            *)
AllShow(message, k, lines) ==
    /\ lines \in Seq(Line)
    /\ \A i \in 1 .. Len(lines) :
          /\ k <= lines[i].first /\ lines[i].first + lines[i].length <= Nul(message)
          /\ lines[i].length <= DialogWidth
          /\ \A p \in Span(lines[i]) : message[p] # "feed"
    /\ \A i, j \in 1 .. Len(lines) : i < j => lines[i].first + lines[i].length <= lines[j].first
    /\ \A p \in k .. Len(message) : message[p] = "letter" =>
          \E i \in 1 .. Len(lines) : p \in Span(lines[i])
    /\ \A w \in Words(message) : w[1] >= k /\ w[2] - w[1] < DialogWidth =>
          \E i \in 1 .. Len(lines) : w[1] .. w[2] \subseteq Span(lines[i])

LEMMA NoLinesShow ==
    ASSUME NEW message \in Messages, NEW k \in 1 .. Nul(message), SkipBlanks(message, k) = Nul(message)
    PROVE  AllShow(message, k, <<>>)
<1>1. <<>> \in Seq(Line) /\ 1 .. Len(<<>>) = {}
  BY EmptySeq
<1>2. Len(message) \in Nat /\ Nul(message) = Len(message) + 1 /\ k \in Nat
  BY CharactersOf DEF Nul
<1>3. ASSUME NEW p \in k .. Len(message) PROVE message[p] # "letter"
  <2>1. p \in k .. SkipBlanks(message, k) - 1
    BY <1>2
  <2> QED
    BY <2>1, SkipLands
<1>4. ASSUME NEW w \in Words(message) PROVE ~(w[1] >= k)
  <2>1. w[1] \in 1 .. Len(message) /\ message[w[1]] = "letter"
    BY WordsTyped
  <2>2. w[1] \notin k .. Len(message)
    BY <1>3, <2>1
  <2> QED
    BY <1>2, <2>1, <2>2
<1> QED
  BY <1>1, <1>3, <1>4 DEF AllShow

LEMMA OneMoreShows ==
    ASSUME NEW message \in Messages, NEW k \in 1 .. Nul(message),
           NEW line, Shows(message, k, line), NEW rest, AllShow(message, line.next, rest)
    PROVE  AllShow(message, k, <<line>> \o rest)
<1> DEFINE lines == <<line>> \o rest
           n == Len(rest)
<1>1. /\ line \in Line /\ line.first \in Nat /\ line.length \in Nat /\ line.next \in Nat
      /\ k <= line.first /\ line.first + line.length <= line.next /\ line.first < line.next
      /\ line.next <= Nul(message) /\ k \in Nat /\ Nul(message) \in Nat
  <2>1. line \in Line /\ line.first \in Nat /\ line.length \in Nat /\ line.next \in Nat
    BY DEF Shows, Line
  <2> QED
    BY <2>1, CharactersOf DEF Shows
<1>2. rest \in Seq(Line) /\ n \in Nat /\ \A i \in 1 .. n : rest[i] \in Line
  BY LenProperties, ElementOfSeq DEF AllShow
<1>3. /\ lines \in Seq(Line) /\ Len(lines) = n + 1 /\ lines[1] = line
      /\ \A i \in 2 .. n + 1 : lines[i] = rest[i - 1]
  <2> DEFINE one == <<line>>
  <2>1. one \in Seq(Line) /\ Len(one) = 1 /\ one[1] = line
    BY <1>1
  <2> HIDE DEF one
  <2>2. /\ one \o rest \in Seq(Line) /\ Len(one \o rest) = 1 + n
        /\ \A i \in 1 .. 1 + n : (one \o rest)[i] = IF i <= 1 THEN one[i] ELSE rest[i - 1]
    <3>1. /\ one \o rest \in Seq(Line) /\ Len(one \o rest) = Len(one) + Len(rest)
          /\ \A i \in 1 .. Len(one) + Len(rest) :
                (one \o rest)[i] = IF i <= Len(one) THEN one[i] ELSE rest[i - Len(one)]
      BY <1>2, <2>1, ConcatProperties
    <3> QED
      BY <2>1, <3>1
  <2>3. (one \o rest)[1] = line
    BY <1>2, <2>1, <2>2
  <2>4. \A i \in 2 .. n + 1 : (one \o rest)[i] = rest[i - 1]
    BY <1>2, <2>2
  <2>5. Len(one \o rest) = n + 1
    BY <1>2, <2>2
  <2> QED
    BY <2>2, <2>3, <2>4, <2>5 DEF one
<1> HIDE DEF lines, n
<1>4. 1 \in 1 .. n + 1 /\ \A i \in 1 .. n : i + 1 \in 2 .. n + 1 /\ i + 1 \in 1 .. n + 1 /\ lines[i + 1] = rest[i]
  BY <1>2, <1>3
<1>5. \A i \in 1 .. n + 1 : i = 1 \/ (i \in 2 .. n + 1 /\ i - 1 \in 1 .. n /\ lines[i] = rest[i - 1])
  BY <1>2, <1>3
<1>6. \A i \in 1 .. n :
         /\ line.next <= rest[i].first /\ rest[i].first + rest[i].length <= Nul(message)
         /\ rest[i].length <= DialogWidth
         /\ rest[i].first \in Nat
         /\ \A p \in Span(rest[i]) : message[p] # "feed"
  BY <1>2 DEF AllShow, Line, n
<1>7. ASSUME NEW i \in 1 .. n + 1
      PROVE  /\ k <= lines[i].first /\ lines[i].first + lines[i].length <= Nul(message)
             /\ lines[i].length <= DialogWidth
             /\ \A p \in Span(lines[i]) : message[p] # "feed"
  <2>1. CASE i = 1
    BY <1>1, <1>3, <2>1 DEF Shows
  <2>2. CASE i - 1 \in 1 .. n /\ lines[i] = rest[i - 1]
    BY <1>1, <1>6, <2>2
  <2> QED
    BY <1>5, <2>1, <2>2
<1>8. ASSUME NEW i \in 1 .. n + 1, NEW j \in 1 .. n + 1, i < j
      PROVE  lines[i].first + lines[i].length <= lines[j].first
  <2>1. j - 1 \in 1 .. n /\ lines[j] = rest[j - 1]
    BY <1>2, <1>5, <1>8
  <2>2. CASE i = 1
    BY <1>1, <1>3, <1>6, <2>1, <2>2
  <2>3. CASE i - 1 \in 1 .. n /\ lines[i] = rest[i - 1]
    <3>1. i - 1 < j - 1
      BY <1>2, <1>8
    <3> QED
      BY <2>1, <2>3, <3>1 DEF AllShow, n
  <2> QED
    BY <1>5, <2>2, <2>3
<1>9. ASSUME NEW p \in k .. Len(message), message[p] = "letter"
      PROVE  \E i \in 1 .. n + 1 : p \in Span(lines[i])
  <2>1. CASE p < line.next
    <3>1. p \in k .. line.next - 1
      BY <1>1, <2>1
    <3>2. p \in Span(lines[1])
      BY <1>3, <1>9, <3>1 DEF Shows
    <3> QED
      BY <1>4, <3>2
  <2>2. CASE ~(p < line.next)
    <3>1. p \in line.next .. Len(message)
      BY <1>1, <2>2, CharactersOf
    <3>2. PICK i \in 1 .. n : p \in Span(rest[i])
      BY <1>9, <3>1 DEF AllShow, n
    <3> QED
      BY <1>4, <3>2
  <2> QED
    BY <2>1, <2>2
<1>10. ASSUME NEW w \in Words(message), w[1] >= k, w[2] - w[1] < DialogWidth
       PROVE  \E i \in 1 .. n + 1 : w[1] .. w[2] \subseteq Span(lines[i])
  <2>1. w[1] \in Nat
    BY WordsTyped, CharactersOf
  <2>2. CASE w[1] < line.next
    <3>1. w[1] \in k .. line.next - 1
      BY <1>1, <1>10, <2>1, <2>2
    <3>2. w[1] .. w[2] \subseteq Span(lines[1])
      BY <1>3, <1>10, <3>1 DEF Shows
    <3> QED
      BY <1>4, <3>2
  <2>3. CASE ~(w[1] < line.next)
    <3>1. w[1] >= line.next
      BY <1>1, <2>1, <2>3
    <3>2. PICK i \in 1 .. n : w[1] .. w[2] \subseteq Span(rest[i])
      BY <1>10, <3>1 DEF AllShow, n
    <3> QED
      BY <1>4, <3>2
  <2> QED
    BY <2>2, <2>3
<1>11. AllShow(message, k, lines)
  BY <1>3, <1>7, <1>8, <1>9, <1>10 DEF AllShow
<1> QED
  BY <1>11 DEF lines

LEMMA WrappedLinesShow ==
    ASSUME NEW message \in Messages, NEW k \in 1 .. Nul(message)
    PROVE  AllShow(message, k, WrappedLinesFrom(message)[k])
<1> DEFINE End == Nul(message)
           D == 1 .. End
           height == [j \in D |-> End - j]
           T == {j \in D : AllShow(message, j, WrappedLinesFrom(message)[j])}
<1>1. End \in Nat /\ height \in [D -> 0 .. End]
  BY CharactersOf
<1>2. ASSUME NEW j \in D, \A i \in D : height[i] < height[j] => i \in T
      PROVE  j \in T
  <2>1. CASE SkipBlanks(message, j) = End
    <3>1. WrappedLinesFrom(message)[j] = <<>>
      BY <2>1, LinesStepByStep
    <3> QED
      BY <2>1, <3>1, NoLinesShow
  <2>2. CASE SkipBlanks(message, j) # End
    <3> DEFINE line == NextWrappedLine(message, j)
    <3>1. Shows(message, j, line)
      BY <2>2, NextLineShows
    <3>2. WrappedLinesFrom(message)[j] = <<line>> \o WrappedLinesFrom(message)[line.next]
      BY <2>2, LinesStepByStep
    <3> HIDE DEF line
    <3>3. line.next \in D /\ j < line.next
      <4>1. line.first \in Nat /\ line.next \in Nat
        BY <3>1 DEF Shows
      <4> QED
        BY <1>1, <3>1, <4>1 DEF Shows
    <3>4. height[line.next] < height[j]
      BY <1>1, <3>3
    <3>5. AllShow(message, line.next, WrappedLinesFrom(message)[line.next])
      BY <1>2, <3>3, <3>4
    <3> QED
      BY <3>1, <3>2, <3>5, OneMoreShows
  <2> QED
    BY <2>1, <2>2
<1>3. D \subseteq T
  <2> HIDE DEF T, D, height
  <2> QED
    BY <1>1, <1>2, InductionByHeight
<1> QED
  BY <1>3

LEMMA WarningsAreInView ==
    ASSUME NEW d, d.message \in Messages
    PROVE  ConfirmInView(d)
<1> DEFINE message == d.message
           lines == WrappedLines(message)
<1>1. message \in Messages
  OBVIOUS
<1> HIDE DEF message
<1>2. AllShow(message, 1, lines)
  <2>1. 1 \in 1 .. Nul(message)
    BY <1>1, CharactersOf
  <2> QED
    BY <1>1, <2>1, WrappedLinesShow DEF WrappedLines
<1> HIDE DEF lines
<1>3. /\ DOMAIN lines = 1 .. Len(lines) /\ \A i \in 1 .. Len(lines) : lines[i] \in Line
      /\ DOMAIN message = 1 .. Len(message) /\ Len(message) \in Nat /\ Nul(message) = Len(message) + 1
  <2>1. lines \in Seq(Line)
    BY <1>2 DEF AllShow
  <2> QED
    BY <1>1, <2>1, LenProperties, ElementOfSeq, CharactersOf DEF Nul
<1>4. ASSUME NEW i \in DOMAIN lines
      PROVE  /\ lines[i].length <= DialogWidth
             /\ \A p \in Span(lines[i]) : p \in DOMAIN message /\ message[p] # "feed"
  <2>1. /\ 1 <= lines[i].first /\ lines[i].first + lines[i].length <= Nul(message)
        /\ lines[i].length <= DialogWidth /\ \A p \in Span(lines[i]) : message[p] # "feed"
    BY <1>2, <1>3 DEF AllShow
  <2>2. lines[i].first \in Nat /\ lines[i].length \in Nat
    BY <1>3 DEF Line
  <2>3. \A p \in Span(lines[i]) : p \in DOMAIN message
    BY <1>3, <2>1, <2>2 DEF Span
  <2> QED
    BY <2>1, <2>3
<1>5. \A i, j \in DOMAIN lines : i < j => lines[i].first + lines[i].length <= lines[j].first
  BY <1>2, <1>3 DEF AllShow
<1>6. \A p \in DOMAIN message : message[p] = "letter" => \E i \in DOMAIN lines : p \in Span(lines[i])
  BY <1>2, <1>3 DEF AllShow
<1>7. ASSUME NEW w \in Words(message), w[2] - w[1] < DialogWidth
      PROVE  \E i \in DOMAIN lines : w[1] .. w[2] \subseteq Span(lines[i])
  <2>1. w[1] >= 1
    BY <1>1, <1>3, WordsTyped
  <2> QED
    BY <1>2, <1>3, <1>7, <2>1 DEF AllShow
<1> QED
  BY <1>4, <1>5, <1>6, <1>7 DEF ConfirmInView, lines, message

-----------------------------------------------------------------------------
(***************************************************************************)
(* The target.                                                              *)
(***************************************************************************)
LEMMA RequiredAreGroups ==
    ASSUME NEW s \in Settings
    PROVE  RequiredGroups(s) \subseteq Groups
<1>1. KernelGroup(s.kernel) \subseteq Groups
  BY DEF Settings, KernelGroup, Groups
<1>2. /\ PlatformGroup(s.platform) \subseteq Groups /\ LaptopGroups(s) \subseteq Groups
      /\ RecommendedGroup(s.desktop) \subseteq Groups /\ InputGroup(s.desktop) \subseteq Groups
      /\ FixedGroups \subseteq Groups
  BY DEF PlatformGroup, LaptopGroups, LaptopFirmware, RecommendedGroup, InputGroup, FixedGroups, Only, Groups
<1>3. DesktopGroup(s.desktop) \subseteq Groups
  BY DEF Settings, Desktops, DesktopGroup, Groups
<1>4. {OwnGroup[f] : f \in s.on \cap DOMAIN OwnGroup} \subseteq Groups
  BY DEF Groups
<1>5. {"local_mirror_live"} \subseteq Groups /\ {"secure_boot_live"} \subseteq Groups
  BY DEF Groups
<1> QED
  BY <1>1, <1>2, <1>3, <1>4, <1>5 DEF RequiredGroups, Only

(* Each function of the script installs required groups and none of the     *)
(* tools of the Live system.                                                *)
LEMMA PartsAreRequired ==
    ASSUME NEW s \in Settings
    PROVE  /\ BaseGroups(s) \subseteq RequiredGroups(s) /\ CoreGroups(s) \subseteq RequiredGroups(s)
           /\ DriverGroups(s) \subseteq RequiredGroups(s) /\ DesktopGroups(s) \subseteq RequiredGroups(s)
           /\ "fonts" \in RequiredGroups(s) /\ OptionalGroups(s) \subseteq RequiredGroups(s)
<1>1. s.desktop \in Desktops
  BY DEF Settings
<1>2. ScriptGroups(s) \subseteq RequiredGroups(s)
  BY <1>1, ResolvedIsInstalled
<1> QED
  BY <1>2 DEF ScriptGroups

LEMMA NothingLiveInstalled ==
    ASSUME NEW s \in Settings
    PROVE  ScriptGroups(s) \cap LiveGroups = {}
<1>1. KernelGroup(s.kernel) \cap LiveGroups = {}
  BY DEF Settings, Kernels, KernelGroup, KernelGroups, LiveGroups
<1>2. (BaseGroups(s) \cup CoreGroups(s) \cup DesktopGroups(s) \cup {"fonts"}) \cap LiveGroups = {}
  BY <1>1 DEF BaseGroups, CoreGroups, DesktopGroups, PlatformGroup, Only, LiveGroups
<1>3. \A f \in DOMAIN OwnGroup : OwnGroup[f] \notin LiveGroups
  BY DEF OwnGroup, LiveGroups
<1>4. (DriverGroups(s) \cup OptionalGroups(s)) \cap LiveGroups = {}
  BY <1>3, OwnGroupsInstalled
<1> QED
  BY <1>2, <1>4 DEF ScriptGroups

(* What the previews show, with the fixed groups and without the Live       *)
(* tools, is what the functions of the script install.                      *)
LEMMA ShownIsInstalled ==
    ASSUME NEW s \in Settings
    PROVE  (Shown(s) \cup FixedGroups) \ LiveGroups = ScriptGroups(s)
<1>1. s.desktop \in Desktops
  BY DEF Settings
<1>2. RequiredGroups(s) = FixedGroups \cup Shown(s)
  BY PreviewsShowWhatIsRequired
<1>3. RequiredGroups(s) \ LiveGroups = ScriptGroups(s) \ LiveGroups
  BY <1>1, ResolvedIsInstalled DEF Only, LiveGroups
<1>4. ScriptGroups(s) \ LiveGroups = ScriptGroups(s)
  BY NothingLiveInstalled
<1> QED
  BY <1>2, <1>3, <1>4

(* Every unit that is enabled belongs to an installed group. *)
LEMMA UnitsAreRequired ==
    ASSUME System \in Settings
    PROVE  UnitGroups \subseteq RequiredGroups(System)
<1>1. {OwnGroup[f] : f \in System.on \cap DOMAIN OwnGroup} \subseteq RequiredGroups(System)
  BY DEF RequiredGroups
<1>2. \A f \in {"bluetooth", "firewall", "printer"} : f \in DOMAIN OwnGroup /\ OwnGroup[f] = f
  BY DEF OwnGroup
<1>3. \A f \in {"bluetooth", "firewall", "printer"} : On(f) => f \in RequiredGroups(System)
  BY <1>1, <1>2 DEF On
<1>4. "core" \in RequiredGroups(System) /\ DesktopGroup(System.desktop) \subseteq RequiredGroups(System)
  BY DEF RequiredGroups, FixedGroups
<1>5. On("laptop") => "laptop_tools" \in RequiredGroups(System)
  BY DEF RequiredGroups, LaptopGroups, LaptopFirmware, Only, On
<1> QED
  BY <1>3, <1>4, <1>5 DEF UnitGroups, Only

(* A step of the script with the constants it was given.                    *)
LEMMA SystemKept ==
    ASSUME ScriptInv, TargetNext
    PROVE  /\ System \in Settings /\ ValidSettings(System)
           /\ System' = System /\ Empty' = Empty /\ Unknown' = Unknown
<1>1. UNCHANGED script_file /\ at \in Steps
  BY TargetFrame DEF fileVars
<1> QED
  BY <1>1 DEF ScriptInv, System, Empty, Unknown

(* The groups behind each step. *)
LEMMA GroupsBehind ==
    ASSUME NEW s
    PROVE  /\ \A step \in LiveSteps : GroupsBefore(step, s) = {}
           /\ \A step \in {"identity", "core"} : GroupsBefore(step, s) = BaseGroups(s)
           /\ GroupsBefore("drivers", s) = GroupsBefore("core", s) \cup CoreGroups(s)
           /\ GroupsBefore("desktop", s) = GroupsBefore("drivers", s) \cup DriverGroups(s)
           /\ GroupsBefore("fonts", s) = GroupsBefore("desktop", s) \cup DesktopGroups(s)
           /\ GroupsBefore("optional", s) = GroupsBefore("fonts", s) \cup {"fonts"}
           /\ GroupsBefore("initramfs", s) = GroupsBefore("optional", s) \cup OptionalGroups(s)
           /\ \A step \in {"initramfs", "loader", "units", "account", "mirrors", "finished"} :
                 GroupsBefore(step, s) = ScriptGroups(s)
<1> USE DEF GroupsBefore, BehindOptional, BehindFonts, BehindDesktop, BehindDrivers, BehindCore,
            BehindBase, ChrootSteps, Only
<1>1. \A step \in LiveSteps : GroupsBefore(step, s) = {}
  BY DEF LiveSteps
<1>2. \A step \in {"identity", "core"} : GroupsBefore(step, s) = BaseGroups(s)
  OBVIOUS
<1>3. /\ GroupsBefore("drivers", s) = GroupsBefore("core", s) \cup CoreGroups(s)
      /\ GroupsBefore("desktop", s) = GroupsBefore("drivers", s) \cup DriverGroups(s)
  OBVIOUS
<1>4. /\ GroupsBefore("fonts", s) = GroupsBefore("desktop", s) \cup DesktopGroups(s)
      /\ GroupsBefore("optional", s) = GroupsBefore("fonts", s) \cup {"fonts"}
  OBVIOUS
<1>5. GroupsBefore("initramfs", s) = GroupsBefore("optional", s) \cup OptionalGroups(s)
  OBVIOUS
<1>6. \A step \in {"initramfs", "loader", "units", "account", "mirrors", "finished"} :
         GroupsBefore(step, s) = ScriptGroups(s)
  BY DEF ScriptGroups
<1> QED
  BY <1>1, <1>2, <1>3, <1>4, <1>5, <1>6

LEMMA InstalledKept ==
    ASSUME ScriptInv, InstalledInv, TargetNext
    PROVE  InstalledInv'
<1> DEFINE Behind(step) == GroupsBefore(step, System)
<1>1. System' = System /\ Empty' = Empty
  BY SystemKept
<1>2. at \in Steps /\ installed = Behind(at) \ Empty
  BY TargetFrame DEF InstalledInv
<1>3. SUFFICES ASSUME at' \in Steps \cup {"finished"}
               PROVE  installed' = Behind(at') \ Empty
  BY <1>1 DEF InstalledInv
<1> HIDE DEF Behind
<1>4. /\ \A step \in LiveSteps : Behind(step) = {}
      /\ \A step \in {"identity", "core"} : Behind(step) = BaseGroups(System)
      /\ Behind("drivers") = Behind("core") \cup CoreGroups(System)
      /\ Behind("desktop") = Behind("drivers") \cup DriverGroups(System)
      /\ Behind("fonts") = Behind("desktop") \cup DesktopGroups(System)
      /\ Behind("optional") = Behind("fonts") \cup {"fonts"}
      /\ Behind("initramfs") = Behind("optional") \cup OptionalGroups(System)
      /\ \A step \in {"initramfs", "loader", "units", "account", "mirrors", "finished"} :
            Behind(step) = ScriptGroups(System)
  BY GroupsBehind DEF Behind
<1>5. CASE SelectSource \/ InstallSigningTools \/ ResolvePackages \/ PrepareStorage
  BY <1>2, <1>4, <1>5 DEF SelectSource, InstallSigningTools, ResolvePackages, PrepareStorage, Step, Goes,
     targetVars, LiveSteps
<1>6. CASE InstallBaseSystem \/ ConfigureBase \/ InstallCorePackages \/ InstallDrivers
  BY <1>2, <1>4, <1>6 DEF InstallBaseSystem, ConfigureBase, InstallCorePackages, InstallDrivers, Step,
     Goes, Installs, targetVars, LiveSteps
<1>7. CASE InstallDesktop \/ InstallFonts \/ InstallOptionalSoftware
  BY <1>2, <1>4, <1>7 DEF InstallDesktop, InstallFonts, InstallOptionalSoftware, Step, Goes, Installs
<1>8. CASE RebuildInitramfs \/ ConfigureBootloader \/ EnableUnits \/ CreateAccount \/ ConfigureMirrors
  BY <1>2, <1>4, <1>8 DEF RebuildInitramfs, ConfigureBootloader, EnableUnits, CreateAccount,
     ConfigureMirrors, Step, Goes, targetVars
<1>9. CASE Refuse \/ Fail
  BY <1>3, <1>9 DEF Refuse, Fail, Steps, LiveSteps, ChrootSteps
<1> QED
  BY <1>5, <1>6, <1>7, <1>8, <1>9, Zenon DEF TargetNext

(* After the resolution only an emptied group or the account name is in the *)
(* way of a step for certain.                                               *)
LEMMA LateObstacles ==
    ASSUME System \in Settings, at \in {"base"} \cup ChrootSteps, Obstructed(at),
           InstalledInv, ResolvedInv
    PROVE  RequiredGroups(System) \cap Empty # {} \/ System.identity = "taken"
<1> DEFINE required == RequiredGroups(System)
           Behind(step) == GroupsBefore(step, System)
<1>1. required \cap Unknown = {}
  BY DEF ResolvedInv, Unresolved, BehindBase
<1>2. installed = Behind(at) \ Empty
  BY DEF InstalledInv, Steps, LiveSteps
<1>3. /\ BaseGroups(System) \subseteq required /\ CoreGroups(System) \subseteq required
      /\ DriverGroups(System) \subseteq required /\ DesktopGroups(System) \subseteq required
      /\ {"fonts"} \subseteq required /\ OptionalGroups(System) \subseteq required
  BY PartsAreRequired
<1>4. \A group \in required : group \in Behind(at) => Has(group) \/ required \cap Empty # {}
  BY <1>2 DEF Has
<1>5. /\ "bootstrap" \in BaseGroups(System) /\ KernelGroups[System.kernel] \in BaseGroups(System)
      /\ "core" \in CoreGroups(System)
  BY DEF BaseGroups, CoreGroups, KernelGroup
<1>6. BaseGroups(System) \cup CoreGroups(System) \subseteq ScriptGroups(System)
  BY DEF ScriptGroups
<1> HIDE DEF required, Behind
<1>7. \A groups : groups \subseteq required => ~Unresolved(groups)
  BY <1>1 DEF Unresolved
<1>8. CASE at = "base"
  <2>1. BaseGroups(System) \subseteq Empty
    BY <1>3, <1>7, <1>8 DEF Obstructed, Unobtainable
  <2> QED
    BY <1>3, <1>5, <2>1 DEF required
<1>9. CASE at \in {"identity", "drivers", "initramfs"}
  <2>1. BaseGroups(System) \subseteq Behind(at)
    BY <1>6, <1>9, GroupsBehind DEF Behind
  <2>2. ~Has("bootstrap") \/ ~Has(KernelGroups[System.kernel])
    BY <1>3, <1>7, <1>9 DEF Obstructed
  <2> QED
    BY <1>3, <1>4, <1>5, <2>1, <2>2 DEF required
<1>10. CASE at \in {"core", "desktop", "fonts", "optional", "loader", "mirrors"}
  BY <1>3, <1>7, <1>10 DEF Obstructed
<1>11. CASE at = "units"
  <2>1. UnitGroups \subseteq required
    BY UnitsAreRequired DEF required
  <2>2. UnitGroups \cap LiveGroups = {}
    BY DEF UnitGroups, LiveGroups, Only, DesktopGroup, Settings, Desktops
  <2>3. required \ LiveGroups \subseteq ScriptGroups(System)
    <3>1. System.desktop \in Desktops
      BY DEF Settings
    <3> QED
      BY <3>1, ResolvedIsInstalled DEF required, Only, LiveGroups
  <2>4. Behind(at) = ScriptGroups(System)
    BY <1>11, GroupsBehind DEF Behind
  <2>5. PICK group \in UnitGroups : ~Has(group)
    BY <1>11 DEF Obstructed, Has
  <2> QED
    BY <1>4, <2>1, <2>2, <2>3, <2>4, <2>5 DEF required
<1>12. CASE at = "account"
  <2>1. "core" \in Behind(at)
    BY <1>5, <1>6, <1>12, GroupsBehind DEF Behind
  <2>2. ~Has("core") \/ System.identity = "taken"
    BY <1>12 DEF Obstructed
  <2> QED
    BY <1>3, <1>4, <1>5, <2>1, <2>2 DEF required
<1> QED
  BY <1>8, <1>9, <1>10, <1>11, <1>12 DEF ChrootSteps

LEMMA ResolvedKept ==
    ASSUME ScriptInv, InstalledInv, ResolvedInv, TargetNext
    PROVE  ResolvedInv'
<1>1. System \in Settings /\ System' = System /\ Empty' = Empty /\ Unknown' = Unknown
  BY SystemKept
<1>2. at \in Steps
  BY TargetFrame
<1>3. CASE SelectSource \/ InstallSigningTools \/ ResolvePackages \/ PrepareStorage
  BY <1>1, <1>3 DEF SelectSource, InstallSigningTools, ResolvePackages, PrepareStorage, Step, Goes,
     targetVars, ResolvedInv, NoLateSurprise, Obstructed, Unobtainable, Unresolved, BehindBase, ChrootSteps
<1>4. CASE InstallBaseSystem \/ ConfigureBase \/ InstallCorePackages \/ InstallDrivers
           \/ InstallDesktop \/ InstallFonts \/ InstallOptionalSoftware
  BY <1>1, <1>4 DEF InstallBaseSystem, ConfigureBase, InstallCorePackages, InstallDrivers,
     InstallDesktop, InstallFonts, InstallOptionalSoftware, Step, Goes,
     targetVars, ResolvedInv, NoLateSurprise, Unresolved, BehindBase, ChrootSteps
<1>5. CASE RebuildInitramfs \/ ConfigureBootloader \/ EnableUnits \/ CreateAccount \/ ConfigureMirrors
  BY <1>1, <1>5 DEF RebuildInitramfs, ConfigureBootloader, EnableUnits, CreateAccount, ConfigureMirrors,
     Step, Goes, targetVars, ResolvedInv, NoLateSurprise, Unresolved, BehindBase, ChrootSteps
<1>6. CASE Fail
  BY <1>6 DEF Fail, ResolvedInv, NoLateSurprise, BehindBase, ChrootSteps
<1>7. CASE Refuse
  <2>1. at' \in {"refused_early", "refused_late"} /\ (at' = "refused_late" => erased)
    BY <1>7 DEF Refuse
  <2>2. at' = "refused_late" => RequiredGroups(System) \cap Empty # {} \/ System.identity = "taken"
    <3>1. erased => at \in {"base"} \cup ChrootSteps
      BY <1>2 DEF ResolvedInv, Steps, LiveSteps
    <3>2. Obstructed(at)
      BY <1>7 DEF Refuse
    <3> QED
      BY <1>1, <2>1, <3>1, <3>2, LateObstacles
  <2> QED
    BY <1>1, <2>1, <2>2 DEF ResolvedInv, NoLateSurprise, BehindBase, ChrootSteps
<1> QED
  BY <1>3, <1>4, <1>5, <1>6, <1>7, Zenon DEF TargetNext

LEMMA BootableKept ==
    ASSUME ScriptInv, BootableInv, TargetNext
    PROVE  BootableInv'
<1>1. /\ ValidSettings(System) /\ System' = System
      /\ (On("local_mirror"))' = On("local_mirror")
  BY SystemKept DEF On
<1>2. On("local_mirror") => On("china_mirrors")
  BY <1>1 DEF ValidSettings, On
<1>3. CASE SelectSource \/ InstallSigningTools \/ ResolvePackages \/ PrepareStorage
           \/ InstallBaseSystem \/ ConfigureBase \/ InstallCorePackages \/ InstallDrivers
  BY <1>1, <1>3 DEF SelectSource, InstallSigningTools, ResolvePackages, PrepareStorage, InstallBaseSystem,
     ConfigureBase, InstallCorePackages, InstallDrivers, Step, Goes, targetVars, BootableInv, Steps,
     LiveSteps, ChrootSteps
<1>4. CASE InstallDesktop \/ InstallFonts \/ InstallOptionalSoftware
  BY <1>1, <1>4 DEF InstallDesktop, InstallFonts, InstallOptionalSoftware, Step, Goes, BootableInv, Steps,
     LiveSteps, ChrootSteps
<1>5. CASE RebuildInitramfs
  <2>1. KernelGroup(System.kernel) \subseteq installed
    BY <1>5 DEF RebuildInitramfs, Step, Goes, Obstructed, Has, KernelGroup
  <2> QED
    BY <1>1, <1>5, <2>1 DEF RebuildInitramfs, Step, Goes, BootableInv, Steps, LiveSteps, ChrootSteps
<1>6. CASE ConfigureBootloader \/ EnableUnits \/ CreateAccount
  BY <1>1, <1>6 DEF ConfigureBootloader, EnableUnits, CreateAccount, Step, Goes, targetVars, BootableInv,
     Steps, LiveSteps, ChrootSteps
<1>7. CASE ConfigureMirrors
  <2>1. mirrors' \notin {"live", "loopback"}
    BY <1>2, <1>7 DEF ConfigureMirrors, Step, Goes, BootableInv, Steps, LiveSteps, ChrootSteps
  <2> QED
    BY <1>1, <1>7, <2>1 DEF ConfigureMirrors, Step, Goes, BootableInv, Steps, LiveSteps, ChrootSteps
<1>8. CASE Refuse \/ Fail
  <2>1. at' \in {"refused_early", "refused_late", "failed"}
    BY <1>8 DEF Refuse, Fail
  <2> QED
    BY <2>1 DEF BootableInv, Steps, LiveSteps, ChrootSteps
<1> QED
  BY <1>3, <1>4, <1>5, <1>6, <1>7, <1>8, Zenon DEF TargetNext

LEMMA TypesKept ==
    ASSUME ScriptInv, TargetTypes, TargetNext
    PROVE  TargetTypes'
<1>1. System \in Settings /\ at' \in Steps \cup Finals
  BY SystemKept, TargetFrame
<1>2. ASSUME NEW groups \in {BaseGroups(System), CoreGroups(System), DriverGroups(System),
                             DesktopGroups(System), {"fonts"}, OptionalGroups(System)},
             Installs(groups)
      PROVE  installed' \subseteq Groups
  <2>1. groups \subseteq RequiredGroups(System) /\ RequiredGroups(System) \subseteq Groups
    BY <1>1, PartsAreRequired, RequiredAreGroups
  <2> QED
    BY <1>2, <2>1 DEF Installs, TargetTypes
<1>3. CASE SelectSource \/ InstallSigningTools \/ ResolvePackages \/ PrepareStorage \/ ConfigureBase
           \/ RebuildInitramfs \/ EnableUnits \/ CreateAccount \/ ConfigureMirrors \/ Refuse \/ Fail
  BY <1>1, <1>3 DEF SelectSource, InstallSigningTools, ResolvePackages, PrepareStorage, ConfigureBase,
     RebuildInitramfs, EnableUnits, CreateAccount, ConfigureMirrors, Refuse, Fail, targetVars, TargetTypes
<1>4. CASE InstallBaseSystem \/ InstallCorePackages \/ InstallDrivers \/ InstallDesktop \/ InstallFonts
           \/ InstallOptionalSoftware
  <2>1. installed' \subseteq Groups
    BY <1>2, <1>4 DEF InstallBaseSystem, InstallCorePackages, InstallDrivers, InstallDesktop,
       InstallFonts, InstallOptionalSoftware
  <2> QED
    BY <1>1, <1>4, <2>1 DEF InstallBaseSystem, InstallCorePackages, InstallDrivers, InstallDesktop,
       InstallFonts, InstallOptionalSoftware, TargetTypes
<1>5. CASE ConfigureBootloader
  <2>1. entry' \subseteq Groups
    BY <1>1, <1>5, PartsAreRequired, RequiredAreGroups DEF ConfigureBootloader, BaseGroups
  <2> QED
    BY <1>1, <1>5, <2>1 DEF ConfigureBootloader, TargetTypes
<1> QED
  BY <1>3, <1>4, <1>5, Zenon DEF TargetNext

(* Before the script runs, and when it starts. *)
LEMMA NotYetInstalling ==
    ASSUME TargetTypes, at \notin Steps \cup Finals, UNCHANGED targetVars,
           at' \notin Steps \cup Finals \/ at' = "sources"
    PROVE  TargetInv'
<1>1. installed' = {} /\ ~erased'
  BY DEF TargetTypes, targetVars
<1>2. TargetTypes' /\ BootableInv'
  BY <1>1 DEF TargetTypes, BootableInv, targetVars, Steps, LiveSteps, ChrootSteps, Finals
<1>3. ResolvedInv'
  BY <1>1 DEF ResolvedInv, NoLateSurprise, BehindBase, Steps, LiveSteps, ChrootSteps, Finals
<1>4. InstalledInv'
  <2>1. at' = "sources" => GroupsBefore(at', System') = {}
    BY GroupsBehind DEF LiveSteps
  <2> QED
    BY <1>1, <2>1 DEF InstalledInv, Finals
<1> QED
  BY <1>2, <1>3, <1>4 DEF TargetInv

LEMMA TargetKept ==
    ASSUME ScriptInv, TargetInv, [ProgramNext]_programVars
    PROVE  TargetInv'
<1> USE DEF EarlySteps, BuilderEnds
<1>1. CASE TargetNext
  BY <1>1, TypesKept, InstalledKept, ResolvedKept, BootableKept DEF TargetInv
<1>2. CASE (FirstSteps \/ PlanSteps \/ DetectionSteps \/ SessionNext) /\ UNCHANGED targetVars
  <2>1. at \notin Steps \cup Finals /\ at' \notin Steps \cup Finals
    BY <1>2, FirstFrame, PlanFrame, DetectionFrame, SessionFrame DEF Steps, LiveSteps, ChrootSteps, Finals
  <2> QED
    BY <1>2, <2>1, NotYetInstalling DEF TargetInv
<1>3. CASE StartInstaller
  <2>1. at \notin Steps \cup Finals /\ at' = "sources" /\ UNCHANGED targetVars
    BY <1>3 DEF StartInstaller, Steps, LiveSteps, ChrootSteps, Finals
  <2> QED
    BY <2>1, NotYetInstalling DEF TargetInv
<1>4. CASE UNCHANGED programVars
  <2>1. UNCHANGED <<at, script_file, targetVars>>
    BY <1>4 DEF programVars, startupVars
  <2>2. System' = System /\ Empty' = Empty /\ Unknown' = Unknown /\ (On("local_mirror"))' = On("local_mirror")
    BY <2>1 DEF System, Empty, Unknown, On
  <2> QED
    BY <2>1, <2>2 DEF TargetInv, TargetTypes, InstalledInv, ResolvedInv, BootableInv, NoLateSurprise,
       Unresolved, targetVars
<1> QED
  BY <1>1, <1>2, <1>3, <1>4, ProgramSteps
-----------------------------------------------------------------------------
LEMMA ProgramBegins ==
    ASSUME ProgramInit
    PROVE  ProgramInv
<1> USE DEF ProgramInit, StartupInit, SessionInit, TargetInit
<1>1. CaptureInv
  BY CaptureInitInv
<1>2. FilesInv /\ ScriptInv /\ AgreedInv
  <2>1. config.kind \in {"absent", "special", "broken", "packages"}
    BY FilesAssumption DEF FilesAssumption, NoFile, Special, Broken
  <2>2. plan \in PlansInMemory
    BY InitialPlanTyped
  <2>3. dirty \in BOOLEAN /\ changes \in 0 .. MaxChanges
    <3>1. dirty = FALSE /\ changes = 0
      OBVIOUS
    <3>2. 0 \in 0 .. MaxChanges
      BY PagesAssumption DEF PagesAssumption
    <3> QED
      BY <3>1, <3>2
  <2>4. FilesInv
    BY <2>1, <2>2, <2>3 DEF FilesInv, EarlySteps, NoFile, PathRelations, PlanOutlivesScript
  <2>5. ScriptInv /\ AgreedInv
    BY DEF ScriptInv, AgreedInv, NoFile, PackageFileReplacedOnlyWhenAgreed, Steps, LiveSteps, ChrootSteps, Finals
  <2> QED
    BY <2>4, <2>5
<1>3. LoadedInv /\ DetectedInv /\ DialogInv
  BY DEF LoadedInv, DetectedInv, DialogInv
<1>4. TargetInv
  BY DEF TargetInv, TargetTypes, InstalledInv, ResolvedInv, BootableInv, NoLateSurprise, Steps, LiveSteps,
     ChrootSteps, Finals, BehindBase
<1> QED
  BY <1>1, <1>2, <1>3, <1>4 DEF ProgramInv

LEMMA ProgramInvariant == ProgramSpec => []ProgramInv
<1>1. ProgramInit => ProgramInv
  BY ProgramBegins
<1>2. ProgramInv /\ [ProgramNext]_programVars => ProgramInv'
  BY CaptureKept, FilesKept, ScriptKept, AgreedKept, LoadedKept, DetectedKept, DialogKept, TargetKept
     DEF ProgramInv
<1> QED
  BY <1>1, <1>2, PTL DEF ProgramSpec

-----------------------------------------------------------------------------
(* Main.c to the end of the script: every value stays one the C types, the  *)
(* validation and the state of the call to lsblk allow, whatever files the  *)
(* operator has, and a plan in memory always has settings the pages know.   *)
THEOREM ProgramTypeCorrect == ProgramSpec => []ProgramTypeOK
<1>1. ProgramInv => ProgramTypeOK
  <2>1. CaptureInv => CaptureTypeOK
    BY DEF CaptureInv
  <2>2. plan \in PlansInMemory => plan.system \in Settings
    BY DEF PlansInMemory
  <2> QED
    BY <2>1, <2>2 DEF ProgramInv, FilesInv, AgreedInv, TargetInv, TargetTypes, ProgramTypeOK, EarlySteps,
       BuilderEnds, Finals
<1> QED
  BY <1>1, ProgramInvariant, PTL

(* json.c in the program: whatever plan file the operator names, one that   *)
(* was accepted and that the program could have written is in memory as it  *)
(* is on disk, and saving it writes the same file.                          *)
THEOREM AcceptedPlansAreKept == ProgramSpec => []PlanIsReadAsWritten
<1>1. ProgramInv => PlanIsReadAsWritten
  <2>1. SUFFICES ASSUME LoadedInv, at = "loaded", Representable(plan_file.content)
                 PROVE  Saved(plan) = plan_file.content
    BY DEF ProgramInv, PlanIsReadAsWritten
  <2>2. PICK file \in PlanFiles : plan_file = PlanOf(file) /\ Accepted(file) /\ plan = Loaded(file)
    BY <2>1 DEF LoadedInv
  <2>3. plan_file.content = file
    BY <2>2 DEF PlanOf
  <2> QED
    BY <2>1, <2>2, <2>3, PlanFilesTyped, SavedAsLoaded
<1> QED
  BY <1>1, ProgramInvariant, PTL

(* main.c:72-74: a package configuration that the builder has found is      *)
(* replaced by its own only after the operator said yes.                    *)
THEOREM NoConfigurationLost == ProgramSpec => []PackageFileReplacedOnlyWhenAgreed
<1>1. ProgramInv => PackageFileReplacedOnlyWhenAgreed
  BY DEF ProgramInv, AgreedInv
<1> QED
  BY <1>1, ProgramInvariant, PTL

(* main.c:108: however the two paths relate, short of one directory mounted *)
(* in two places, the script is never written over the plan file, by -g or  *)
(* by any number of saves and generations in a session.                     *)
THEOREM ScriptSparesPlan == ProgramSpec => []PlanOutlivesScript
<1>1. ProgramInv => PlanOutlivesScript
  BY DEF ProgramInv, FilesInv
<1> QED
  BY <1>1, ProgramInvariant, PTL

(* packages.c, the pages and the templates: whatever the settings and the   *)
(* package configuration, a finished target has exactly the groups that the *)
(* previews show and every system has, less the emptied ones, and each was  *)
(* resolved before the disks were touched.                                  *)
THEOREM TargetIsAsShown == ProgramSpec => []InstalledIsShownAndResolved
<1>1. ProgramInv => InstalledIsShownAndResolved
  <2>1. SUFFICES ASSUME ScriptInv, InstalledInv, at = "finished"
                 PROVE  /\ installed = ((Shown(System) \cup FixedGroups) \ LiveGroups) \ Empty
                        /\ installed \subseteq RequiredGroups(System)
    BY DEF ProgramInv, TargetInv, InstalledIsShownAndResolved
  <2>2. System \in Settings
    BY <2>1 DEF ScriptInv, Finals, System
  <2>3. installed = ScriptGroups(System) \ Empty
    BY <2>1, GroupsBehind DEF InstalledInv
  <2>4. ScriptGroups(System) \subseteq RequiredGroups(System)
    BY <2>2, PartsAreRequired DEF ScriptGroups
  <2> QED
    BY <2>2, <2>3, <2>4, ShownIsInstalled
<1> QED
  BY <1>1, ProgramInvariant, PTL

(* runtime-package-source.sh:37: once the disks are erased, the script is   *)
(* certain to fail only over a required group that was emptied by hand or   *)
(* an account name that is taken in the target.                             *)
THEOREM ObstaclesAreFoundEarly == ProgramSpec => []NoLateSurprise
<1>1. ProgramInv => NoLateSurprise
  BY DEF ProgramInv, TargetInv, ResolvedInv
<1> QED
  BY <1>1, ProgramInvariant, PTL

(* The chroot script: a finished target has a kernel, the files its loader  *)
(* entries name, an initramfs newer than all it is built from, and mirrors  *)
(* other than those of the Live system.                                     *)
THEOREM FinishedTargetBoots == ProgramSpec => []FinishedSystemBoots
<1>1. ProgramInv => FinishedSystemBoots
  <2>1. SUFFICES ASSUME ScriptInv, InstalledInv, BootableInv, at = "finished"
                 PROVE  /\ entry \ Empty \subseteq installed
                        /\ KernelGroup(System.kernel) \subseteq installed
                        /\ initramfs = "fresh" /\ mirrors \notin {"live", "loopback"}
    BY DEF ProgramInv, TargetInv, FinishedSystemBoots
  <2>2. installed = ScriptGroups(System) \ Empty
    BY <2>1, GroupsBehind DEF InstalledInv
  <2>3. entry = KernelGroup(System.kernel) \cup PlatformGroup(System.platform)
    BY <2>1 DEF BootableInv
  <2>4. entry \subseteq ScriptGroups(System)
    BY <2>3 DEF ScriptGroups, BaseGroups
  <2> QED
    BY <2>1, <2>2, <2>4 DEF BootableInv
<1> QED
  BY <1>1, ProgramInvariant, PTL

(* dialogs.c: whatever the length of a list, a choice, a text or a warning  *)
(* and whatever the keys, its selection, its cursor and a full page of it   *)
(* are in view, no line is wider than the window, and every word of a       *)
(* warning is there, in one piece when a line can hold it.                  *)
THEOREM DialogsAlwaysInBounds == ProgramSpec => []DialogsStayInBounds
<1>1. ProgramInv => DialogsStayInBounds
  <2>1. SUFFICES ASSUME DialogInv PROVE DialogInView(dialog)
    BY DEF ProgramInv, DialogsStayInBounds
  <2>2. \/ dialog = NoDialog
        \/ dialog.kind = "list" /\ ListInView(dialog)
        \/ dialog.kind = "choice" /\ ChoiceInView(dialog)
        \/ dialog.kind = "text" /\ TextInView(dialog)
        \/ dialog.kind = "confirm" /\ ConfirmInView(dialog)
    <3>1. ASSUME NEW question \in Trusting \cup {"run", "quit"}, NEW yes \in BOOLEAN,
                 NEW message \in Warnings[question],
                 dialog = [kind |-> "confirm", question |-> question, message |-> message, yes |-> yes]
          PROVE  dialog.kind = "confirm" /\ ConfirmInView(dialog)
      <4>1. message \in Messages
        BY PagesAssumption DEF PagesAssumption, Messages, Trusting
      <4>2. dialog.kind = "confirm" /\ dialog.message = message
        BY <3>1
      <4> QED
        BY <4>1, <4>2, WarningsAreInView
    <3> QED
      BY <2>1, <3>1 DEF DialogInv
  <2>3. NoDialog.kind = "none"
    BY DEF NoDialog
  <2> QED
    BY <2>2, <2>3, Zenon DEF DialogInView
<1> QED
  BY <1>1, ProgramInvariant, PTL

(* detector/storage.c: an inventory is never made from a part of the output *)
(* of lsblk or from the output of an lsblk that failed.                     *)
THEOREM InventoryOfWholeOutput ==
    ProgramSpec => [](WholeOutput /\ (at = "inventory" =>
                         used = OutputLength /\ devices \in DeviceTrees /\ inventory = Detected(devices)))
<1>1. ProgramInv => WholeOutput /\ (at = "inventory" =>
                       used = OutputLength /\ devices \in DeviceTrees /\ inventory = Detected(devices))
  <2>1. CaptureInv => WholeOutput
    BY DEF CaptureInv, Told, WholeOutput
  <2> QED
    BY <2>1 DEF ProgramInv, DetectedInv, WholeOutput
<1> QED
  BY <1>1, ProgramInvariant, PTL

(* detector/storage.c: whatever the trees of lsblk, their depth and order,  *)
(* and however small the inventory, the storage page starts from each of    *)
(* the disks and partitions there is room for, and no disk is taken for     *)
(* free that has a mount or a stacked device anywhere beneath it.           *)
THEOREM InventoryAlwaysWhole == ProgramSpec => []InventoryIsWhole
<1>1. ProgramInv => InventoryIsWhole
  <2>1. ASSUME ProgramInv PROVE WholeOutput
    BY <2>1 DEF ProgramInv, CaptureInv, Told, WholeOutput
  <2>2. ASSUME ProgramInv, at = "inventory" PROVE result = "exit_0" /\ WholeInventory(inventory, devices)
    <3>1. result = "exit_0" /\ devices \in DeviceTrees /\ inventory = Detected(devices)
      BY <2>2 DEF ProgramInv, DetectedInv
    <3>2. devices \in Seq(Devices)
      BY <3>1, FilesAssumption DEF FilesAssumption
    <3> QED
      BY <3>1, <3>2, DetectedIsWhole
  <2> QED
    BY <2>1, <2>2 DEF InventoryIsWhole
<1> QED
  BY <1>1, ProgramInvariant, PTL
=============================================================================
