--------------------------- MODULE BuilderProofs ---------------------------
(***************************************************************************)
(* Proofs about a session of the builder: what is saved, what is generated  *)
(* and what is run, for every set of devices and of settings.  The keys of  *)
(* the Storage page are taken from StoragePageProofs by name: they keep     *)
(* PageInv (PageNextInv), and change the plan only as WhatAStepDoes says.   *)
(***************************************************************************)
EXTENDS Builder, StoragePageProofs, FiniteSetTheorems

Phases == {"off", "editing", "asking_run", "asking_quit", "installing"}

-----------------------------------------------------------------------------
(* A partition with a purpose is one of finitely many, so that "at most     *)
(* one" and "some" of validate_plan together mean exactly one.              *)
LEMMA AssignedIsFinite ==
    ASSUME NEW plan \in Seq(DiskRecord), NEW usage PROVE IsFiniteSet(Assigned(plan, usage))
<1> DEFINE places(i) == {<<i, k>> : k \in DOMAIN plan[i].parts}
           all == {places(i) : i \in DOMAIN plan}
           f == [i \in DOMAIN plan |-> places(i)]
<1>1. IsFiniteSet(DOMAIN plan)
  BY FS_Interval
<1>2. \A i \in DOMAIN plan : IsFiniteSet(places(i))
  <2>1. TAKE i \in DOMAIN plan
  <2>2. plan[i] \in DiskRecord /\ plan[i].parts \in Seq(PartitionRecord)
    <3>1. plan[i] \in DiskRecord
      BY <2>1
    <3>2. QED
      BY <3>1 DEF DiskRecord
  <2>3. IsFiniteSet(DOMAIN plan[i].parts)
    <3>1. DOMAIN plan[i].parts = 1 .. Len(plan[i].parts) /\ Len(plan[i].parts) \in Int
      BY <2>2
    <3>2. IsFiniteSet(1 .. Len(plan[i].parts))
      BY <3>1, FS_Interval
    <3>3. QED
      BY <3>1, <3>2
  <2>4. IsFiniteSet({i} \X DOMAIN plan[i].parts)
    BY <2>3, FS_Singleton, FS_Product
  <2>5. places(i) \subseteq {i} \X DOMAIN plan[i].parts
    OBVIOUS
  <2>6. QED
    BY <2>4, <2>5, FS_Subset
<1>3. IsFiniteSet(all)
  <2>1. f \in Surjection(DOMAIN plan, all)
    BY DEF Surjection
  <2>2. QED
    BY <1>1, <2>1, FS_Surjection
<1>4. IsFiniteSet(UNION all)
  BY <1>2, <1>3, FS_UNION
<1>5. Assigned(plan, usage) \subseteq UNION all
  BY DEF Assigned
<1>6. QED
  BY <1>4, <1>5, FS_Subset

(* Every partition of a complete guided layout is formatted.                *)
LEMMA GuidedIsFormatted ==
    ASSUME NEW d \in DiskRecord, d.mode # "existing", LayoutMatchesMode(d),
           NEW k \in DOMAIN d.parts
    PROVE  d.parts[k].action = "format"
<1>1. d.mode \in GuidedModes /\ d.parts \in Seq(PartitionRecord) /\ k \in 1 .. Len(d.parts)
  BY DEF DiskRecord, Modes
<1>2. CASE d.mode = "auto_data"
  BY <1>1, <1>2 DEF LayoutMatchesMode
<1>3. CASE d.mode = "auto_root_only"
  BY <1>1, <1>3 DEF LayoutMatchesMode, HasRole
<1>4. CASE d.mode = "auto_root_swap"
  BY <1>1, <1>4 DEF LayoutMatchesMode, HasRole
<1>5. CASE d.mode = "auto_home_swap"
  <2>1. /\ Len(d.parts) = 4 /\ HasRole(d, "boot", 1) /\ HasRole(d, "root", 2)
        /\ HasRole(d, "home", 3) /\ HasRole(d, "swap", 4)
    BY <1>5 DEF LayoutMatchesMode
  <2>2. \A usage, number : HasRole(d, usage, number) =>
           \E j \in 1 .. 4 : d.parts[j].usage = usage /\ d.parts[j].action = "format"
    <3>1. DOMAIN d.parts = 1 .. 4
      BY <1>1, <2>1
    <3> QED
      BY <3>1 DEF HasRole
  <2>3. PICK b \in 1 .. 4 : d.parts[b].usage = "boot" /\ d.parts[b].action = "format"
    BY <2>1, <2>2
  <2>4. PICK r \in 1 .. 4 : d.parts[r].usage = "root" /\ d.parts[r].action = "format"
    BY <2>1, <2>2
  <2>5. PICK h \in 1 .. 4 : d.parts[h].usage = "home" /\ d.parts[h].action = "format"
    BY <2>1, <2>2
  <2>6. PICK s \in 1 .. 4 : d.parts[s].usage = "swap" /\ d.parts[s].action = "format"
    BY <2>1, <2>2
  <2>7. b # r /\ b # h /\ b # s /\ r # h /\ r # s /\ h # s
    BY <2>3, <2>4, <2>5, <2>6
  <2>8. k \in {b, r, h, s}
    <3>1. k \in 1 .. 4
      BY <1>1, <2>1
    <3> HIDE <2>3, <2>4, <2>5, <2>6
    <3>2. QED
      BY <2>7, <3>1
  <2>9. QED
    BY <2>3, <2>4, <2>5, <2>6, <2>8
<1>6. QED
  BY <1>1, <1>2, <1>3, <1>4, <1>5 DEF GuidedModes

(* What the validator accepts is what the templates can carry out: for      *)
(* every plan whatever, also one edited by hand, the rules of validate_plan *)
(* (model/validation.c:244-380) leave exactly one root and one EFI          *)
(* partition and no mount point twice, and only records whose file system   *)
(* and profile the cases of format_partitions and mount_filesystems know    *)
(* (runtime-filesystems.sh:16-68).                                          *)
THEOREM ValidFits ==
    ASSUME NEW plan \in Seq(DiskRecord), ValidStorage(plan) PROVE FitsInstaller(plan)
<1>1. ASSUME NEW usage \in {"root", "boot"} PROVE Cardinality(Assigned(plan, usage)) = 1
  <2>1. Assigned(plan, usage) # {} /\ Cardinality(Assigned(plan, usage)) <= 1
    BY DEF ValidStorage, RootBesideBoot, Purposes
  <2>2. IsFiniteSet(Assigned(plan, usage))
    BY AssignedIsFinite
  <2>3. Cardinality(Assigned(plan, usage)) \in Nat /\ Cardinality(Assigned(plan, usage)) # 0
    BY <2>1, <2>2, FS_CardinalityType, FS_EmptySet
  <2>4. QED
    BY <2>1, <2>3
<1>2. \A usage \in Purposes \ {"unused"} : Cardinality(Assigned(plan, usage)) <= 1
  BY DEF ValidStorage
<1>3. ASSUME NEW i \in DOMAIN plan, NEW k \in DOMAIN plan[i].parts, Actionable(plan[i].parts[k])
      PROVE  LET p == plan[i].parts[k] IN
             /\ KeepCanPass(p) /\ MkfsKnows(p) /\ MountKnows(p) /\ SwaponFits(p)
             /\ p.usage \in {"root", "unused"} \/ plan[i].mode # "existing" => p.action = "format"
  <2> DEFINE p == plan[i].parts[k]
  <2>1. plan[i] \in DiskRecord
    OBVIOUS
  <2>2. p \in PartitionRecord
    BY <2>1 DEF DiskRecord
  <2>3. PurposeIsSound(p, plan[i].mode) /\ IdentityIsSound(p, plan[i].mode)
    BY <1>3 DEF ValidStorage, DisksAreSound
  <2>4. p.target \in Filesystems /\ p.profile \in Profiles /\ p.action \in Actions
        /\ p.usage \in Purposes /\ p.planned \in BOOLEAN
    BY <2>2 DEF PartitionRecord
  <2>5. plan[i].mode # "existing" => p.action = "format"
    BY <2>1, GuidedIsFormatted DEF ValidStorage, DisksAreSound
  <2> HIDE DEF p
  <2>6. p.action = "keep" \/ p.action = "format"
    BY <2>4 DEF Actions
  <2>7. KeepCanPass(p)
    BY <2>3 DEF PurposeIsSound, IdentityIsSound, KeepCanPass
  <2>8. MkfsKnows(p)
    BY <2>3, <2>4 DEF PurposeIsSound, MkfsKnows, Filesystems
  <2>9. MountKnows(p)
    <3>1. p.usage \notin {"unused", "swap"} => Effective(p) \in {"ext4", "xfs", "vfat", "f2fs"}
      BY <2>3 DEF PurposeIsSound, Regular
    <3>2. p.profile # "default" => Effective(p) = "f2fs"
      BY <2>3 DEF PurposeIsSound, SupportsProfile
    <3>3. QED
      BY <2>4, <3>1, <3>2 DEF MountKnows, Profiles
  <2>10. SwaponFits(p)
    BY <2>3 DEF PurposeIsSound, SwaponFits
  <2>11. p.usage \in {"root", "unused"} => p.action = "format"
    <3>1. CASE p.usage = "root"
      BY <2>3, <3>1 DEF PurposeIsSound
    <3>2. CASE p.usage = "unused"
      <4>1. Actionable(p)
        BY <1>3 DEF p
      <4>2. QED
        BY <2>3, <3>2, <4>1 DEF Actionable, PurposeIsSound
    <3>3. QED
      BY <3>1, <3>2
  <2>12. QED
    BY <2>5, <2>7, <2>8, <2>9, <2>10, <2>11 DEF p
<1>4. QED
  BY <1>1, <1>2, <1>3 DEF FitsInstaller

-----------------------------------------------------------------------------
(* The inductive invariant.  A saved or generated plan is as good as one on *)
(* the page, since a session starts from it; without the dirty mark the     *)
(* plan in memory is saved in the dialogs as well, which return to editing. *)
GoodPlan(plan) ==
    /\ plan \in SavedPlan /\ Len(plan.disks) <= MaxDisks
    /\ \A i \in DOMAIN plan.disks : GoodDisk(plan.disks[i])

GoodFile(file) == file = <<>> \/ \E plan \in SavedPlan : GoodPlan(plan) /\ file = <<plan>>

Unmarked == phase \in {"editing", "asking_run", "asking_quit"} /\ ~dirty

BuilderInv ==
    /\ PageInv
    /\ phase \in Phases /\ settings \in Settings /\ generated \in BOOLEAN
    /\ GoodFile(plan_file) /\ GoodFile(script)
    /\ Unmarked => InMemoryIsSaved
    /\ InstallsWhatIsShown
    /\ ScriptFitsInstaller

LEMMA PlanIsGood == ASSUME PageInv, settings \in Settings PROVE GoodPlan(Plan) /\ GoodFile(<<Plan>>)
<1>1. disks \in Seq(DiskRecord) /\ Len(disks) <= MaxDisks
  BY DEF PageInv, PageTypeOK
<1>2. \A i \in DOMAIN disks : GoodDisk(disks[i])
  BY DEF PageInv
<1>3. Plan \in SavedPlan /\ Plan.disks = disks
  BY <1>1 DEF Plan, SavedPlan
<1>4. QED
  BY <1>1, <1>2, <1>3 DEF GoodPlan, GoodFile

LEMMA BuilderInitInv == BuilderInit => BuilderInv
<1> SUFFICES ASSUME BuilderInit PROVE BuilderInv
  OBVIOUS
<1>1. PageInv
  BY PageInitInv DEF BuilderInit
<1>2. /\ phase = "editing" /\ settings = DefaultSettings /\ plan_file = <<>> /\ script = <<>>
      /\ disks = <<>> /\ generated = FALSE
  BY DEF BuilderInit, PageInit
<1>3. settings \in Settings
  BY <1>2, SettingsAssumption
<1>4. phase \in Phases /\ generated \in BOOLEAN
  BY <1>2 DEF Phases
<1>5. InMemoryIsSaved /\ InstallsWhatIsShown /\ ScriptFitsInstaller
  BY <1>2 DEF InMemoryIsSaved, InstallsWhatIsShown, ScriptFitsInstaller
<1>6. QED
  BY <1>1, <1>2, <1>3, <1>4, <1>5 DEF BuilderInv, GoodFile

(* A step that leaves the page and the settings alone keeps the plan. *)
LEMMA PageStays ==
    ASSUME BuilderInv, UNCHANGED <<world, inventory, disks, active_disk, row,
                                   target_identity_matches, confirmed, settings>>,
           dirty' \in BOOLEAN
    PROVE  PageInv' /\ Plan' = Plan /\ settings' \in Settings
  BY DEF BuilderInv, PageInv, PageTypeOK, SelectionInPlan, FlagCoversDisks, HasActive, Plan

(* A key of the Storage page that changes the plan marks it: an assignment  *)
(* or an edit that is not marked put back the record it found.              *)
LEMMA ChangesAreMarked ==
    ASSUME PageInv, [PageNext]_pageVars PROVE dirty' \/ UNCHANGED <<disks, dirty>>
<1>1. CASE EditsRecord
  <2>1. OnPartition
    BY <1>1 DEF EditsRecord
  <2>2. PICK p \in PartitionRecord :
           disks' = Replaced(p) /\ (dirty' \/ (p = Selected /\ dirty' = dirty))
    BY <1>1 DEF EditsRecord
  <2>3. ASSUME p = Selected PROVE disks' = disks
    <3>1. /\ HasActive /\ Row \in DOMAIN Active.parts /\ active_disk \in DOMAIN disks
          /\ Active = disks[active_disk] /\ Active \in DiskRecord
      BY <2>1, SelectedIsSound, ActiveIsGood
    <3> DEFINE d == [Active EXCEPT !.parts[Row] = Selected]
    <3>2. disks' = [disks EXCEPT ![active_disk] = d]
      BY <2>2, <2>3 DEF Replaced, Active
    <3>3. [Active.parts EXCEPT ![Row] = Active.parts[Row]] = Active.parts
      BY <3>1 DEF DiskRecord
    <3>4. d = Active
      BY <3>1, <3>3 DEF Selected, DiskRecord
    <3> HIDE DEF d
    <3>5. disks \in Seq(DiskRecord)
      BY DEF PageInv, PageTypeOK
    <3>6. QED
      BY <3>1, <3>2, <3>4, <3>5
  <2>4. QED
    BY <2>2, <2>3
<1>2. CASE Refills
  BY <1>2 DEF Refills
<1>3. QED
  BY <1>1, <1>2, WhatAStepDoes DEF KeepsPlan

LEMMA EditStorageInv == ASSUME BuilderInv, EditStorage PROVE BuilderInv'
<1>1. /\ phase = "editing" /\ PageNext /\ generated' = FALSE
      /\ UNCHANGED <<phase, settings, plan_file, script>>
  BY DEF EditStorage, FilesStay, PageNext
<1>2. PageInv'
  BY <1>1, PageNextInv DEF BuilderInv
<1>3. dirty' \/ UNCHANGED <<disks, dirty>>
  BY <1>1, ChangesAreMarked DEF BuilderInv
<1>4. Unmarked' => InMemoryIsSaved'
  BY <1>1, <1>3 DEF BuilderInv, Unmarked, InMemoryIsSaved, Plan
<1>5. InstallsWhatIsShown' /\ ScriptFitsInstaller'
  BY <1>1 DEF BuilderInv, InstallsWhatIsShown, ScriptFitsInstaller
<1>6. QED
  BY <1>1, <1>2, <1>4, <1>5 DEF BuilderInv

LEMMA EditSettingInv ==
    ASSUME BuilderInv, NEW value \in Settings, EditSetting(value) PROVE BuilderInv'
<1>1. /\ phase = "editing" /\ settings' = value /\ dirty' = TRUE /\ generated' = FALSE
      /\ confirmed' = "nothing"
      /\ UNCHANGED <<world, inventory, disks, active_disk, row, target_identity_matches, phase,
                     plan_file, script>>
  BY DEF EditSetting, FilesStay
<1>2. PageInv'
  BY <1>1 DEF BuilderInv, PageInv, PageTypeOK, SelectionInPlan, FlagCoversDisks, HasActive
<1>3. (Unmarked' => InMemoryIsSaved') /\ InstallsWhatIsShown' /\ ScriptFitsInstaller'
  BY <1>1 DEF BuilderInv, Unmarked, InstallsWhatIsShown, ScriptFitsInstaller
<1>4. QED
  BY <1>1, <1>2, <1>3 DEF BuilderInv

LEMMA SavePlanInv == ASSUME BuilderInv, SavePlan PROVE BuilderInv'
<1>1. /\ phase = "editing" /\ plan_file' = <<Plan>> /\ dirty' = FALSE /\ generated' = FALSE
      /\ UNCHANGED <<world, inventory, disks, active_disk, row, target_identity_matches,
                     confirmed, phase, settings, script>>
  BY DEF SavePlan
<1>2. PageInv' /\ Plan' = Plan /\ settings' \in Settings
  BY <1>1, PageStays
<1>3. GoodFile(plan_file')
  BY <1>1, PlanIsGood DEF BuilderInv
<1>4. InMemoryIsSaved' /\ InstallsWhatIsShown' /\ ScriptFitsInstaller'
  BY <1>1, <1>2 DEF BuilderInv, InMemoryIsSaved, InstallsWhatIsShown, ScriptFitsInstaller
<1>5. QED
  BY <1>1, <1>2, <1>3, <1>4 DEF BuilderInv

(* The plan shown is the one in both files, whatever is asked next. *)
LEMMA GenerateInv ==
    ASSUME BuilderInv, NEW after \in {"editing", "asking_run"}, Generate(after)
    PROVE  BuilderInv'
<1>1. /\ phase' = after /\ MayGenerate /\ plan_file' = <<Plan>> /\ script' = <<Plan>>
      /\ dirty' = FALSE /\ generated' = TRUE
      /\ UNCHANGED <<world, inventory, disks, active_disk, row, target_identity_matches,
                     confirmed, settings>>
  BY DEF Generate
<1>2. PageInv' /\ Plan' = Plan /\ settings' \in Settings
  BY <1>1, PageStays
<1>3. GoodFile(plan_file') /\ GoodFile(script') /\ phase' \in Phases
  BY <1>1, PlanIsGood DEF BuilderInv, Phases
<1>4. InMemoryIsSaved' /\ InstallsWhatIsShown'
  BY <1>1, <1>2 DEF InMemoryIsSaved, InstallsWhatIsShown
<1>5. ScriptFitsInstaller'
  <2>1. FitsInstaller(disks)
    BY <1>1, ValidFits DEF MayGenerate, BuilderInv, PageInv, PageTypeOK
  <2>2. script'[1].disks = disks
    BY <1>1 DEF Plan
  <2>3. QED
    BY <2>1, <2>2 DEF ScriptFitsInstaller
<1>6. QED
  BY <1>1, <1>2, <1>3, <1>4, <1>5 DEF BuilderInv

LEMMA GenerationFailsInv == ASSUME BuilderInv, GenerationFails PROVE BuilderInv'
<1>1. /\ phase = "editing" /\ plan_file' = <<Plan>> /\ generated' = FALSE
      /\ UNCHANGED <<world, inventory, disks, active_disk, row, target_identity_matches,
                     confirmed, settings>>
      /\ UNCHANGED <<dirty, phase, script>>
  BY DEF GenerationFails, pageVars
<1>2. PageInv' /\ Plan' = Plan /\ settings' \in Settings
  BY <1>1, PageStays DEF BuilderInv, PageInv, PageTypeOK
<1>3. GoodFile(plan_file')
  BY <1>1, PlanIsGood DEF BuilderInv
<1>4. InMemoryIsSaved' /\ InstallsWhatIsShown' /\ ScriptFitsInstaller'
  BY <1>1, <1>2 DEF BuilderInv, InMemoryIsSaved, InstallsWhatIsShown, ScriptFitsInstaller
<1>5. QED
  BY <1>1, <1>2, <1>3, <1>4 DEF BuilderInv

(* Answers and exits keep the plan and both files. *)
LEMMA AnswersInv ==
    ASSUME BuilderInv,
           RunScript \/ Decline \/ Quit \/ AskQuit \/ ConfirmQuit \/ Stop \/ DevicesDrift
           \/ UNCHANGED vars
    PROVE  BuilderInv'
<1>1. UNCHANGED <<disks, settings, plan_file, script, dirty>>
  BY DEF RunScript, Decline, Quit, AskQuit, ConfirmQuit, Stop, DevicesDrift, DevicesChange,
         vars, sessionVars, pageVars
<1>2. phase' \in Phases /\ generated' \in BOOLEAN
  BY DEF RunScript, Decline, Quit, AskQuit, ConfirmQuit, Stop, DevicesDrift, DevicesChange,
         vars, sessionVars, Phases, BuilderInv
<1>3. PageInv'
  <2>1. [PageNext]_pageVars
    BY DEF RunScript, Decline, Quit, AskQuit, ConfirmQuit, Stop, DevicesDrift, vars, PageNext
  <2>2. QED
    BY <2>1, PageNextInv DEF BuilderInv
<1>4. /\ Unmarked' => Unmarked
      /\ phase' \in {"asking_run", "installing"} => phase \in {"asking_run", "installing"}
  BY <1>1 DEF RunScript, Decline, Quit, AskQuit, ConfirmQuit, Stop, DevicesDrift, vars,
              sessionVars, Unmarked, BuilderInv
<1>5. (Unmarked' => InMemoryIsSaved') /\ InstallsWhatIsShown' /\ ScriptFitsInstaller'
  BY <1>1, <1>4 DEF BuilderInv, InMemoryIsSaved, Plan, InstallsWhatIsShown,
                    ScriptFitsInstaller
<1>6. QED
  BY <1>1, <1>2, <1>3, <1>5 DEF BuilderInv

(* A new session: the plan file holds a good plan, or there is none yet. *)
LEMMA StartInv == ASSUME BuilderInv, Start PROVE BuilderInv'
<1>1. /\ phase' = "editing" /\ inventory' = world /\ active_disk' = 1 /\ row' = 1
      /\ dirty' = FALSE /\ confirmed' = "nothing" /\ generated' = FALSE
      /\ UNCHANGED <<world, plan_file, script>> /\ Recompared
  BY DEF Start
<1>2. /\ disks' \in Seq(DiskRecord) /\ Len(disks') <= MaxDisks
      /\ \A i \in DOMAIN disks' : GoodDisk(disks'[i])
      /\ settings' \in Settings
      /\ InMemoryIsSaved'
  <2>1. CASE plan_file = <<>>
    <3>1. disks' = <<>> /\ settings' = DefaultSettings
      BY <2>1 DEF Start
    <3>2. QED
      BY <1>1, <2>1, <3>1, SettingsAssumption, MaxDisksAssumption DEF InMemoryIsSaved
  <2>2. CASE plan_file # <<>>
    <3>1. PICK plan \in SavedPlan : GoodPlan(plan) /\ plan_file = <<plan>>
      BY <2>2 DEF BuilderInv, GoodFile
    <3>2. disks' = plan.disks /\ settings' = plan.settings
      BY <2>2, <3>1 DEF Start
    <3>3. plan = [disks |-> plan.disks, settings |-> plan.settings]
          /\ plan.disks \in Seq(DiskRecord) /\ plan.settings \in Settings
      BY DEF SavedPlan
    <3>4. plan_file' = <<Plan'>>
      BY <1>1, <3>1, <3>2, <3>3 DEF Plan
    <3>5. QED
      BY <3>1, <3>2, <3>3, <3>4 DEF GoodPlan, InMemoryIsSaved
  <2>3. QED
    BY <2>1, <2>2
<1>3. PageInv'
  <2>1. SelectionInPlan'
    BY <1>1, <1>2 DEF SelectionInPlan, HasActive
  <2>2. target_identity_matches' \in BOOLEAN /\ FlagCoversDisks'
    BY <1>1, ComparedCovers
  <2>3. world' \in Inventory /\ inventory' \in Inventory
    BY <1>1 DEF BuilderInv, PageInv, PageTypeOK
  <2>4. PageInv
    BY DEF BuilderInv
  <2>5. active_disk' \in Nat \ {0} /\ row' \in Nat /\ dirty' \in BOOLEAN
        /\ confirmed' \in Confirmations
    <3>1. active_disk' = 1 /\ row' = 1 /\ dirty' = FALSE /\ confirmed' = "nothing"
      BY <1>1
    <3>2. dirty' \in BOOLEAN
      BY <3>1, Zenon
    <3>3. active_disk' \in Nat \ {0} /\ row' \in Nat /\ confirmed' \in Confirmations
      BY <3>1 DEF Confirmations
    <3>4. QED
      BY <3>2, <3>3
  <2> HIDE <1>1
  <2>6. QED
    BY <1>2, <2>1, <2>2, <2>3, <2>4, <2>5, PlanChanged
<1>4. phase' \in Phases /\ GoodFile(plan_file') /\ GoodFile(script')
  BY <1>1 DEF Phases, BuilderInv
<1>5. InstallsWhatIsShown' /\ ScriptFitsInstaller'
  BY <1>1 DEF InstallsWhatIsShown, ScriptFitsInstaller, BuilderInv
<1>6. QED
  BY <1>1, <1>2, <1>3, <1>4, <1>5 DEF BuilderInv

-----------------------------------------------------------------------------
LEMMA BuilderInvariant == BuilderSpec => []BuilderInv
<1>1. BuilderInit => BuilderInv
  BY BuilderInitInv
<1>2. BuilderInv /\ [BuilderNext]_vars => BuilderInv'
  BY EditStorageInv, EditSettingInv, SavePlanInv, GenerateInv, GenerationFailsInv, AnswersInv,
     StartInv
  DEF BuilderNext
<1>3. QED
  BY <1>1, <1>2, PTL DEF BuilderSpec

(* Every session keeps the builder's state well formed, from a plan file    *)
(* of any earlier session (main.c:14-40, ui.c:217-275).                     *)
THEOREM BuilderTypeCorrect == BuilderSpec => []BuilderTypeOK
<1>1. ASSUME NEW file, GoodFile(file) PROVE file \in Seq(SavedPlan) /\ Len(file) <= 1
  <2>1. CASE file = <<>>
    BY <2>1
  <2>2. CASE file # <<>>
    <3>1. PICK plan \in SavedPlan : file = <<plan>>
      BY <1>1, <2>2 DEF GoodFile
    <3>2. QED
      BY <3>1
  <2>3. QED
    BY <2>1, <2>2
<1>2. BuilderInv => BuilderTypeOK
  BY <1>1 DEF BuilderInv, PageInv, BuilderTypeOK, Phases
<1>3. QED
  BY <1>2, BuilderInvariant, PTL

(* Without the dirty mark the plan on screen is the plan in the file, or    *)
(* the untouched plan of a first start, after any keys, saves, failed       *)
(* generations and restarts (README.md:186; ui.c:60-110).  The step that    *)
(* needs an argument is a purpose or an action chosen again: it is not      *)
(* marked, and only the soundness of the records says nothing changed.      *)
THEOREM CleanAlwaysMeansSaved == BuilderSpec => []CleanMeansSaved
<1>1. BuilderInv => CleanMeansSaved
  BY DEF BuilderInv, CleanMeansSaved, Unmarked
<1>2. QED
  BY <1>1, BuilderInvariant, PTL

(* What is run after the question is the script of the plan shown, and that *)
(* plan is in the plan file (output_and_execute.c:36-41).                   *)
THEOREM AlwaysInstallsWhatIsShown == BuilderSpec => []InstallsWhatIsShown
<1>1. BuilderInv => InstallsWhatIsShown
  BY DEF BuilderInv
<1>2. QED
  BY <1>1, BuilderInvariant, PTL

(* No script that a session leaves dies on its own plan: whatever keys,      *)
(* saves, failed generations, restarts and devices led to it, it has one    *)
(* root and one EFI partition, and every record it lists has a file system  *)
(* and a profile that its formatting and mounting know.  What the installer *)
(* modules assume of the plan besides the order is part of it.              *)
THEOREM ScriptAlwaysFitsInstaller == BuilderSpec => []ScriptFitsInstaller
<1>1. BuilderInv => ScriptFitsInstaller
  BY DEF BuilderInv
<1>2. QED
  BY <1>1, BuilderInvariant, PTL
=============================================================================
