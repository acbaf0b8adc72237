---------------------------- MODULE StartupProofs ----------------------------
(***************************************************************************)
(* Theorems about the parts the start of the program is made of: the        *)
(* capture of a child's output, the mapping of settings to package groups,  *)
(* the plan file, and the translation of lsblk's trees into the inventory.  *)
(***************************************************************************)
EXTENDS Startup, Recursions, FiniteSetTheorems

(***************************************************************************)
(* CapturedProcess, for every capacity of the pipe and every length of the  *)
(* output: types, and that a success is a whole output.                     *)
(***************************************************************************)

(* A child that exits with 0 has written everything, and the parent passes  *)
(* from draining to waiting only when it has read everything of a child     *)
(* that has ended.                                                          *)
WrittenToTheEnd == child = "exit_0" => sent = OutputLength
Drained == parent = "waiting" => child \in Ends /\ used = sent
Told == result = "exit_0" => used = OutputLength

CaptureInv == CaptureTypeOK /\ WrittenToTheEnd /\ Drained /\ Told

LEMMA EmptyOutput == 0 \in 0 .. OutputLength /\ 0 \in 0 .. 0
BY CaptureAssumption DEF CaptureAssumption

LEMMA CaptureInitInv == CaptureInit => CaptureInv
<1> SUFFICES ASSUME CaptureInit PROVE CaptureInv
  OBVIOUS
<1>1. CaptureTypeOK
  BY EmptyOutput DEF CaptureInit, CaptureTypeOK, ParentStates, ChildStates, Calling, Ends
<1> QED
  BY <1>1 DEF CaptureInit, CaptureInv, WrittenToTheEnd, Drained, Told

(* Every call starts over with nothing sent and nothing read. *)
LEMMA BeginsAnew ==
    ASSUME NEW state \in ParentStates \ {"waiting"}, Begin(state)
    PROVE  CaptureInv'
<1>1. CaptureTypeOK'
  BY EmptyOutput DEF Begin, CaptureTypeOK, ParentStates, ChildStates, Calling, Ends
<1> QED
  BY <1>1 DEF Begin, CaptureInv, WrittenToTheEnd, Drained, Told

LEMMA ParentKeepsInv ==
    ASSUME CaptureInv, ParentActions
    PROVE  CaptureInv'
<1> USE CaptureAssumption DEF CaptureAssumption, CaptureInv, CaptureTypeOK, WrittenToTheEnd, Drained, Told,
        ParentStates, ChildStates, Calling, Ends
<1>1. CASE Fork
  BY <1>1 DEF Fork
<1>2. CASE Read
  BY <1>2 DEF Read
<1>3. CASE EndOfFile
  BY <1>3 DEF EndOfFile
<1>4. CASE Reap
  BY <1>4 DEF Reap
<1>5. CASE Abandon
  BY <1>5 DEF Abandon
<1> QED
  BY <1>1, <1>2, <1>3, <1>4, <1>5 DEF ParentActions

LEMMA ChildKeepsInv ==
    ASSUME CaptureInv, ChildProgress
    PROVE  CaptureInv'
<1> USE CaptureAssumption DEF CaptureAssumption, CaptureInv, CaptureTypeOK, WrittenToTheEnd, Drained, Told,
        ParentStates, ChildStates, Calling, Ends
<1>1. CASE ChildStarts
  BY <1>1 DEF ChildStarts
<1>2. CASE ChildWrites
  BY <1>2 DEF ChildWrites
<1>3. CASE ChildFinishes
  BY <1>3 DEF ChildFinishes
<1> QED
  BY <1>1, <1>2, <1>3 DEF ChildProgress

LEMMA MishapsKeepInv ==
    ASSUME CaptureInv, Mishaps
    PROVE  CaptureInv'
<1> USE CaptureAssumption DEF CaptureAssumption, CaptureInv, CaptureTypeOK, WrittenToTheEnd, Drained, Told,
        ParentStates, ChildStates, Calling, Ends
<1>1. CASE ForkFails
  BY <1>1 DEF ForkFails
<1>2. CASE ReadFails
  BY <1>2 DEF ReadFails
<1>3. CASE LeaveChild
  BY <1>3 DEF LeaveChild
<1>4. CASE ChildFails
  BY <1>4 DEF ChildFails
<1> QED
  BY <1>1, <1>2, <1>3, <1>4 DEF Mishaps

LEMMA CaptureStepInv == CaptureInv /\ [CaptureNext]_captureVars => CaptureInv'
<1> SUFFICES ASSUME CaptureInv, [CaptureNext]_captureVars
             PROVE  CaptureInv'
  OBVIOUS
<1>1. CASE CaptureActions
  BY <1>1, ParentKeepsInv, ChildKeepsInv, MishapsKeepInv DEF CaptureActions
<1>2. CASE Enter
  BY <1>2, BeginsAnew DEF Enter, ParentStates, Calling
<1>3. CASE Forget
  BY <1>3, BeginsAnew DEF Forget, ParentStates
<1>4. CASE UNCHANGED captureVars
  BY <1>4 DEF captureVars, CaptureInv, CaptureTypeOK, WrittenToTheEnd, Drained, Told
<1> QED
  BY <1>1, <1>2, <1>3, <1>4 DEF CaptureNext

LEMMA CaptureInvariant == CaptureSpec => []CaptureInv
BY CaptureInitInv, CaptureStepInv, PTL DEF CaptureSpec

(* process.c:14-123: the variables keep their types whatever fails. *)
THEOREM CaptureTypeCorrect == CaptureSpec => []CaptureTypeOK
<1>1. CaptureInv => CaptureTypeOK
  BY DEF CaptureInv
<1> QED
  BY <1>1, CaptureInvariant, PTL

(* process.c:69-121: a result with status 0 comes with the whole output.    *)
THEOREM SuccessIsWhole == CaptureSpec => []WholeOutput
<1>1. CaptureInv => WholeOutput
  BY DEF CaptureInv, Told, WholeOutput
<1> QED
  BY <1>1, CaptureInvariant, PTL
-----------------------------------------------------------------------------
(***************************************************************************)
(* PackageGroups.  Three places map the settings to groups on their own:    *)
(* the previews of the pages, packages_collect_required_groups, and the     *)
(* functions of the script.  They agree for all settings.                   *)
(***************************************************************************)

OwnFlags == {"intel_graphics", "nvidia_graphics", "bluetooth", "firewall", "printer",
             "archive_tools", "terminal_tools", "extra_tools", "desktop_apps"}

LEMMA OwnGroupDomain == DOMAIN OwnGroup = OwnFlags
BY DEF OwnGroup, OwnFlags

(* A row with a flag of its own shows the group of this flag and no other.  *)
LEMMA OwnPreview ==
    ASSUME NEW s, NEW row \in DOMAIN OwnGroup
    PROVE  Preview(row, s) = {OwnGroup[row]}
<1>1. row \in OwnFlags
  BY OwnGroupDomain
<1>2. row \notin {"platform", "kernel", "desktop", "laptop", "desktop_recommended",
                  "chinese_input", "local_mirror", "secure_boot"}
  BY <1>1 DEF OwnFlags
<1>3. {OwnGroup[f] : f \in DOMAIN OwnGroup \cap {row}} = {OwnGroup[row]}
  OBVIOUS
<1> QED
  BY <1>2, <1>3 DEF Preview, Only

(* The other rows show what their operators say, and no flag's own group.   *)
LEMMA NamedPreview ==
    ASSUME NEW s
    PROVE  /\ Preview("platform", s) = PlatformGroup(s.platform)
           /\ Preview("kernel", s) = KernelGroup(s.kernel)
           /\ Preview("desktop", s) = DesktopGroup(s.desktop)
           /\ Preview("laptop", s) = LaptopGroups(s)
           /\ Preview("desktop_recommended", s) = RecommendedGroup(s.desktop)
           /\ Preview("chinese_input", s) = InputGroup(s.desktop)
           /\ Preview("local_mirror", s) = Only("local_mirror" \in s.on, {"local_mirror_live"})
           /\ Preview("secure_boot", s) = {"secure_boot_live"}
<1>1. ASSUME NEW row \in {"platform", "kernel", "desktop", "laptop", "desktop_recommended",
                          "chinese_input", "local_mirror", "secure_boot"}
      PROVE  {OwnGroup[f] : f \in DOMAIN OwnGroup \cap {row}} = {}
  BY OwnGroupDomain DEF OwnFlags
<1>2. Preview("laptop", s) = LaptopGroups(s)
  BY <1>1 DEF Preview, Only, LaptopGroups, LaptopFirmware
<1> QED
  BY <1>1, <1>2 DEF Preview, Only

(* What is shown, row by row: the three rows that always stand for          *)
(* packages, and the rows that are switched on.                             *)
ShownParts(s) ==
    PlatformGroup(s.platform) \cup KernelGroup(s.kernel) \cup DesktopGroup(s.desktop)
    \cup Only("laptop" \in s.on, LaptopGroups(s))
    \cup Only("desktop_recommended" \in s.on, RecommendedGroup(s.desktop))
    \cup Only("chinese_input" \in s.on, InputGroup(s.desktop))
    \cup Only("local_mirror" \in s.on, {"local_mirror_live"})
    \cup Only("secure_boot" \in s.on, {"secure_boot_live"})
    \cup {OwnGroup[f] : f \in s.on \cap DOMAIN OwnGroup}

LEMMA ShownByRows == ASSUME NEW s PROVE Shown(s) = ShownParts(s)
<1> DEFINE Rows == {"platform", "kernel", "desktop"} \cup (PreviewRows \cap s.on)
<1>1. ASSUME NEW g \in Shown(s) PROVE g \in ShownParts(s)
  <2>1. PICK row \in Rows : g \in Preview(row, s)
    BY <1>1 DEF Shown
  <2>2. CASE row \in DOMAIN OwnGroup
    <3>1. row \in s.on
      BY <2>1, <2>2, OwnGroupDomain DEF OwnFlags
    <3>2. g = OwnGroup[row]
      BY <2>1, <2>2, OwnPreview
    <3> QED
      BY <2>2, <3>1, <3>2 DEF ShownParts
  <2>3. CASE row \notin DOMAIN OwnGroup
    <3>1. row \in {"platform", "kernel", "desktop"}
            \/ row \in {"laptop", "desktop_recommended", "chinese_input", "local_mirror", "secure_boot"} \cap s.on
      BY <2>1, <2>3 DEF PreviewRows
    <3> QED
      BY <2>1, <3>1, NamedPreview DEF ShownParts, Only
  <2> QED
    BY <2>2, <2>3
<1>2. ASSUME NEW g \in ShownParts(s) PROVE g \in Shown(s)
  <2>1. ASSUME NEW row \in Rows, g \in Preview(row, s) PROVE g \in Shown(s)
    BY <2>1 DEF Shown
  <2>2. CASE g \in {OwnGroup[f] : f \in s.on \cap DOMAIN OwnGroup}
    <3>1. PICK f \in s.on \cap DOMAIN OwnGroup : g = OwnGroup[f]
      BY <2>2
    <3> QED
      BY <2>1, <3>1, OwnPreview DEF PreviewRows
  <2>3. CASE g \notin {OwnGroup[f] : f \in s.on \cap DOMAIN OwnGroup}
    <3>1. \E row \in Rows : g \in Preview(row, s)
      BY <1>2, <2>3, NamedPreview DEF ShownParts, Only, PreviewRows
    <3> QED
      BY <2>1, <3>1
  <2> QED
    BY <2>2, <2>3
<1> QED
  BY <1>1, <1>2

(* packages.c:264 against software.c:31, hardware.c and base_system.c:4:    *)
(* the packages the early resolution asks for, and the script is given, are *)
(* those the operator is shown on the selected rows, and the three groups   *)
(* of every system, whatever the settings.                                  *)
THEOREM PreviewsShowWhatIsRequired ==
    ASSUME NEW s
    PROVE  RequiredGroups(s) = FixedGroups \cup Shown(s)
<1>1. ~("laptop" \in s.on) => LaptopGroups(s) = {}
  BY DEF LaptopGroups, LaptopFirmware, Only
<1>2. Only("laptop" \in s.on, LaptopGroups(s)) = LaptopGroups(s)
  BY <1>1 DEF Only
<1>3. RequiredGroups(s) = FixedGroups \cup ShownParts(s)
  BY <1>2 DEF RequiredGroups, ShownParts
<1> QED
  BY <1>3, ShownByRows
-----------------------------------------------------------------------------
(* The fonts are installed by install_desktop after every desktop.          *)
ScriptGroups(s) ==
    BaseGroups(s) \cup CoreGroups(s) \cup DriverGroups(s) \cup DesktopGroups(s)
    \cup {"fonts"} \cup OptionalGroups(s)

LEMMA OwnGroupsInstalled ==
    ASSUME NEW s
    PROVE  DriverGroups(s) \cup OptionalGroups(s) = {OwnGroup[f] : f \in s.on \cap DOMAIN OwnGroup}
<1>1. DOMAIN OwnGroup = {"intel_graphics", "nvidia_graphics", "bluetooth"}
                          \cup {"firewall", "printer", "archive_tools", "terminal_tools",
                                "extra_tools", "desktop_apps"}
  BY OwnGroupDomain DEF OwnFlags
<1> QED
  BY <1>1 DEF DriverGroups, OptionalGroups

(* install_desktop says in one case what packages.c says in four functions. *)
LEMMA DesktopInstalled ==
    ASSUME NEW s, s.desktop \in Desktops
    PROVE  LaptopFirmware(s) \cup DesktopGroups(s)
             = LaptopGroups(s) \cup DesktopGroup(s.desktop)
               \cup Only("desktop_recommended" \in s.on, RecommendedGroup(s.desktop))
               \cup Only("chinese_input" \in s.on, InputGroup(s.desktop))
<1> USE DEF DesktopGroups, LaptopGroups, DesktopGroup, RecommendedGroup, InputGroup, Only
<1>1. CASE s.desktop = "kde"
  BY <1>1
<1>2. CASE s.desktop = "gnome"
  BY <1>2
<1>3. CASE s.desktop = "hyprland"
  BY <1>3
<1>4. CASE s.desktop = "none"
  BY <1>4
<1> QED
  BY <1>1, <1>2, <1>3, <1>4 DEF Desktops

(* runtime-package-source.sh:37 against the functions of the chroot script: *)
(* what they install is what was resolved before the disks were erased, and *)
(* besides the tools of the Live system nothing was resolved in vain.       *)
THEOREM ResolvedIsInstalled ==
    ASSUME NEW s, s.desktop \in Desktops
    PROVE  RequiredGroups(s)
             = ScriptGroups(s) \cup Only("local_mirror" \in s.on, {"local_mirror_live"})
                               \cup Only("secure_boot" \in s.on, {"secure_boot_live"})
<1>1. BaseGroups(s) \cup CoreGroups(s) \cup {"fonts"}
        = FixedGroups \cup KernelGroup(s.kernel) \cup PlatformGroup(s.platform) \cup LaptopFirmware(s)
  BY DEF BaseGroups, CoreGroups, FixedGroups, LaptopFirmware, Only
<1> QED
  BY <1>1, OwnGroupsInstalled, DesktopInstalled DEF ScriptGroups, RequiredGroups
-----------------------------------------------------------------------------
(***************************************************************************)
(* PlanFile: what a load and a save do to a plan file, for all widths of    *)
(* the integers and all capacities.                                         *)
(***************************************************************************)

LEMMA Widths == IntMax \in Nat /\ UintMax \in Nat /\ Int64Max \in Nat /\ Uint64Max \in Nat
                  /\ 7 < IntMax /\ IntMax < UintMax /\ UintMax < Int64Max /\ Int64Max < Uint64Max
BY WidthAssumption DEF WidthAssumption

(* Saturation is no loss for a value that is in range, nor for one that is  *)
(* not at an end of the range afterwards.                                   *)
LEMMA EnumIsExact ==
    ASSUME NEW value \in Int, value = 0 \/ GetInt(value) \in 0 .. 7
    PROVE  GetInt(value) = value
BY Widths DEF GetInt, Clamp

LEMMA NumberIsExact ==
    ASSUME NEW value \in Int, value = 0 \/ GetInt64(value) \in 0 .. UintMax, value <= IntMax
    PROVE  GetInt(value) = value
BY Widths DEF GetInt, GetInt64, Clamp

LEMMA SizeIsExact ==
    ASSUME NEW value \in Int, value = 0 \/ GetInt64(value) \in 0 .. Int64Max, value <= Uint64Max
    PROVE  GetUint64(value) = value
BY Widths DEF GetUint64, GetInt64, Clamp

LEMMA VersionIsExact ==
    ASSUME NEW value \in Int, GetInt64(value) = AI_PLAN_VERSION
    PROVE  value = AI_PLAN_VERSION
BY Widths DEF GetInt64, Clamp, AI_PLAN_VERSION

(* What the schema and NothingElse say of the values that may be absent.    *)
LEMMA CheckedValues ==
    ASSUME NEW file, file.disks \in Nat, file.partitions \in Nat, NothingElse(file), ValidSchema(file)
    PROVE  /\ file.mode = 0 \/ GetInt(file.mode) \in 0 .. 7
           /\ file.size = 0 \/ GetInt64(file.size) \in 0 .. Int64Max
           /\ file.usage = 0 \/ GetInt(file.usage) \in 0 .. 7
           /\ file.number = 0 \/ GetInt64(file.number) \in 0 .. UintMax
<1>1. CASE file.disks = 0
  BY <1>1 DEF NothingElse
<1>2. CASE file.disks > 0 /\ file.partitions = 0
  BY <1>2 DEF NothingElse, ValidSchema, RequireIntRange, RequireNonnegative, StorageModes
<1>3. CASE file.disks > 0 /\ file.partitions > 0
  BY <1>3 DEF ValidSchema, RequireIntRange, RequireNonnegative, StorageModes, PartUsages
<1> QED
  BY <1>1, <1>2, <1>3

(* plan_load_json and plan_save_json: an accepted file whose sizes fit a    *)
(* uint64_t, whose numbers fit an int and whose texts fit their buffers is  *)
(* written back as it was read, for every value of every kind.                                                            *)
THEOREM SavedAsLoaded ==
    ASSUME NEW file \in JsonFiles, NothingElse(file), Accepted(file), Representable(file)
    PROVE  Saved(Loaded(file)) = file
<1>0. /\ file.json \in BOOLEAN /\ file.fields \in BOOLEAN /\ file.version \in Int
      /\ file.disks \in Nat /\ file.partitions \in Nat /\ file.mode \in Int /\ file.size \in Int
      /\ file.number \in Int /\ file.usage \in Int /\ file.text \in {"", "short", "long"}
  BY DEF JsonFiles
<1>1. file.json = TRUE /\ file.fields = TRUE
  BY DEF Accepted, ValidSchema
<1>2. file.version = AI_PLAN_VERSION
  BY <1>0, VersionIsExact DEF Accepted
<1>3. /\ file.mode = 0 \/ GetInt(file.mode) \in 0 .. 7
      /\ file.size = 0 \/ GetInt64(file.size) \in 0 .. Int64Max
      /\ file.usage = 0 \/ GetInt(file.usage) \in 0 .. 7
      /\ file.number = 0 \/ GetInt64(file.number) \in 0 .. UintMax
  BY <1>0, CheckedValues DEF Accepted
<1>4. /\ GetInt(file.mode) = file.mode /\ GetInt(file.usage) = file.usage
      /\ GetInt(file.number) = file.number /\ GetUint64(file.size) = file.size
  BY <1>0, <1>3, EnumIsExact, NumberIsExact, SizeIsExact DEF Representable
<1>5. CopyText(file.text) = file.text
  BY DEF Representable, CopyText
<1>6. file = [json |-> file.json, fields |-> file.fields, version |-> file.version,
               disks |-> file.disks, partitions |-> file.partitions, mode |-> file.mode,
               size |-> file.size, number |-> file.number, usage |-> file.usage,
               text |-> file.text, system |-> file.system]
  BY DEF JsonFiles
<1> QED
  BY <1>1, <1>2, <1>3, <1>4, <1>5, <1>6 DEF Saved, Loaded

-----------------------------------------------------------------------------
(***************************************************************************)
(* LsblkInventory: the recursive traversal of the trees and the two loops   *)
(* that fill the inventory, for all trees and all capacities.               *)
(***************************************************************************)
Heights == [item \in Devices |-> Depth[item]]

LEMMA DevicesTyped ==
    /\ AI_MAX_DISKS \in Nat /\ MaxPartsPerDisk \in Nat /\ MaxDepth \in Nat
    /\ Heights \in [Devices -> 0 .. MaxDepth]
    /\ \A item \in Devices :
          /\ item.mounted \in BOOLEAN /\ item.rm \in BOOLEAN /\ item.usb \in BOOLEAN
          /\ item.children \in Seq(Devices) /\ ToSet(item.children) \subseteq Devices
          /\ \A below \in ToSet(item.children) : below \in Devices /\ Heights[below] < Heights[item]
<1>1. ASSUME NEW item \in Devices
      PROVE  item.children \in Seq(Devices) /\ ToSet(item.children) \subseteq Devices
  BY DevicesAssumption, ElementsOfSeq DEF DevicesAssumption
<1> QED
  BY <1>1, DevicesAssumption DEF DevicesAssumption, Heights

(* What a device and the lists of its children make up. *)
ChildLists(item, f) == [k \in DOMAIN item.children |-> <<item.children[k]>> \o f[item.children[k]]]

LEMMA ChildListsTyped ==
    ASSUME NEW item \in Devices, NEW f, \A below \in ToSet(item.children) : f[below] \in Seq(Devices)
    PROVE  /\ ChildLists(item, f) \in Seq(Seq(Devices)) /\ Len(ChildLists(item, f)) = Len(item.children)
           /\ \A k \in 1 .. Len(item.children) :
                 /\ item.children[k] \in ToSet(item.children)
                 /\ ToSet(ChildLists(item, f)[k]) = {item.children[k]} \cup ToSet(f[item.children[k]])
<1> DEFINE c == item.children
           n == Len(c)
<1>1. /\ n \in Nat /\ DOMAIN c = 1 .. n /\ ToSet(c) = {c[k] : k \in 1 .. n} /\ ToSet(c) \subseteq Devices
  <2>1. c \in Seq(Devices)
    BY DevicesTyped
  <2> QED
    BY <2>1, LenProperties, ElementsOfSeq
<1>2. ASSUME NEW k \in 1 .. n
      PROVE  /\ c[k] \in ToSet(c) /\ <<c[k]>> \o f[c[k]] \in Seq(Devices)
             /\ ToSet(<<c[k]>> \o f[c[k]]) = {c[k]} \cup ToSet(f[c[k]])
  <2>1. c[k] \in ToSet(c) /\ c[k] \in Devices /\ f[c[k]] \in Seq(Devices)
    BY <1>1
  <2>2. <<c[k]>> \in Seq(Devices) /\ ToSet(<<c[k]>>) = {c[k]}
    <3>1. <<c[k]>> \in Seq(Devices) /\ Len(<<c[k]>>) = 1 /\ <<c[k]>>[1] = c[k]
      BY <2>1
    <3>2. 1 .. 1 = {1}
      OBVIOUS
    <3> DEFINE one == <<c[k]>>
    <3> HIDE DEF one
    <3>3. ToSet(one) = {one[j] : j \in 1 .. Len(one)}
      <4>1. one \in Seq(Devices)
        BY <3>1 DEF one
      <4> QED
        BY <4>1, ElementsOfSeq
    <3> QED
      BY <3>1, <3>2, <3>3 DEF one
  <2> DEFINE one == <<c[k]>>
             below == f[c[k]]
  <2> HIDE DEF one, below
  <2>3. one \o below \in Seq(Devices) /\ ToSet(one \o below) = ToSet(one) \cup ToSet(below)
    <3>1. one \in Seq(Devices) /\ below \in Seq(Devices)
      BY <2>1, <2>2 DEF one, below
    <3> QED
      BY <3>1, ElementsOfJoin
  <2> QED
    BY <2>1, <2>2, <2>3 DEF one, below
<1>3. ChildLists(item, f) = [k \in 1 .. n |-> <<c[k]>> \o f[c[k]]]
  BY <1>1 DEF ChildLists
<1>4. ChildLists(item, f) \in [1 .. n -> Seq(Devices)]
  BY <1>2, <1>3
<1>5. ChildLists(item, f) \in Seq(Seq(Devices)) /\ Len(ChildLists(item, f)) = n
  <2> DEFINE lists == ChildLists(item, f)
  <2> HIDE DEF lists, n
  <2> SUFFICES lists \in Seq(Seq(Devices)) /\ Len(lists) = n
    BY DEF lists, n
  <2>1. lists \in [1 .. n -> Seq(Devices)]
    BY <1>4 DEF lists
  <2>2. lists \in Seq(Seq(Devices))
    BY <1>1, <2>1
  <2>3. DOMAIN lists = 1 .. n /\ DOMAIN lists = 1 .. Len(lists) /\ Len(lists) \in Nat
    BY <2>1, <2>2, LenProperties
  <2> QED
    BY <1>1, <2>2, <2>3
<1> QED
  BY <1>2, <1>3, <1>5

LEMMA VisitedByChildren ==
    \A item \in Devices : Visited[item] = FlattenSeq(ChildLists(item, Visited))
<1> DEFINE S == Seq(Devices)
           F == [Devices -> S]
           g == [x \in Devices \X F |-> FlattenSeq(ChildLists(x[1], x[2]))]
           Body(h) == [item \in Devices |-> FlattenSeq(ChildLists(item, h))]
<1>1. ASSUME NEW item \in Devices, NEW h \in F PROVE FlattenSeq(ChildLists(item, h)) \in S
  <2>1. ToSet(item.children) \subseteq Devices
    BY DevicesTyped
  <2>2. \A below \in ToSet(item.children) : h[below] \in Seq(Devices)
    BY <2>1
  <2>3. ChildLists(item, h) \in Seq(Seq(Devices))
    BY <2>2, ChildListsTyped
  <2> QED
    BY <2>3, FlattenedSeq DEF JoinOf
<1>2. g \in [Devices \X F -> S]
  BY <1>1
<1>3. \A item \in Devices, h \in F : g[<<item, h>>] = FlattenSeq(ChildLists(item, h))
  OBVIOUS
<1>4. LooksDown(Devices, S, Heights, g)
  <2>1. SUFFICES ASSUME NEW item \in Devices, NEW h1 \in F, NEW h2 \in F,
                        \A y \in Devices : Heights[y] < Heights[item] => h1[y] = h2[y]
                 PROVE  g[<<item, h1>>] = g[<<item, h2>>]
    BY DEF LooksDown
  <2>2. ASSUME NEW k \in DOMAIN item.children PROVE h1[item.children[k]] = h2[item.children[k]]
    <3>1. item.children[k] \in ToSet(item.children)
      BY DEF ToSet
    <3> QED
      BY <2>1, <3>1, DevicesTyped
  <2>3. ChildLists(item, h1) = ChildLists(item, h2)
    BY <2>2 DEF ChildLists
  <2> QED
    BY <1>3, <2>3
<1> HIDE DEF g
<1>5. PICK f \in F : \A item \in Devices : f[item] = g[<<item, f>>]
  <2>1. S # {}
    BY EmptySeq
  <2> HIDE DEF S
  <2>2. Solutions(Devices, S, g) # {}
    BY <1>2, <1>4, <2>1, DevicesTyped, RecursionByHeight
  <2> QED
    BY <2>2 DEF Solutions
<1>6. f = Body(f)
  BY <1>3, <1>5
<1>7. Visited = CHOOSE h : h = Body(h)
  BY DEF Visited, ChildLists
<1>8. Visited = Body(Visited)
  BY <1>6, <1>7, Zenon
<1> QED
  BY <1>8, Zenon

LEMMA BeneathByChildren ==
    \A item \in Devices : Beneath[item] = UNION {{below} \cup Beneath[below] : below \in ToSet(item.children)}
<1> DEFINE S == SUBSET Devices
           F == [Devices -> S]
           All(item, h) == UNION {{below} \cup h[below] : below \in ToSet(item.children)}
           g == [x \in Devices \X F |-> All(x[1], x[2])]
           Body(h) == [item \in Devices |-> All(item, h)]
<1>1. ASSUME NEW item \in Devices, NEW h \in F PROVE All(item, h) \in S
  <2>1. ToSet(item.children) \subseteq Devices
    BY DevicesTyped
  <2> QED
    BY <2>1
<1>2. ASSUME NEW item \in Devices, NEW h1 \in F, NEW h2 \in F,
             \A y \in Devices : Heights[y] < Heights[item] => h1[y] = h2[y]
      PROVE  All(item, h1) = All(item, h2)
  <2>1. ASSUME NEW below \in ToSet(item.children) PROVE h1[below] = h2[below]
    BY <1>2, DevicesTyped
  <2> QED
    BY <2>1
<1>3. Beneath = CHOOSE h : h = Body(h)
  BY DEF Beneath
<1> HIDE DEF All
<1>4. g \in [Devices \X F -> S]
  BY <1>1
<1>5. \A item \in Devices, h \in F : g[<<item, h>>] = All(item, h)
  OBVIOUS
<1> HIDE DEF g
<1>6. LooksDown(Devices, S, Heights, g)
  BY <1>2, <1>5 DEF LooksDown
<1>7. PICK f \in F : \A item \in Devices : f[item] = g[<<item, f>>]
  <2>1. S # {}
    OBVIOUS
  <2> HIDE DEF S
  <2>2. Solutions(Devices, S, g) # {}
    BY <1>4, <1>6, <2>1, DevicesTyped, RecursionByHeight
  <2> QED
    BY <2>2 DEF Solutions
<1>8. f = Body(f)
  BY <1>5, <1>7
<1>9. Beneath = Body(Beneath)
  BY <1>3, <1>8, Zenon
<1> QED
  BY <1>9, Zenon DEF All

(* The traversal comes to every device beneath, however deep, and to no     *)
(* other.                                                                   *)
LEMMA VisitedIsBeneath ==
    \A item \in Devices : Visited[item] \in Seq(Devices) /\ ToSet(Visited[item]) = Beneath[item]
<1> DEFINE T == {item \in Devices : Visited[item] \in Seq(Devices) /\ ToSet(Visited[item]) = Beneath[item]}
<1>1. ASSUME NEW item \in Devices,
             \A y \in Devices : Heights[y] < Heights[item] => y \in T
      PROVE  item \in T
  <2> DEFINE c == item.children
             lists == ChildLists(item, Visited)
  <2>1. c \in Seq(Devices) /\ ToSet(c) \subseteq Devices /\ \A below \in ToSet(c) : below \in T
    BY <1>1, DevicesTyped
  <2>2. ToSet(c) = {c[k] : k \in 1 .. Len(c)}
    BY <2>1, ElementsOfSeq
  <2>3. /\ lists \in Seq(Seq(Devices)) /\ Len(lists) = Len(c)
        /\ \A k \in 1 .. Len(c) : ToSet(lists[k]) = {c[k]} \cup ToSet(Visited[c[k]])
    BY <2>1, ChildListsTyped, ZenonT(30)
  <2> HIDE DEF lists
  <2>4. FlattenSeq(lists) \in Seq(Devices)
        /\ ToSet(FlattenSeq(lists)) = UNION {ToSet(lists[k]) : k \in 1 .. Len(c)}
    BY <2>3, FlattenedSeq DEF JoinOf
  <2>5. Visited[item] = FlattenSeq(lists)
    BY VisitedByChildren DEF lists
  <2>6. \A k \in 1 .. Len(c) : ToSet(lists[k]) = {c[k]} \cup Beneath[c[k]]
    BY <2>1, <2>2, <2>3
  <2>7. UNION {ToSet(lists[k]) : k \in 1 .. Len(c)} = UNION {{below} \cup Beneath[below] : below \in ToSet(c)}
    <3> HIDE DEF c, T
    <3> QED
      BY <2>2, <2>6
  <2> QED
    BY <2>4, <2>5, <2>7, BeneathByChildren
<1>2. Devices \subseteq T
  <2> HIDE DEF T
  <2> QED
    BY <1>1, DevicesTyped, InductionByHeight
<1> QED
  BY <1>2

(***************************************************************************)
(* One disk.                                                                *)
(***************************************************************************)
DiskRecords(item) ==
    [path : {item.name}, partitions : Seq({x.name : x \in Devices}),
     removable : {item.rm \/ item.usb}, in_use : BOOLEAN]

LEMMA CollectTyped ==
    ASSUME NEW item \in Devices, NEW disk \in DiskRecords(item), NEW device \in Devices
    PROVE  CollectDevice(disk, device) \in DiskRecords(item)
<1>1. disk.partitions \in Seq({x.name : x \in Devices}) /\ disk.in_use \in BOOLEAN
  BY DEF DiskRecords
<1>2. Append(disk.partitions, device.name) \in Seq({x.name : x \in Devices})
  <2>1. device.name \in {x.name : x \in Devices}
    OBVIOUS
  <2> QED
    BY <1>1, <2>1, AppendProperties
<1> DEFINE parts == IF device.type = "part" /\ Len(disk.partitions) < MaxPartsPerDisk
                    THEN Append(disk.partitions, device.name) ELSE disk.partitions
           busy == disk.in_use \/ device.mounted \/ device.type \notin {"", "part"}
<1>3. parts \in Seq({x.name : x \in Devices}) /\ busy \in BOOLEAN
  BY <1>1, <1>2
<1>4. CollectDevice(disk, device) = [disk EXCEPT !.partitions = parts, !.in_use = busy]
  BY DEF CollectDevice
<1> HIDE DEF parts, busy
<1> QED
  BY <1>3, <1>4 DEF DiskRecords

LEMMA CollectedStepByStep ==
    ASSUME NEW item \in Devices, NEW disk \in DiskRecords(item), NEW visited \in Seq(Devices)
    PROVE  /\ CollectedUpTo(disk, visited)[0] = disk
           /\ \A n \in 1 .. Len(visited) :
                 CollectedUpTo(disk, visited)[n] = CollectDevice(CollectedUpTo(disk, visited)[n - 1], visited[n])
<1> DEFINE N == Len(visited)
           S == DiskRecords(item)
           Next1(d, n) == IF n \in 1 .. N THEN CollectDevice(d, visited[n]) ELSE d
           g == [x \in S \X Nat |-> Next1(x[1], x[2])]
           Body(h) == [n \in 0 .. N |-> IF n = 0 THEN disk ELSE CollectDevice(h[n - 1], visited[n])]
<1>1. N \in Nat /\ \A n \in 1 .. N : visited[n] \in Devices
  BY LenProperties, ElementOfSeq
<1>2. ASSUME NEW d \in S, NEW n \in Nat PROVE Next1(d, n) \in S
  BY <1>1, CollectTyped
<1> HIDE DEF Next1
<1>3. g \in [S \X Nat -> S]
  BY <1>2
<1>4. \A d \in S, n \in Nat : g[<<d, n>>] = Next1(d, n)
  OBVIOUS
<1> HIDE DEF g
<1>5. PICK f \in [0 .. N -> S] : f[0] = disk /\ \A n \in 1 .. N : f[n] = g[<<f[n - 1], n>>]
  <2> HIDE DEF S, N
  <2>1. Iterates(N, S, disk, g) # {}
    <3>1. disk \in S
      BY DEF S
    <3> QED
      BY <1>1, <1>3, <3>1, Recursion
  <2> QED
    BY <2>1 DEF Iterates
<1>6. ASSUME NEW n \in 1 .. N PROVE f[n] = CollectDevice(f[n - 1], visited[n])
  <2>1. n - 1 \in 0 .. N /\ n \in Nat
    BY <1>1
  <2> HIDE DEF S
  <2>2. f[n - 1] \in S
    BY <1>5, <2>1
  <2> QED
    BY <1>4, <1>5, <2>1, <2>2 DEF Next1
<1>7. f = Body(f)
  <2>1. ASSUME NEW n \in 0 .. N PROVE f[n] = Body(f)[n]
    <3>1. CASE n = 0
      BY <1>5, <3>1
    <3>2. CASE n # 0
      <4>1. n \in 1 .. N
        BY <1>1, <3>2
      <4> QED
        BY <1>6, <3>2, <4>1
    <3> QED
      BY <3>1, <3>2
  <2> HIDE DEF S
  <2> QED
    BY <1>5, <2>1
<1> DEFINE c == CollectedUpTo(disk, visited)
<1>8. c = CHOOSE h : h = Body(h)
  BY DEF CollectedUpTo
<1>9. c = Body(c)
  BY <1>7, <1>8, Zenon
<1> HIDE DEF c
<1>10. 0 \in 0 .. N /\ \A n \in 1 .. N : n \in 0 .. N /\ n # 0
  BY <1>1
<1>11. c[0] = disk /\ \A n \in 1 .. N : c[n] = CollectDevice(c[n - 1], visited[n])
  BY <1>9, <1>10, Zenon
<1> QED
  BY <1>11 DEF c

(* The disk after the first n of the devices visited. *)
NamesAmong(visited, n) == {visited[k].name : k \in {j \in 1 .. n : visited[j].type = "part"}}
BusyAmong(visited, n) == \E k \in 1 .. n : visited[k].mounted \/ visited[k].type \notin {"", "part"}

Holds(item, visited, n, disk) ==
    /\ disk \in DiskRecords(item)
    /\ disk.in_use <=> item.mounted \/ BusyAmong(visited, n)
    /\ ToSet(disk.partitions) \subseteq NamesAmong(visited, n)
    /\ Len(disk.partitions) <= MaxPartsPerDisk
    /\ Len(disk.partitions) < MaxPartsPerDisk => ToSet(disk.partitions) = NamesAmong(visited, n)

LEMMA EmptyDiskHolds ==
    ASSUME NEW item \in Devices, NEW visited \in Seq(Devices)
    PROVE  Holds(item, visited, 0, EmptyDisk(item))
<1>1. EmptyDisk(item) \in DiskRecords(item)
  BY DevicesTyped, EmptySeq DEF EmptyDisk, DiskRecords
<1>2. 1 .. 0 = {} /\ ToSet(<<>>) = {} /\ Len(<<>>) = 0
  BY EmptySeq DEF ToSet
<1>3. NamesAmong(visited, 0) = {} /\ ~BusyAmong(visited, 0)
  BY <1>2 DEF NamesAmong, BusyAmong
<1>4. EmptyDisk(item).partitions = <<>> /\ EmptyDisk(item).in_use = item.mounted
  BY DEF EmptyDisk
<1>5. EmptyDisk(item).in_use <=> item.mounted \/ BusyAmong(visited, 0)
  BY <1>3, <1>4, Zenon
<1>6. /\ ToSet(EmptyDisk(item).partitions) = {} /\ Len(EmptyDisk(item).partitions) = 0
  BY <1>2, <1>4, Zenon
<1>7. 0 <= MaxPartsPerDisk
  BY DevicesTyped
<1> QED
  BY <1>1, <1>3, <1>5, <1>6, <1>7, Zenon DEF Holds

LEMMA CollectHolds ==
    ASSUME NEW item \in Devices, NEW visited \in Seq(Devices), NEW n \in Nat, n + 1 \in 1 .. Len(visited),
           NEW disk, Holds(item, visited, n, disk)
    PROVE  Holds(item, visited, n + 1, CollectDevice(disk, visited[n + 1]))
<1> DEFINE device == visited[n + 1]
           after == CollectDevice(disk, device)
           P == {x.name : x \in Devices}
<1>1. device \in Devices /\ disk \in DiskRecords(item)
  BY ElementOfSeq DEF Holds
<1>2. after \in DiskRecords(item)
  BY <1>1, CollectTyped
<1>3. 1 .. n + 1 = (1 .. n) \cup {n + 1}
  OBVIOUS
<1>4. BusyAmong(visited, n + 1) <=> BusyAmong(visited, n) \/ device.mounted \/ device.type \notin {"", "part"}
  BY <1>3, Zenon DEF BusyAmong
<1>5. NamesAmong(visited, n + 1) =
         NamesAmong(visited, n) \cup IF device.type = "part" THEN {device.name} ELSE {}
  <2>1. CASE device.type = "part"
    BY <1>3, <2>1 DEF NamesAmong
  <2>2. CASE device.type # "part"
    BY <1>3, <2>2 DEF NamesAmong
  <2> QED
    BY <2>1, <2>2
<1>6. /\ after.in_use = (disk.in_use \/ device.mounted \/ device.type \notin {"", "part"})
      /\ after.partitions = IF device.type = "part" /\ Len(disk.partitions) < MaxPartsPerDisk
                            THEN Append(disk.partitions, device.name) ELSE disk.partitions
  BY <1>1 DEF CollectDevice, DiskRecords
<1>7. /\ disk.partitions \in Seq(P) /\ device.name \in P /\ Len(disk.partitions) \in Nat
      /\ device.mounted \in BOOLEAN /\ disk.in_use \in BOOLEAN
  BY <1>1, DevicesTyped, LenProperties DEF DiskRecords
<1>8. after.in_use <=> item.mounted \/ BusyAmong(visited, n + 1)
  BY <1>4, <1>6, Zenon DEF Holds
<1>9. /\ Append(disk.partitions, device.name) \in Seq(P)
      /\ Len(Append(disk.partitions, device.name)) = Len(disk.partitions) + 1
      /\ ToSet(Append(disk.partitions, device.name)) = ToSet(disk.partitions) \cup {device.name}
  <2> HIDE DEF P, device
  <2> QED
    BY <1>7, ElementsOfAppend
<1> HIDE DEF device, after
<1>10. /\ ToSet(after.partitions) \subseteq NamesAmong(visited, n + 1)
       /\ Len(after.partitions) <= MaxPartsPerDisk
       /\ Len(after.partitions) < MaxPartsPerDisk => ToSet(after.partitions) = NamesAmong(visited, n + 1)
  <2>1. CASE device.type = "part" /\ Len(disk.partitions) < MaxPartsPerDisk
    <3>1. /\ Len(after.partitions) = Len(disk.partitions) + 1
          /\ ToSet(after.partitions) = ToSet(disk.partitions) \cup {device.name}
          /\ NamesAmong(visited, n + 1) = NamesAmong(visited, n) \cup {device.name}
      BY <1>5, <1>6, <1>9, <2>1
    <3>2. MaxPartsPerDisk \in Nat /\ Len(disk.partitions) \in Nat
      BY <1>7, DevicesTyped
    <3>3. ToSet(disk.partitions) = NamesAmong(visited, n)
      BY <2>1 DEF Holds
    <3> QED
      BY <2>1, <3>1, <3>2, <3>3
  <2>2. CASE device.type = "part" /\ ~(Len(disk.partitions) < MaxPartsPerDisk)
    BY <1>5, <1>6, <1>7, <2>2, DevicesTyped DEF Holds
  <2>3. CASE device.type # "part"
    BY <1>5, <1>6, <2>3 DEF Holds
  <2> QED
    BY <2>1, <2>2, <2>3
<1> QED
  BY <1>2, <1>8, <1>10 DEF Holds, after, device

LEMMA DiskInfoFaithful ==
    ASSUME NEW item \in Devices
    PROVE  Faithful(DiskInfo(item), item)
<1> DEFINE visited == Visited[item]
           c == CollectedUpTo(EmptyDisk(item), visited)
           N == Len(visited)
<1>1. visited \in Seq(Devices) /\ ToSet(visited) = Beneath[item]
  BY VisitedIsBeneath
<1>2. N \in Nat /\ ToSet(visited) = {visited[k] : k \in 1 .. N}
  BY <1>1, LenProperties, ElementsOfSeq
<1>3. DiskInfo(item) = c[N]
  BY DEF DiskInfo
<1> HIDE DEF visited
<1>4. Holds(item, visited, 0, EmptyDisk(item))
  BY <1>1, EmptyDiskHolds
<1>5. c[0] = EmptyDisk(item) /\ \A n \in 1 .. N : c[n] = CollectDevice(c[n - 1], visited[n])
  <2>1. EmptyDisk(item) \in DiskRecords(item)
    BY <1>4 DEF Holds
  <2> QED
    BY <1>1, <2>1, CollectedStepByStep
<1> HIDE DEF c
<1> DEFINE T == {n \in Nat : n > N \/ Holds(item, visited, n, c[n])}
<1>6. 0 \in T
  BY <1>4, <1>5
<1>7. ASSUME NEW n \in T \cap Nat PROVE n + 1 \in T
  <2>1. CASE n + 1 > N
    BY <2>1
  <2>2. CASE n + 1 <= N
    <3>1. n + 1 \in 1 .. N /\ (n + 1) - 1 = n /\ Holds(item, visited, n, c[n])
      BY <1>2, <2>2
    <3>2. c[n + 1] = CollectDevice(c[n], visited[n + 1])
      BY <1>5, <3>1
    <3>3. Holds(item, visited, n + 1, c[n + 1])
      BY <1>1, <3>1, <3>2, CollectHolds
    <3> QED
      BY <3>3
  <2> QED
    BY <1>2, <2>1, <2>2
<1>8. Nat \subseteq T
  <2> HIDE DEF T
  <2> QED
    BY <1>6, <1>7, NumbersFromZero
<1>9. Holds(item, visited, N, c[N])
  BY <1>2, <1>8
<1>10. NamesAmong(visited, N) = PartitionNames(item)
  <2> HIDE DEF N
  <2> QED
    BY <1>1, <1>2 DEF NamesAmong, PartitionNames
<1>11. Occupied(item) <=> item.mounted \/ BusyAmong(visited, N)
  <2>1. (\E below \in ToSet(visited) : below.mounted \/ below.type \notin {"", "part"}) <=> BusyAmong(visited, N)
    <3> HIDE DEF N
    <3> QED
      BY <1>2 DEF BusyAmong
  <2> QED
    BY <1>1, <2>1, Zenon DEF Occupied
<1>12. Occupied(item) \in BOOLEAN
  BY DevicesTyped DEF Occupied
<1> DEFINE disk == DiskInfo(item)
<1>13. /\ disk \in DiskRecords(item) /\ (disk.in_use <=> item.mounted \/ BusyAmong(visited, N))
       /\ ToSet(disk.partitions) \subseteq NamesAmong(visited, N)
       /\ Len(disk.partitions) <= MaxPartsPerDisk
       /\ Len(disk.partitions) < MaxPartsPerDisk => ToSet(disk.partitions) = NamesAmong(visited, N)
  BY <1>3, <1>9 DEF Holds
<1> HIDE DEF disk
<1>14. disk.path = item.name /\ disk.removable = (item.rm \/ item.usb) /\ disk.in_use \in BOOLEAN
  BY <1>13 DEF DiskRecords
<1>15. disk.in_use = Occupied(item)
  BY <1>11, <1>12, <1>13, <1>14
<1> QED
  BY <1>10, <1>13, <1>14, <1>15 DEF Faithful, disk

(***************************************************************************)
(* The inventory.                                                           *)
(***************************************************************************)
LEMMA DisksCounted ==
    ASSUME NEW listing \in Seq(Devices), NEW n \in Nat
    PROVE  /\ IsFiniteSet(DisksAmong(listing, n)) /\ Cardinality(DisksAmong(listing, n)) \in Nat
           /\ IsDisk(listing[n + 1]) =>
                 /\ DisksAmong(listing, n + 1) = DisksAmong(listing, n) \cup {n + 1}
                 /\ Cardinality(DisksAmong(listing, n + 1)) = Cardinality(DisksAmong(listing, n)) + 1
           /\ ~IsDisk(listing[n + 1]) => DisksAmong(listing, n + 1) = DisksAmong(listing, n)
<1>1. IsFiniteSet(DisksAmong(listing, n)) /\ Cardinality(DisksAmong(listing, n)) \in Nat
  <2>1. IsFiniteSet(1 .. n) /\ DisksAmong(listing, n) \in SUBSET (1 .. n)
    BY FS_Interval DEF DisksAmong
  <2> QED
    BY <2>1, FS_Subset, FS_CardinalityType
<1>2. 1 .. n + 1 = (1 .. n) \cup {n + 1} /\ n + 1 \notin 1 .. n
  OBVIOUS
<1>3. ASSUME IsDisk(listing[n + 1])
      PROVE  /\ DisksAmong(listing, n + 1) = DisksAmong(listing, n) \cup {n + 1}
             /\ Cardinality(DisksAmong(listing, n + 1)) = Cardinality(DisksAmong(listing, n)) + 1
  <2>1. DisksAmong(listing, n + 1) = DisksAmong(listing, n) \cup {n + 1} /\ n + 1 \notin DisksAmong(listing, n)
    BY <1>2, <1>3 DEF DisksAmong
  <2> QED
    BY <1>1, <2>1, FS_AddElement
<1>4. ASSUME ~IsDisk(listing[n + 1]) PROVE DisksAmong(listing, n + 1) = DisksAmong(listing, n)
  BY <1>2, <1>4 DEF DisksAmong
<1> QED
  BY <1>1, <1>3, <1>4

DiskInfos == {DiskInfo(item) : item \in Devices}
FoundNext(listing, found, n) ==
    IF IsDisk(listing[n]) /\ Len(found) < AI_MAX_DISKS THEN Append(found, DiskInfo(listing[n])) ELSE found

LEMMA FoundStepByStep ==
    ASSUME NEW listing \in Seq(Devices)
    PROVE  /\ FoundUpTo(listing)[0] = <<>>
           /\ \A n \in 1 .. Len(listing) :
                 FoundUpTo(listing)[n] = FoundNext(listing, FoundUpTo(listing)[n - 1], n)
<1> DEFINE N == Len(listing)
           S == Seq(DiskInfos)
           Next1(s, n) == IF n \in 1 .. N THEN FoundNext(listing, s, n) ELSE s
           g == [x \in S \X Nat |-> Next1(x[1], x[2])]
           Body(h) == [n \in 0 .. N |->
                         IF n = 0 THEN <<>>
                         ELSE IF IsDisk(listing[n]) /\ Len(h[n - 1]) < AI_MAX_DISKS
                              THEN Append(h[n - 1], DiskInfo(listing[n])) ELSE h[n - 1]]
<1>1. N \in Nat /\ \A n \in 1 .. N : listing[n] \in Devices
  BY LenProperties, ElementOfSeq
<1>2. ASSUME NEW s \in S, NEW n \in Nat PROVE Next1(s, n) \in S
  <2>1. ASSUME NEW info \in DiskInfos PROVE Append(s, info) \in S
    BY AppendProperties
  <2>2. \A m \in 1 .. N : DiskInfo(listing[m]) \in DiskInfos
    BY <1>1 DEF DiskInfos
  <2> QED
    BY <2>1, <2>2 DEF FoundNext
<1> HIDE DEF Next1
<1>3. g \in [S \X Nat -> S]
  BY <1>2
<1>4. \A s \in S, n \in Nat : g[<<s, n>>] = Next1(s, n)
  OBVIOUS
<1> HIDE DEF g
<1>5. PICK f \in [0 .. N -> S] : f[0] = <<>> /\ \A n \in 1 .. N : f[n] = g[<<f[n - 1], n>>]
  <2>1. <<>> \in S
    BY EmptySeq
  <2> HIDE DEF S, N
  <2>2. Iterates(N, S, <<>>, g) # {}
    BY <1>1, <1>3, <2>1, Recursion
  <2> QED
    BY <2>2 DEF Iterates
<1>6. ASSUME NEW n \in 1 .. N PROVE f[n] = FoundNext(listing, f[n - 1], n)
  <2>1. n - 1 \in 0 .. N /\ n \in Nat
    BY <1>1
  <2> HIDE DEF S
  <2>2. f[n - 1] \in S
    BY <1>5, <2>1
  <2> QED
    BY <1>4, <1>5, <2>1, <2>2 DEF Next1
<1>7. f = Body(f)
  <2>1. ASSUME NEW n \in 0 .. N PROVE f[n] = Body(f)[n]
    <3>1. CASE n = 0
      BY <1>5, <3>1
    <3>2. CASE n # 0
      <4>1. n \in 1 .. N
        BY <1>1, <3>2
      <4> QED
        BY <1>6, <3>2, <4>1 DEF FoundNext
    <3> QED
      BY <3>1, <3>2
  <2> HIDE DEF S
  <2> QED
    BY <1>5, <2>1
<1> DEFINE c == FoundUpTo(listing)
<1>8. c = CHOOSE h : h = Body(h)
  BY DEF FoundUpTo
<1>9. c = Body(c)
  BY <1>7, <1>8, Zenon
<1> HIDE DEF c
<1>10. 0 \in 0 .. N /\ \A n \in 1 .. N : n \in 0 .. N /\ n # 0
  BY <1>1
<1>11. c[0] = <<>> /\ \A n \in 1 .. N : c[n] = FoundNext(listing, c[n - 1], n)
  BY <1>9, <1>10, Zenon DEF FoundNext
<1> QED
  BY <1>11 DEF c

Place(listing, k) == Cardinality(DisksAmong(listing, k))

HoldsDisks(listing, n, found) ==
    /\ found \in Seq(DiskInfos)
    /\ Len(found) = IF Place(listing, n) < AI_MAX_DISKS THEN Place(listing, n) ELSE AI_MAX_DISKS
    /\ \A k \in DisksAmong(listing, n) : Place(listing, k) <= AI_MAX_DISKS =>
          Place(listing, k) \in 1 .. Len(found) /\ found[Place(listing, k)] = DiskInfo(listing[k])

LEMMA FoundHolds ==
    ASSUME NEW listing \in Seq(Devices), NEW n \in Nat, n + 1 \in 1 .. Len(listing),
           NEW found, HoldsDisks(listing, n, found)
    PROVE  HoldsDisks(listing, n + 1, FoundNext(listing, found, n + 1))
<1> DEFINE info == DiskInfo(listing[n + 1])
<1>1. info \in DiskInfos /\ found \in Seq(DiskInfos) /\ Len(found) \in Nat /\ AI_MAX_DISKS \in Nat
  <2>1. listing[n + 1] \in Devices
    BY ElementOfSeq
  <2> QED
    BY <2>1, LenProperties, DevicesTyped DEF DiskInfos, HoldsDisks
<1>2. Place(listing, n) \in Nat
  BY DisksCounted DEF Place
<1>3. CASE ~IsDisk(listing[n + 1])
  <2>1. DisksAmong(listing, n + 1) = DisksAmong(listing, n) /\ Place(listing, n + 1) = Place(listing, n)
    BY <1>3, DisksCounted DEF Place
  <2>2. FoundNext(listing, found, n + 1) = found
    BY <1>3 DEF FoundNext
  <2> QED
    BY <2>1, <2>2 DEF HoldsDisks
<1>4. CASE IsDisk(listing[n + 1])
  <2>1. /\ DisksAmong(listing, n + 1) = DisksAmong(listing, n) \cup {n + 1}
        /\ Place(listing, n + 1) = Place(listing, n) + 1
    BY <1>4, DisksCounted DEF Place
  <2>2. CASE Len(found) < AI_MAX_DISKS
    <3> DEFINE longer == Append(found, info)
    <3>1. /\ longer \in Seq(DiskInfos) /\ Len(longer) = Len(found) + 1
          /\ \A i \in 1 .. Len(found) : longer[i] = found[i]
          /\ longer[Len(found) + 1] = info
      <4> HIDE DEF info
      <4> QED
        BY <1>1, AppendProperties
    <3>2. FoundNext(listing, found, n + 1) = longer
      BY <1>4, <2>2 DEF FoundNext
    <3> HIDE DEF longer
    <3>3. Len(found) = Place(listing, n) /\ Len(longer) = Place(listing, n + 1)
      BY <1>1, <1>2, <2>1, <2>2, <3>1 DEF HoldsDisks
    <3>4. Place(listing, n + 1) <= AI_MAX_DISKS
      BY <1>1, <2>2, <3>1, <3>3
    <3>5. Len(longer) = IF Place(listing, n + 1) < AI_MAX_DISKS THEN Place(listing, n + 1) ELSE AI_MAX_DISKS
      BY <1>1, <1>2, <2>1, <3>3, <3>4
    <3>6. ASSUME NEW k \in DisksAmong(listing, n + 1), Place(listing, k) <= AI_MAX_DISKS
          PROVE  Place(listing, k) \in 1 .. Len(longer) /\ longer[Place(listing, k)] = DiskInfo(listing[k])
      <4>1. CASE k \in DisksAmong(listing, n)
        <5>1. Place(listing, k) \in 1 .. Len(found) /\ found[Place(listing, k)] = DiskInfo(listing[k])
          BY <3>6, <4>1 DEF HoldsDisks
        <5> QED
          BY <1>1, <3>1, <5>1
      <4>2. CASE k = n + 1
        <5>1. Place(listing, k) = Len(found) + 1 /\ DiskInfo(listing[k]) = info
          BY <2>1, <3>3, <4>2
        <5> QED
          BY <1>1, <3>1, <5>1
      <4> QED
        BY <2>1, <4>1, <4>2
    <3> QED
      BY <3>1, <3>2, <3>5, <3>6 DEF HoldsDisks
  <2>3. CASE ~(Len(found) < AI_MAX_DISKS)
    <3>1. FoundNext(listing, found, n + 1) = found
      BY <2>3 DEF FoundNext
    <3>2. Len(found) = AI_MAX_DISKS /\ Place(listing, n) >= AI_MAX_DISKS
      BY <1>1, <1>2, <2>3 DEF HoldsDisks
    <3>3. ~(Place(listing, n + 1) <= AI_MAX_DISKS)
      BY <1>1, <1>2, <2>1, <3>2
    <3>4. ~(Place(listing, n + 1) < AI_MAX_DISKS)
      BY <1>1, <1>2, <2>1, <3>2
    <3> QED
      BY <1>1, <2>1, <3>1, <3>2, <3>3, <3>4 DEF HoldsDisks
  <2> QED
    BY <2>2, <2>3
<1> QED
  BY <1>3, <1>4

(* detect_hardware: every inventory it makes of the trees of lsblk is whole. *)
LEMMA DetectedIsWhole ==
    ASSUME NEW listing \in Seq(Devices)
    PROVE  WholeInventory(Detected(listing), listing)
<1> DEFINE N == Len(listing)
           c == FoundUpTo(listing)
<1>1. N \in Nat /\ c[0] = <<>> /\ \A n \in 1 .. N : c[n] = FoundNext(listing, c[n - 1], n)
  BY FoundStepByStep, LenProperties
<1>2. Detected(listing) = c[N]
  BY DEF Detected
<1> HIDE DEF c
<1> DEFINE T == {n \in Nat : n > N \/ HoldsDisks(listing, n, c[n])}
<1>3. 0 \in T
  <2>1. 1 .. 0 = {}
    OBVIOUS
  <2>2. DisksAmong(listing, 0) = {} /\ Place(listing, 0) = 0
    BY <2>1, FS_EmptySet DEF DisksAmong, Place
  <2>3. Len(<<>>) = 0 /\ <<>> \in Seq(DiskInfos)
    BY EmptySeq
  <2>4. HoldsDisks(listing, 0, c[0])
    BY <1>1, <2>2, <2>3, DevicesTyped DEF HoldsDisks
  <2> QED
    BY <2>4
<1>4. ASSUME NEW n \in T \cap Nat PROVE n + 1 \in T
  <2>1. CASE n + 1 > N
    BY <2>1
  <2>2. CASE n + 1 <= N
    <3>1. n + 1 \in 1 .. N /\ (n + 1) - 1 = n /\ HoldsDisks(listing, n, c[n])
      BY <1>1, <2>2
    <3>2. c[n + 1] = FoundNext(listing, c[n], n + 1)
      BY <1>1, <3>1
    <3>3. HoldsDisks(listing, n + 1, c[n + 1])
      BY <3>1, <3>2, FoundHolds
    <3> QED
      BY <3>3
  <2> QED
    BY <1>1, <2>1, <2>2
<1>5. Nat \subseteq T
  <2> HIDE DEF T
  <2> QED
    BY <1>3, <1>4, NumbersFromZero
<1>6. HoldsDisks(listing, N, c[N])
  BY <1>1, <1>5
<1>7. Len(c[N]) = Min({Cardinality(DisksAmong(listing, N)), AI_MAX_DISKS})
  <2>1. Place(listing, N) \in Nat /\ AI_MAX_DISKS \in Nat
    BY <1>1, DisksCounted, DevicesTyped DEF Place
  <2>2. Min({Place(listing, N), AI_MAX_DISKS}) =
           IF Place(listing, N) < AI_MAX_DISKS THEN Place(listing, N) ELSE AI_MAX_DISKS
    BY <2>1, MinOfTwo
  <2> QED
    BY <1>6, <2>2 DEF HoldsDisks, Place
<1>8. ASSUME NEW k \in DisksAmong(listing, N), Cardinality(DisksAmong(listing, k)) <= AI_MAX_DISKS
      PROVE  Faithful(c[N][Cardinality(DisksAmong(listing, k))], listing[k])
  <2>1. c[N][Place(listing, k)] = DiskInfo(listing[k])
    BY <1>6, <1>8 DEF HoldsDisks, Place
  <2>2. listing[k] \in Devices
    <3>1. k \in 1 .. N
      BY DEF DisksAmong
    <3> QED
      BY <3>1, ElementOfSeq
  <2> QED
    BY <2>1, <2>2, DiskInfoFaithful DEF Place
<1> QED
  BY <1>2, <1>7, <1>8 DEF WholeInventory
=============================================================================
