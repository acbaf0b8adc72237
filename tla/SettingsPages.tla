---------------------------- MODULE SettingsPages ----------------------------
(***************************************************************************)
(* The session on the pages base_system, hardware, software, identity and   *)
(* output with their dialogs, and the keys F2 and F10.  The cursor can be   *)
(* on any row of any page, so a key of a page is enabled at any time; the   *)
(* storage page is StoragePage, and what it edits is left alone here.       *)
(***************************************************************************)
EXTENDS Startup, Dialogs

CONSTANTS
    MaxChanges,    \* bound: keys that change the plan, per session
    GroupSize,     \* packages of a group
    MaxChoices,    \* bound: options of a choice
    Warnings       \* question -> messages of its confirmation

ASSUME PagesAssumption ==
    /\ {MaxChanges, GroupSize, MaxChoices} \subseteq Nat
    /\ \A question \in {"local_mirror", "secure_boot", "run", "quit"} :
          Warnings[question] \subseteq Seq({"letter", "blank", "feed"})

VARIABLES dirty, changes, dialog

sessionVars == <<dirty, changes, dialog>>

SessionInit == dirty = FALSE /\ changes = 0 /\ dialog = NoDialog

AtPage == at = "session" /\ dialog = NoDialog
AtDialog(kind) == at = "session" /\ dialog.kind = kind
MayChange == changes < MaxChanges

Unchanged == UNCHANGED <<captureVars, mode, configVars, paths, devices, inventory>>
FilesStay == UNCHANGED <<plan_file, script_file>>

Opens(d) == dialog' = d /\ UNCHANGED <<at, plan, dirty, changes>> /\ FilesStay /\ Unchanged
(* The dialog closes; the page goes on without what it asked for.           *)
Closes   == dialog' = NoDialog /\ UNCHANGED <<at, plan, dirty, changes>> /\ FilesStay /\ Unchanged

Changes(system) ==
    /\ MayChange /\ changes' = changes + 1
    /\ plan' = [plan EXCEPT !.system = system] /\ dirty' = TRUE /\ dialog' = NoDialog
    /\ UNCHANGED at /\ FilesStay /\ Unchanged

-----------------------------------------------------------------------------
NextPlatform == [intel |-> "amd", amd |-> "vm", vm |-> "intel"]
NextKernel   == [linux |-> "lts", lts |-> "zen", zen |-> "hardened", hardened |-> "linux"]
NextDesktopPastEnd == [kde |-> "gnome", gnome |-> "hyprland", hyprland |-> "none", none |-> "five"]
NextDesktop  == [kde |-> "gnome", gnome |-> "hyprland", hyprland |-> "none", none |-> "kde"]

Toggled(on, flag) == IF flag \in on THEN on \ {flag} ELSE on \cup {flag}

(* Space: the next value of an enumeration, or the other value of a flag.   *)
(* The locale is not part of the settings modelled; changing it only marks  *)
(* the plan.                                                                *)
Cycle ==
    /\ AtPage
    /\ \/ Changes([plan.system EXCEPT !.platform = NextPlatform[@]])
       \/ Changes([plan.system EXCEPT !.kernel = NextKernel[@]])
       \/ Changes([plan.system EXCEPT !.desktop = NextDesktop[@]])
       \/ Changes(plan.system)

Trusting == {"local_mirror", "secure_boot"}

Toggle(flag) ==
    /\ AtPage /\ (flag \in Trusting => flag \in plan.system.on)
    /\ Changes([plan.system EXCEPT !.on = Toggled(@, flag)])

(* What extends the trust of the installation is switched on after a        *)
(* confirmation.                                                            *)
AskTrust(flag) ==
    /\ AtPage /\ MayChange /\ flag \in Trusting \ plan.system.on
    /\ \E message \in Warnings[flag] :
          ConfirmOpens(message) /\ Opens(ConfirmDialog(flag, message))

(* Enter on a row of packages. *)
ShowPackages(row) ==
    /\ AtPage /\ changes = 0
    /\ Opens(ListDialog(GroupSize * Cardinality(Preview(row, plan.system) \ packages.empty)))

(* The choices of the storage page; what is chosen is StoragePage's.        *)
ShowChoice ==
    /\ AtPage /\ changes = 0
    /\ \E count \in 1 .. MaxChoices, current \in -1 .. MaxChoices : Opens(ChoiceDialog(count, current))

(* The text rows; hostname and timezone matter as far as validate_plan      *)
(* accepts them or not.                                                     *)
EditText ==
    /\ AtPage /\ changes = 0 /\ \E length \in 0 .. TextSize - 1 : Opens(TextDialog("identity", length))

(* Enter in the text dialog: any text the operator may have typed; one that *)
(* is left as it was counts as a change.                                    *)
ApplyText ==
    /\ AtDialog("text") /\ Applies(dialog)
    /\ \E identity \in IF dialog.edited THEN Identities ELSE {plan.system.identity} :
          Changes([plan.system EXCEPT !.identity = identity])

(* Keys within a dialog. *)
DialogKey ==
    /\ at = "session"
    /\ \/ dialog.kind = "list" /\ \E key \in ListKeys : Opens(ListKey(dialog, key))
       \/ dialog.kind = "choice" /\ \E key \in {"up", "down"} : Opens(ChoiceKey(dialog, key))
       \/ dialog.kind = "text" /\ \E key \in TextKeys : Opens(TextKey(dialog, key))
       \/ dialog.kind = "confirm" /\ Opens(ConfirmKey(dialog))

(* Esc, q in a confirmation, a resize, Enter in a list, on an empty text or *)
(* on No.                                                                   *)
Dismiss == at = "session" /\ dialog # NoDialog /\ Closes

AcceptTrust ==
    /\ AtDialog("confirm") /\ dialog.yes /\ dialog.question \in Trusting
    /\ Changes([plan.system EXCEPT !.on = @ \cup {dialog.question}])

-----------------------------------------------------------------------------
(* F2.  plan_save_json refuses a link; a save that fails writes the status. *)
PlanWritten ==
    /\ paths # "planlink" /\ plan_file' = PlanOf(Saved(plan))

SavePlan ==
    /\ AtPage /\ PlanWritten
    /\ script_file' = IF OneEntry(paths) THEN plan_file' ELSE script_file
    /\ dirty' = FALSE /\ UNCHANGED <<at, plan, changes, dialog>> /\ Unchanged

(* ui_generate, from any row of the output page: the plan first, then the   *)
(* script; the third row asks whether to run it.                            *)
Generate ==
    /\ AtPage /\ ValidSettings(plan.system)
    /\ paths \notin {"planlink", "scriptlink"}
    /\ script_file' = ScriptOf(plan.system, packages)
    /\ plan_file' = IF OneEntry(paths) THEN script_file' ELSE PlanOf(Saved(plan))
    /\ dirty' = FALSE
    /\ \/ dialog' = NoDialog
       \/ \E message \in Warnings["run"] :
             ConfirmOpens(message) /\ dialog' = ConfirmDialog("run", message)
    /\ UNCHANGED <<at, plan, changes>> /\ Unchanged

(* The script cannot be written: the plan has been saved and is still       *)
(* marked.                                                                  *)
GenerationFails ==
    /\ AtPage /\ ValidSettings(plan.system) /\ PlanWritten
    /\ script_file' = IF OneEntry(paths) THEN plan_file' ELSE script_file
    /\ UNCHANGED <<at, plan, dirty, changes, dialog>> /\ Unchanged

(* The loop ends and bash replaces the builder. *)
Run ==
    /\ AtDialog("confirm") /\ dialog.yes /\ dialog.question = "run"
    /\ at' = "bash" /\ dialog' = NoDialog
    /\ UNCHANGED <<plan, dirty, changes>> /\ FilesStay /\ Unchanged

(* F10 and the last row of the home page. *)
AskQuit ==
    /\ AtPage /\ dirty
    /\ \E message \in Warnings["quit"] :
          ConfirmOpens(message) /\ Opens(ConfirmDialog("quit", message))
Leave ==
    /\ at = "session"
    /\ \/ AtPage /\ ~dirty
       \/ AtDialog("confirm") /\ dialog.question = "quit" /\ dialog.yes
    /\ at' = "exit" /\ dialog' = NoDialog
    /\ UNCHANGED <<plan, dirty, changes>> /\ FilesStay /\ Unchanged

(* SIGINT, SIGTERM or SIGHUP, in the loop or in a dialog. *)
Stop ==
    /\ at = "session" /\ at' = "exit" /\ dialog' = NoDialog
    /\ UNCHANGED <<plan, dirty, changes>> /\ FilesStay /\ Unchanged

SessionNext ==
    \/ Cycle \/ (\E flag \in Flags : Toggle(flag)) \/ (\E flag \in Trusting : AskTrust(flag))
    \/ (\E row \in PreviewRows : ShowPackages(row)) \/ ShowChoice \/ EditText \/ ApplyText
    \/ DialogKey \/ Dismiss \/ AcceptTrust
    \/ SavePlan \/ Generate \/ GenerationFails \/ Run \/ AskQuit \/ Leave \/ Stop
=============================================================================
