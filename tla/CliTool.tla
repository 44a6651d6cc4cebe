------------------------------ MODULE CliTool ------------------------------
(***************************************************************************)
(* "Install 'pdfdebug' Command in PATH...": the menu item, its dialogs     *)
(* (src/main.go) and the link and shell-profile edits behind them          *)
(* (src/internal/clitool/clitool.go).                                      *)
(*                                                                         *)
(* The entry at the link path is "absent", "ours" (the bundle's command),  *)
(* "stale" (our shape, another bundle), "file" or "link" (a foreign file   *)
(* or link).  Other programs change it at any time: while a dialog is open *)
(* and between the file system calls of a handler, which looks at the      *)
(* entry once and then acts on whatever is there.  The user's next click   *)
(* comes after the handler of the one before.                              *)
(***************************************************************************)
EXTENDS Naturals

CONSTANT MaxClicks        \* bound on the user's clicks and foreign changes

ASSUME ClicksAssumption == MaxClicks \in Nat

VARIABLES entry, label, dialog,
          fsCall,         \* the file system call the running handler makes next, or "idle"
          blocks,       \* PATH blocks in the shell profile
          place,        \* how the program runs: in a bundle, with a known shell, with the dir on PATH
          clicks,
          touched,      \* history: did another program change the entry since our last change?
          swapped,      \* history: ... since the look the running handler or the question rests on?
          agreed        \* history: did the user press Replace for the running install?

ctVars == <<entry, label, dialog, fsCall, blocks, place, clicks, touched, swapped, agreed>>

Ours    == {"ours", "stale"}
Foreign == {"file", "link"}
Entries == Ours \cup Foreign \cup {"absent"}

\* Fault: any link is taken for ours.
classifyEntryByMode(e) ==
  IF e = "absent" THEN "absent" ELSE IF e \in Ours \cup {"link"} THEN "ours" ELSE "foreign"

\* What classifyEntry calls an entry.
classifyEntry(e) == IF e = "absent" THEN "absent" ELSE IF e \in Ours THEN "ours" ELSE "foreign"
IsInstalled(e) == classifyEntry(e) = "ours"

\* wireInstallCLIMenuItem: the label from what is installed at launch, when it
\* can be read.
CtInit ==
  /\ entry \in Entries
  /\ label = IF IsInstalled(entry) THEN "uninstall" ELSE "install"
  /\ dialog = "none" /\ fsCall = "idle" /\ blocks \in {0, 1}
  /\ place \in [bundle : BOOLEAN, shell : BOOLEAN, onPath : BOOLEAN]
  /\ clicks = 0 /\ touched = FALSE /\ swapped = FALSE /\ agreed = FALSE

Click == fsCall = "idle" /\ clicks < MaxClicks /\ clicks' = clicks + 1

\* Fault: the label is flipped only when the directory is on PATH.
FlipAfterInstall(l) == IF place.onPath THEN "uninstall" ELSE l

\* The label after a successful install: flipToUninstall in both dialogs.
flipToUninstall(l) == "uninstall"

\* InstallCLI up to its classification, with and without the user's consent
\* to overwrite.  Without it a foreign entry, or one that cannot be read, is
\* asked about; otherwise linkInto comes next and nothing is classified again.
InstallCLI(overwrite) ==
  /\ \/ /\ dialog' = "none"                  \* not in a bundle, no home, or no directory
        /\ UNCHANGED <<fsCall, swapped>>
     \/ /\ place.bundle /\ ~overwrite /\ entry # "absent"
        /\ dialog' = "confirm" /\ swapped' = FALSE /\ UNCHANGED fsCall
     \/ /\ place.bundle /\ (classifyEntry(entry) = "foreign" => overwrite)
        /\ dialog' = "none" /\ fsCall' = "lstat" /\ swapped' = (overwrite /\ swapped)
  /\ agreed' = overwrite
  /\ UNCHANGED <<entry, label, blocks, place, touched>>

ClickInstall == label = "install" /\ dialog = "none" /\ Click /\ InstallCLI(FALSE)
ClickReplace == dialog = "confirm" /\ Click /\ InstallCLI(TRUE)

\* linkInto's Lstat: an entry is removed first.  When the Lstat fails, the
\* link is made at once.
linkInto ==
  /\ fsCall = "lstat"
  /\ fsCall' \in IF entry = "absent" THEN {"symlink"} ELSE {"remove", "symlink"}
  /\ UNCHANGED <<entry, label, dialog, blocks, place, clicks, touched, swapped, agreed>>

\* Its Remove, of whatever is there by now; a failure ends the install.
RemoveExisting ==
  /\ fsCall = "remove"
  /\ \/ entry # "absent" /\ entry' = "absent" /\ fsCall' = "symlink" /\ touched' = FALSE
     \/ fsCall' = "idle" /\ UNCHANGED <<entry, touched>>
  /\ UNCHANGED <<label, dialog, blocks, place, clicks, swapped, agreed>>

\* Its Symlink, which overwrites nothing, and runInstallCLI's dialog and label
\* after it.  A failure leaves what is there, by then nothing as a rule.
Symlink ==
  /\ fsCall = "symlink" /\ fsCall' = "idle"
  /\ \/ /\ entry = "absent" /\ entry' = "ours" /\ label' = flipToUninstall(label)
        /\ dialog' = (IF place.onPath THEN "none" ELSE "pathHelp") /\ touched' = FALSE
     \/ UNCHANGED <<entry, label, dialog, touched>>
  /\ UNCHANGED <<blocks, place, clicks, swapped, agreed>>

ClickCancel ==
  /\ dialog \in {"confirm", "pathHelp"} /\ Click /\ dialog' = "none"
  /\ UNCHANGED <<entry, label, fsCall, blocks, place, touched, swapped, agreed>>

\* The block is appended once, and not at all for an unknown shell.
AddDirToShellProfile(b) == IF b > 0 \/ ~place.shell THEN b ELSE b + 1

ClickAddIt ==
  /\ dialog = "pathHelp" /\ Click /\ dialog' = "none"
  /\ \/ blocks' = AddDirToShellProfile(blocks)
     \/ UNCHANGED blocks                              \* the profile cannot be read or written
  /\ UNCHANGED <<entry, label, fsCall, place, touched, swapped, agreed>>

\* UninstallCLI up to its classification: it refuses an entry that is not
\* ours or cannot be read, an absent one is fine.
Uninstall ==
  /\ label = "uninstall" /\ dialog = "none" /\ Click
  /\ \/ IsInstalled(entry) /\ fsCall' = "unlink" /\ UNCHANGED <<label, touched>>
     \/ entry = "absent" /\ label' = "install" /\ touched' = FALSE /\ UNCHANGED fsCall
     \/ entry # "absent" /\ UNCHANGED <<fsCall, label, touched>>
  /\ swapped' = FALSE /\ agreed' = FALSE
  /\ UNCHANGED <<entry, dialog, blocks, place>>

\* Its Remove, of whatever is there by now, and the label after it.
RemoveOurs ==
  /\ fsCall = "unlink" /\ fsCall' = "idle"
  /\ \/ entry # "absent" /\ entry' = "absent" /\ label' = "install" /\ touched' = FALSE
     \/ UNCHANGED <<entry, label, touched>>
  /\ UNCHANGED <<dialog, blocks, place, clicks, swapped, agreed>>

\* Another program, or the user in a terminal; a file may take the place of
\* another one of its kind.
ForeignChange ==
  /\ clicks < MaxClicks /\ clicks' = clicks + 1
  /\ entry' \in Entries /\ (entry' = entry => entry \in Foreign)
  /\ touched' = TRUE /\ swapped' = TRUE
  /\ UNCHANGED <<label, dialog, fsCall, blocks, place, agreed>>

CtNext ==
  \/ ClickInstall \/ ClickReplace \/ linkInto \/ RemoveExisting \/ Symlink
  \/ ClickCancel \/ ClickAddIt \/ Uninstall \/ RemoveOurs \/ ForeignChange

CtSpec == CtInit /\ [][CtNext]_ctVars

(***************************************************************************)
(* Properties.                                                             *)
(***************************************************************************)

\* While nobody else touches the entry the menu offers the action that makes
\* sense, failed installs included, and the profile gets at most one block.
CliToolSafe ==
  /\ ~touched => (label = "uninstall" <=> IsInstalled(entry))
  /\ blocks <= 1

\* A step of ours that takes away a foreign entry.
TakesForeign == entry \in Foreign /\ entry' = "absent" /\ fsCall' # fsCall

\* A foreign entry that a click takes away is the one the user was asked about
\* and agreed to, or one that another program put there after the handler, or
\* the question the user answered, had looked.
ForeignKept == TakesForeign => (agreed \/ swapped)

\* InstallCLI and UninstallCLI: a click takes another program's command without
\* the user's consent only where it was put there behind the handler's look.
ForeignEntriesKept == [][ForeignKept]_ctVars
=============================================================================
