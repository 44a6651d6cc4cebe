----------------------------- MODULE MCDesktop -----------------------------
(***************************************************************************)
(* The desktop program's shell and the command-line tool on small          *)
(* instances.  The machines share no state, so a behaviour runs one of     *)
(* them, the one machine names, and the others stay as they start.         *)
(***************************************************************************)
EXTENDS PendingOpen, Cli, Startup, CliTool, BatchOpen, AtomicFile, RecentList, Panels, TLC

CONSTANTS a1, a2, a3, pdf1, pdf2

VARIABLE machine

desktopVars == <<vars, cliVars, startupVars, ctVars, boVars, afVars, rlVars, dsVars, tnVars, machine>>

\* Two arrivals of one path, one of another.
MCPathOf == a1 :> pdf1 @@ a2 :> pdf1 @@ a3 :> pdf2

\* No positional argument, one, or the two of a diff, some of them empty.
MCPositionals == {<<>>, <<"path">>, <<"empty">>, <<"path", "path">>, <<"path", "empty">>}

(***************************************************************************)
(* Recent files: three spellings of one file, a variant whose file is      *)
(* gone, and, stored only, the file it is a variant of and a second volume *)
(* with the same directories.                                              *)
(***************************************************************************)
Recent(sp, root, dirs) == [base |-> "f", sp |-> sp, root |-> root, dirs |-> dirs]
MCRecentPaths ==
  {Recent(sp, "C", <<"d", "e">>) : sp \in 1..3} \cup {Recent(2, "C", <<"d">>)}
MCFileAt ==
  [p \in MCRecentPaths \cup {Recent(1, root, <<"d">>) : root \in {"C", "D"}} |->
     IF p.dirs = <<"d", "e">> THEN "shared" ELSE IF p.sp = 2 THEN "missing" ELSE p.root]
MCStoredLists ==
  {<<>>, <<Recent(2, "C", <<"d", "e">>), Recent(1, "C", <<"d", "e">>), Recent(1, "D", <<"d">>)>>,
   <<Recent(1, "C", <<"d">>), Recent(2, "C", <<"d">>), Recent(3, "C", <<"d", "e">>),
     Recent(1, "D", <<"d">>)>>}

(***************************************************************************)
(* The machines.                                                           *)
(***************************************************************************)
Machines == {"queue", "cli", "startup", "cliTool", "batch", "atomicFile", "recent", "diffSide", "tree"}

Help == [cmd |-> "help", parsed |-> TRUE, pos |-> <<>>, fmt |-> {}, ref |-> "absent",
         page |-> "absent", opts |-> {}]

\* A machine that does not run starts in one state.
DesktopInit ==
  /\ machine \in Machines
  /\ Init /\ BoInit /\ AfInit /\ DsInit /\ TnInit
  /\ CliInit /\ (machine # "cli" => inv = Help /\ ~notice)
  /\ StartupInit /\ (machine # "startup" => ~linux)
  /\ CtInit /\ (machine # "cliTool" => /\ entry = "absent" /\ blocks = 0
                                       /\ place = [bundle |-> TRUE, shell |-> TRUE, onPath |-> TRUE])
  /\ RlInit /\ (machine # "recent" => listed = <<>>)

DesktopNext ==
  /\ UNCHANGED machine
  /\ \/ /\ machine = "queue" /\ Next
        /\ UNCHANGED <<cliVars, startupVars, ctVars, boVars, afVars, rlVars, dsVars, tnVars>>
     \/ /\ machine = "cli" /\ CliNext
        /\ UNCHANGED <<vars, startupVars, ctVars, boVars, afVars, rlVars, dsVars, tnVars>>
     \/ /\ machine = "startup" /\ StartupNext
        /\ UNCHANGED <<vars, cliVars, ctVars, boVars, afVars, rlVars, dsVars, tnVars>>
     \/ /\ machine = "cliTool" /\ CtNext
        /\ UNCHANGED <<vars, cliVars, startupVars, boVars, afVars, rlVars, dsVars, tnVars>>
     \/ /\ machine = "batch" /\ BoNext
        /\ UNCHANGED <<vars, cliVars, startupVars, ctVars, afVars, rlVars, dsVars, tnVars>>
     \/ /\ machine = "atomicFile" /\ AfNext
        /\ UNCHANGED <<vars, cliVars, startupVars, ctVars, boVars, rlVars, dsVars, tnVars>>
     \/ /\ machine = "recent" /\ RlNext
        /\ UNCHANGED <<vars, cliVars, startupVars, ctVars, boVars, afVars, dsVars, tnVars>>
     \/ /\ machine = "diffSide" /\ DsNext
        /\ UNCHANGED <<vars, cliVars, startupVars, ctVars, boVars, afVars, rlVars, tnVars>>
     \/ /\ machine = "tree" /\ TnNext
        /\ UNCHANGED <<vars, cliVars, startupVars, ctVars, boVars, afVars, rlVars, dsVars>>

\* The fairness of the machine that runs.
DesktopFairness ==
  /\ machine = "queue" => Fairness
  /\ machine = "startup" => StartupFairness

\* The tree only.
TreeSpec == DesktopInit /\ machine = "tree" /\ [][DesktopNext]_desktopVars

DesktopSpec == DesktopInit /\ [][DesktopNext]_desktopVars /\ DesktopFairness

(***************************************************************************)
(* Properties.  Each is about one machine or two, and holds as they start. *)
(***************************************************************************)

\* Startup: every launch comes to an end the user sees.
LaunchesEnd == machine = "startup" => LaunchEnds

\* The comment on the tree's lazy loads: one that finishes after a tab switch
\* "updates only its own tab's cache", so no tab is ever given another's rows.
LoadsKeepToTheirTab == RowsOfTheirTab({})
=============================================================================
