---------------------------- MODULE CommandLine ----------------------------
(***************************************************************************)
(* The command line (cli.py): main() makes SIGTERM a KeyboardInterrupt,    *)
(* gives the update notice its turn unless the output is JSON, runs one    *)
(* command and turns what comes of it into an exit code.  The parts a      *)
(* command runs are UpdateNotice, PlanOrder, ReleaseTour and ToolProcess.  *)
(*                                                                         *)
(* Beside it stand the maintainers' scripts, ReleaseGate.                  *)
(*                                                                         *)
(* Bound: one behaviour is about one part, the focus.  Where that is a     *)
(* command, one process runs it with the notice disabled: a tour again and *)
(* again, a plan and a build once, and the build is one node of a          *)
(* configured tool.                                                        *)
(***************************************************************************)
EXTENDS UpdateNotice, ToolProcess, ReleaseTour, ReleaseGate

VARIABLES
    main,       \* per process: its place, its command, its exit code
    focus

releaseVars == <<evidenceVars, gateVars>>
commandVars == <<main, focus, noticeVars, toolVars, tourVars, sort, releaseVars>>

Foci == {"notice", "tool", "tour", "plan", "release"}
Commands == {"status", "build", "tour", "plan"}
CommandOf == [notice |-> "status", tool |-> "build", tour |-> "tour", plan |-> "plan", release |-> "status"]

ExitCodes == {"none", "ok", "usage", "io", "build failed", "interrupted", "traceback", "killed"}
NoMain == [pc |-> "idle", command |-> "status", exit |-> "none"]

CommandInit ==
    /\ NoticeInit /\ ToolInit /\ TourInit /\ SortInit /\ GateInit
    /\ main = [p \in Procs |-> NoMain]
    /\ focus \in Foci
    /\ focus # "release" => stage = {} /\ evidence = AllAbsent

TheProc == CHOOSE p \in Procs : TRUE
InFocus(p) == focus # "release" /\ (focus = "notice" \/ p = TheProc)

Notices == UNCHANGED <<main, focus, toolVars, tourVars, sort>>
Tools == UNCHANGED <<main, focus, noticeVars, tourVars, sort>>
Tours == UNCHANGED <<main, focus, noticeVars, toolVars>>

-----------------------------------------------------------------------------
MainStarts(p) ==
    /\ main[p].pc = "idle" /\ InFocus(p)
    /\ focus \in {"notice", "tour"} \/ main[p].exit = "none"
    /\ main' = [main EXCEPT ![p] = [NoMain EXCEPT !.pc = "notice", !.command = CommandOf[focus]]]
    /\ UNCHANGED <<focus, noticeVars, toolVars, tourVars, sort>>

(* A JSON command does not ask; the others do, if nothing disables it.     *)
GiveNotice(p) ==
    /\ main[p].pc = "notice"
    /\ NoticeSkipped(p) \/ (focus = "notice" /\ NoticeBegins(p)) \/ NoticeStep(p)
    /\ Notices

(* A library caller's plan is sorted by the engine, without a command line.*)
Dispatch(p) ==
    /\ main[p].pc = "notice" /\ NoticeEnds(p)
    /\ main' = [main EXCEPT ![p].pc = "command"]
    /\ CASE main[p].command = "tour" ->
              StartTour /\ UNCHANGED toolVars
         [] main[p].command = "build" ->
              (\E kind \in NodeKinds : ToolStart(kind)) /\ UNCHANGED <<tourVars, sort>>
         [] main[p].command = "plan" ->
              /\ \/ \E recipe \in Recipes : LoadConfig(recipe)
                                            /\ StartSort(BuildPlan(recipe.targets), TRUE)
                 \/ \E listing \in SeqsUpTo(NodeSpecs, MaxNodes) : StartSort(listing, FALSE)
              /\ UNCHANGED <<toolVars, tourVars>>
         [] OTHER -> UNCHANGED <<toolVars, tourVars, sort>>
    /\ UNCHANGED focus

(* ConfigError: the recipe is refused.                                     *)
PlanRefused(p) ==
    /\ main[p].pc = "notice" /\ main[p].command = "plan" /\ NoticeEnds(p)
    /\ main' = [main EXCEPT ![p] = [@ EXCEPT !.pc = "idle", !.exit = "usage"]]
    /\ UNCHANGED <<focus, toolVars, tourVars, sort>>

(* What the command returned or raised.                                    *)
CommandExit(command) ==
    CASE command = "tour" -> IF tour.pc = "idle" THEN {tour.exit} ELSE {}
      [] command = "build" ->
            IF tool.pc = "ended"
            THEN {[ok |-> "ok", error |-> "build failed", interrupted |-> "interrupted"][tool.outcome]}
            ELSE {}
      [] command = "plan" ->
            IF sort.pc = "ended" THEN {IF sort.error = "none" THEN "ok" ELSE "traceback"} ELSE {}
      [] OTHER -> {"ok", "io", "build failed"}

MainEnds(p) ==
    /\ main[p].pc = "command"
    /\ \E code \in CommandExit(main[p].command) :
          main' = [main EXCEPT ![p].pc = "idle", ![p].exit = code]
    /\ sort' = IF main[p].command = "plan" THEN NotSorting ELSE sort
    /\ UNCHANGED <<focus, noticeVars, toolVars, tourVars>>

(* main() catches no HTTPException: the command has not begun.             *)
NoticeRaises(p) ==
    /\ main[p].pc = "notice" /\ FetchRaises(p)
    /\ main' = [main EXCEPT ![p].pc = "idle", ![p].exit = "traceback"]
    /\ UNCHANGED <<focus, toolVars, tourVars, sort>>

(* A KeyboardInterrupt during the notice, or a kill.                       *)
NoticeCutShort(p) ==
    /\ main[p].pc = "notice" /\ NoticeStops(p)
    /\ main' = [main EXCEPT ![p].pc = "idle", ![p].exit = "interrupted"]
    /\ UNCHANGED <<focus, toolVars, tourVars, sort>>

-----------------------------------------------------------------------------
SortPlan == focus = "plan" /\ SortStep /\ UNCHANGED <<main, focus, noticeVars, toolVars, tourVars>>

Sessions ==
    \E p \in Procs : MainStarts(p) \/ GiveNotice(p) \/ Dispatch(p) \/ PlanRefused(p)
                     \/ MainEnds(p) \/ NoticeRaises(p) \/ NoticeCutShort(p)

ToolStep ==
    \/ Caller \/ ToolInterrupt \/ LeaderExits \/ LeaderObeys \/ ChildExits
    \/ \E s \in Streams : Reader(s)

TourStepOrOwner ==
    \/ TourStep \/ InterruptTour \/ KillTour
    \/ focus = "tour" /\ (EditInput \/ RemoveInput \/ UpgradePackage \/ NewRunRoot)
    \/ focus = "tour" /\ \E entry \in entries : SpoilEntry(entry)

CommandStep ==
    \/ Sessions
    \/ focus = "notice" /\ (Tick \/ ServerReleases) /\ Notices
    \/ ToolStep /\ Tools
    \/ TourStepOrOwner /\ Tours
    \/ SortPlan

ReleaseStep ==
    /\ focus = "release" /\ GateNext
    /\ UNCHANGED <<main, focus, noticeVars, toolVars, tourVars, sort>>

CommandNext ==
    \/ CommandStep /\ UNCHANGED releaseVars
    \/ ReleaseStep

CommandTypeOK ==
    /\ NoticeTypeOK /\ ToolTypeOK /\ SortTypeOK /\ TourTypeOK /\ GateTypeOK
    /\ focus \in Foci
    /\ main \in [Procs -> [pc : {"idle", "notice", "command"}, command : Commands,
                           exit : ExitCodes]]
    /\ \A p \in Procs : main[p].pc = "notice" \/ check[p] = NoCheck

CommandSpec == CommandInit /\ [][CommandNext]_commandVars /\ ToolFairness
=============================================================================
