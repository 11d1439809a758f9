---------------------------- MODULE UpdateDialog ----------------------------
(***************************************************************************)
(* The update window of the web console (apps/web/src/ui/features/manager: *)
(* UpdateDialog.tsx and its three bodies), the routes and adapter behind   *)
(* it, and the consent the server asks for again (app-actions update.ts,   *)
(* core update/mysql.ts).                                                  *)
(*                                                                         *)
(* The operator chooses a target and a channel, runs a dry run, is shown a *)
(* plan, ticks what it asks for and executes.  The body of the execution   *)
(* carries the inputs and the ticks, not the plan: the server resolves     *)
(* again, when the registry and the instance may have changed.             *)
(*                                                                         *)
(* One window on one instance; another operator, the CMS or the CLI may    *)
(* update it too.  Which releases fit is module Resolution's; here the     *)
(* newest of the channel is chosen.  How an update runs is Updates'; here  *)
(* it happens or it does not.  Lost answers to a dry run are an error the  *)
(* window shows; a lost answer to an execution leaves the window open.     *)
(***************************************************************************)
EXTENDS Naturals

CONSTANTS
  Version,        \* releases of each kind, in order
  ChannelOf,      \* the channel of a release: "stable" or "test"
  MajorOf,        \* the MySQL major a core recommends
  Guarded,        \* cores whose policy wants a MySQL major upgrade approved
  Destructive,    \* cores with a destructive migration
  Latest, None, Closed, Idle

ASSUME VersionsAreNumbers == Version \subseteq Nat
ASSUME ChannelOfTyped == ChannelOf \in [Version -> {"stable", "test"}]
ASSUME MajorOfTyped == MajorOf \in [Version -> Nat]

VARIABLES
  published,   \* releases in the registry
  installed,   \* manifest.versions
  mysql,       \* major of manifest.images.mysql
  channel,     \* manifest.registry.channel
  view,        \* the mounted body of the window, or Closed
  request,     \* the dry run in flight, or None
  job          \* the update accepted by the server, or Idle

dialogVars == <<published, installed, mysql, channel, view, request, job>>

Mode    == {"core", "frontend", "mobile-preview"}
Channel == {"stable", "test"}
Target  == Version \cup {Latest}

(* A plan: the version it selects (None: blocked or up to date), whether   *)
(* it needs the approval of a MySQL major.                                 *)
Plan == [version : Version \cup {None}, major : BOOLEAN]

(* useState of a body: inputs, plan and ticks; warned is history, that a   *)
(* plan asking for the approval was on screen since the inputs changed.    *)
View == [mode : Mode, target : Target, test : BOOLEAN, plan : Plan \cup {None},
         risk : BOOLEAN, approved : BOOLEAN, warned : BOOLEAN]

Request == [target : Target, test : BOOLEAN, answer : Plan \cup {None}]

(* The body of an accepted execution; shown and warned are history.        *)
Job == [mode : Mode, target : Target, test : BOOLEAN, risk : BOOLEAN,
        approved : BOOLEAN, warned : BOOLEAN, shown : Version]

ASSUME NothingIsNothing ==
  Closed \notin View /\ None \notin Plan \cup Request /\ Idle \notin Job

DialogTypeOK ==
  /\ published \subseteq Version
  /\ installed \in [Mode -> Version]
  /\ mysql \in Nat
  /\ channel \in Channel
  /\ view \in View \cup {Closed}
  /\ request \in Request \cup {None}
  /\ job \in Job \cup {Idle}

DialogInit ==
  /\ \E v \in Version : /\ published = {v}
                        /\ installed = [m \in Mode |-> v]
                        /\ mysql = MajorOf[v]
                        /\ channel = ChannelOf[v]
  /\ view = Closed /\ request = None /\ job = Idle

-----------------------------------------------------------------------------
(* The server's side.                                                      *)

(* The releases on the channel of a call: the one given, or the manifest's.*)
OnChannel(test) == {v \in published : ChannelOf[v] = IF test THEN "test" ELSE channel}

(* planUpdate, planFrontendUpdate, planMobilePreviewUpdate: the newest     *)
(* newer release; the one asked for, which only a core may be without      *)
(* being newer.                                                            *)
Resolve(m, t, test) ==
  LET newer == {v \in OnChannel(test) : v > installed[m]}
  IN IF t = Latest THEN {v \in newer : \A w \in newer : w <= v}
     ELSE {v \in IF m = "core" THEN OnChannel(test) ELSE newer : v = t}

(* evaluateMysqlMajorUpgrade                                               *)
NeedsApproval(m, v) == m = "core" /\ v \in Guarded /\ MajorOf[v] > mysql

PlanOf(m, t, test) ==
  LET picked == Resolve(m, t, test)
  IN IF picked = {} THEN {[version |-> None, major |-> FALSE]}
     ELSE {[version |-> v, major |-> NeedsApproval(m, v)] : v \in picked}

(* Mutant: the server trusts the window to have asked.                     *)
TrustsTheWindow(j, v) ==
  j.mode = "core" => (v \in Destructive => j.risk)

(* The guards before the first mutation: a destructive migration wants the *)
(* risk accepted, a guarded MySQL major upgrade the approval.              *)
Consented(j, v) ==
  j.mode = "core" =>
    /\ v \in Destructive => j.risk
    /\ NeedsApproval("core", v) => j.approved

(* What an update that goes through leaves: the versions, the channel it   *)
(* was resolved on, and the MySQL image of the core.                       *)
Apply(m, v, test) ==
  /\ installed' = [installed EXCEPT ![m] = v]
  /\ channel' = IF test THEN "test" ELSE channel
  /\ mysql' = IF m = "core" THEN MajorOf[v] ELSE mysql

(* The accepted update resolves again and runs, is refused or fails.       *)
RunJob ==
  /\ job # Idle
  /\ job' = Idle
  /\ \/ \E v \in Resolve(job.mode, job.target, job.test) :
          Consented(job, v) /\ Apply(job.mode, v, job.test)
     \/ UNCHANGED <<installed, mysql, channel>>
  /\ UNCHANGED <<published, view, request>>

(* Another operator, the CMS or the CLI updates while nothing runs here.   *)
UpdateElsewhere ==
  /\ job = Idle
  /\ \E m \in Mode, test \in BOOLEAN : \E v \in Resolve(m, Latest, test) : Apply(m, v, test)
  /\ UNCHANGED <<published, view, request, job>>

Publish ==
  /\ \E v \in Version \ published : published' = published \cup {v}
  /\ UNCHANGED <<installed, mysql, channel, view, request, job>>

-----------------------------------------------------------------------------
(* The window.                                                             *)

(* Opening the window or switching its mode mounts a fresh body.           *)
Open(m) ==
  /\ view' = [mode |-> m, target |-> Latest, test |-> FALSE, plan |-> None,
              risk |-> FALSE, approved |-> FALSE, warned |-> FALSE]
  /\ request' = None
  /\ UNCHANGED <<published, installed, mysql, channel, job>>

Close ==
  /\ view # Closed
  /\ view' = Closed
  /\ request' = None
  /\ UNCHANGED <<published, installed, mysql, channel, job>>

(* Mutant: other inputs forget the plan but keep the ticks.                *)
resetPlanOnly(v) == [v EXCEPT !.plan = None, !.warned = FALSE]

(* Forget the plan and the ticks (and the history of what was on screen).  *)
resetPlan(v) ==
  [v EXCEPT !.plan = None, !.risk = FALSE, !.approved = FALSE, !.warned = FALSE]

ChangeTarget(t) ==
  /\ view # Closed
  /\ view' = [resetPlan(view) EXCEPT !.target = t]
  /\ UNCHANGED <<published, installed, mysql, channel, request, job>>

ChangeChannel ==
  /\ view # Closed
  /\ view' = [resetPlan(view) EXCEPT !.test = ~@]
  /\ UNCHANGED <<published, installed, mysql, channel, request, job>>

(* The button is off while a dry run is pending; the inputs are not.       *)
RunDryRun ==
  /\ view # Closed
  /\ request = None
  /\ request' = [target |-> view.target, test |-> view.test, answer |-> None]
  /\ UNCHANGED <<published, installed, mysql, channel, view, job>>

(* The route answers the dry run with the plan of this moment.             *)
AnswerDryRun ==
  /\ request # None /\ request.answer = None
  /\ \E plan \in PlanOf(view.mode, request.target, request.test) :
       request' = [request EXCEPT !.answer = plan]
  /\ UNCHANGED <<published, installed, mysql, channel, view, job>>

(* onSuccess puts the plan on screen, whatever the inputs are by now, and  *)
(* leaves the ticks as they are.                                           *)
ShowPlan ==
  /\ request # None /\ request.answer # None
  /\ view' = [view EXCEPT !.plan = request.answer,
                          !.warned = @ \/ request.answer.major]
  /\ request' = None
  /\ UNCHANGED <<published, installed, mysql, channel, job>>

(* A registry, a signature or the connection fails: an error, no plan.     *)
DryRunFails ==
  /\ request # None
  /\ request' = None
  /\ UNCHANGED <<published, installed, mysql, channel, view, job>>

Executable == view # Closed /\ view.plan # None /\ view.plan.version # None

TickRisk ==
  /\ Executable /\ view.mode = "core"
  /\ view' = [view EXCEPT !.risk = ~@]
  /\ UNCHANGED <<published, installed, mysql, channel, request, job>>

TickApproval ==
  /\ Executable /\ view.mode = "core" /\ view.plan.major
  /\ view' = [view EXCEPT !.approved = ~@]
  /\ UNCHANGED <<published, installed, mysql, channel, request, job>>

(* The Execute button: the core's asks for the risk to be accepted and the *)
(* approval to be given if the plan on screen needs one.                   *)
MayExecute ==
  /\ Executable
  /\ view.mode = "core" => view.risk /\ (view.plan.major => view.approved)

(* Accepted with 202; the window closes, or stays when the answer is lost. *)
Execute ==
  /\ MayExecute
  /\ job = Idle
  /\ job' = [mode |-> view.mode, target |-> view.target, test |-> view.test,
             risk |-> view.risk, approved |-> view.approved,
             warned |-> view.warned, shown |-> view.plan.version]
  /\ \/ view' = Closed /\ request' = None
     \/ UNCHANGED <<view, request>>
  /\ UNCHANGED <<published, installed, mysql, channel>>

DialogNext ==
  \/ RunJob \/ UpdateElsewhere \/ Publish
  \/ \E m \in Mode : Open(m)
  \/ Close
  \/ \E t \in Target : ChangeTarget(t)
  \/ ChangeChannel
  \/ RunDryRun \/ AnswerDryRun \/ ShowPlan \/ DryRunFails
  \/ TickRisk \/ TickApproval
  \/ Execute

DialogSpec == DialogInit /\ [][DialogNext]_dialogVars

-----------------------------------------------------------------------------
(* Properties.                                                             *)

(* The one-way MySQL upgrade of a guarded core happens through the window  *)
(* only if a plan that announced such an upgrade was on screen since the   *)
(* inputs last changed, even though the plan that runs is another than the *)
(* one that was shown (update.ts:181-190, InstanceUpdateDialog.tsx:104).   *)
MajorWasAnnounced ==
  [][(job # Idle /\ \E v \in Version : installed'["core"] = v /\ NeedsApproval("core", v))
       => job.warned]_dialogVars

(* "only enabled after a dry-run for the same inputs so the operator has   *)
(* seen the plan" (InstanceUpdateDialog.tsx:7-9): what an execution        *)
(* installs is what its window showed.  The code does not keep it.         *)
NothingUnseen ==
  [][(job # Idle /\ installed' # installed) => installed'[job.mode] = job.shown]_dialogVars

(* The same for an execution of a given version: not kept either, because  *)
(* an answer to earlier inputs is shown as if it were for these.           *)
ExactIsShown ==
  (job # Idle /\ job.target # Latest) => job.shown = job.target
=============================================================================
