------------------------------- MODULE Console -------------------------------
(***************************************************************************)
(* The web console in the browser, the event stream that keeps it current, *)
(* the container of the web server, and the self-update that replaces it.  *)
(*                                                                         *)
(* The browser shows the answers of two queries: the record of the         *)
(* operation it watches, and the summary of the instance (busy while the   *)
(* operation lock is held).  The server's journal emits an event with each *)
(* change of a record; a connected stream turns events into refetches, and *)
(* a fallback poll runs only while the stream is not connected.            *)
(*                                                                         *)
(* One operation, one browser.  A server that goes away takes its sessions *)
(* and its listeners with it, and the operation it was running.            *)
(***************************************************************************)
EXTENDS Naturals

CONSTANTS
    Queries,       \* those looked at, of "record" and "summary"
    LoadedEarly,   \* BOOLEAN: no page is loaded while the operation runs, and
                   \* it starts only after the page's stream has opened
    SlowAnswers,   \* BOOLEAN: an answer may stay under way longer than the
                   \* 300 ms in which events are batched
    MaxDrops,      \* bound on the times the stream's connection drops
    MaxStops       \* bound on the times the server's container stops by itself

ASSUME ConsoleAssumption ==
    /\ Queries \subseteq {"record", "summary"}
    /\ LoadedEarly \in BOOLEAN /\ SlowAnswers \in BOOLEAN
    /\ MaxDrops \in Nat /\ MaxStops \in Nat

VARIABLES
    op,            \* the operation's journal record
    lock,          \* its instance lock: free, held, or left by a server that died
    gui,           \* the container sh-manager-web
    tag,           \* the image the container's official tag names locally
    updater,       \* one run of `sh-manager self-update`
    session,       \* the server knows the browser's session
    page,          \* what the browser shows
    stream,        \* its EventSource and what is under way on it
    query,         \* its two queries
    drops, stops

server  == <<op, lock>>
browser == <<page, stream, query>>
consoleVars == <<op, lock, gui, tag, updater, session, page, stream, query, drops, stops>>

----------------------------------------------------------------------------
(* A query asks, the server reads, the answer arrives.  `failed` is the    *)
(* error alert: the last answer was an error.                              *)
Answers == {"nothing", "running", "over", "busy", "idle", "error"}
QueryState == [asked: {"no", "asked", "answered"}, answer: Answers,
               shown: Answers, failed: BOOLEAN]

(* `sub`: the server's listener; `greeting`, `nudge`: the open frame and   *)
(* events under way; `timer`: events batched in the browser; `opened`:     *)
(* hasConnectedBefore.                                                     *)
StreamState == [state: {"closed", "connecting", "open", "dead"}, sub: BOOLEAN,
                greeting: BOOLEAN, nudge: BOOLEAN, timer: BOOLEAN, opened: BOOLEAN]

Ref == {"latest", "pinned", "custom"}
Image == {"old", "new", "custom"}
GuiState == [up: BOOLEAN, ref: Ref, image: Image]

(* `report` is what the command tells the operator at its end.             *)
Stages == {"off", "checked", "ready", "pulled", "inspected", "removed", "end"}
Reports == {"none", "offline", "refused", "failed", "no_gui", "hint", "current", "restarted"}
UpdaterState == [stage: Stages, forced: BOOLEAN, killed: BOOLEAN, report: Reports]

ConsoleTypeOK ==
    /\ op \in {"none", "running", "over"}
    /\ lock \in {"free", "held", "left"}
    /\ gui \in GuiState
    /\ tag \in Image
    /\ updater \in UpdaterState
    /\ session \in BOOLEAN
    /\ page \in {"login", "console"}
    /\ stream \in StreamState
    /\ query \in [Queries -> QueryState]
    /\ drops \in 0..MaxDrops /\ stops \in 0..MaxStops

closedStream == [state |-> "closed", sub |-> FALSE, greeting |-> FALSE, nudge |-> FALSE,
                 timer |-> FALSE, opened |-> FALSE]

unasked == [asked |-> "no", answer |-> "nothing", shown |-> "nothing", failed |-> FALSE]

ConsoleInit ==
    /\ op = "none" /\ lock = "free"
    /\ gui \in {[up |-> TRUE, ref |-> r, image |-> IF r = "custom" THEN "custom" ELSE i] :
                    r \in Ref, i \in {"old", "new"}}
    /\ tag \in IF gui.ref = "custom" THEN {"custom"} ELSE {"old", "new"}
    /\ updater = [stage |-> "off", forced |-> FALSE, killed |-> FALSE, report |-> "none"]
    /\ session = FALSE
    /\ page = "login"
    /\ stream = closedStream
    /\ query = [q \in Queries |-> unasked]
    /\ drops = 0 /\ stops = 0

----------------------------------------------------------------------------
(* The server: the operation's record and lock, and the events they cause. *)

(* What a listener receives; without one an event is lost. *)
emit == stream' = [stream EXCEPT !.nudge = @ \/ stream.sub]

(* Mutant: a new record carries no status. *)
createWithoutStatus ==
    /\ gui.up /\ op = "none"
    /\ op' = "nothing"
    /\ emit
    /\ UNCHANGED <<lock, gui, tag, updater, session, page, query, drops, stops>>

(* journal.create: the first thing a started operation does. *)
create ==
    /\ gui.up /\ op = "none"
    /\ LoadedEarly => stream.opened
    /\ op' = "running"
    /\ emit
    /\ UNCHANGED <<lock, gui, tag, updater, session, page, query, drops, stops>>

(* No event tells that the lock is held. *)
acquire ==
    /\ gui.up /\ op = "running" /\ lock = "free"
    /\ lock' = "held"
    /\ UNCHANGED <<op, gui, tag, updater, session, browser, drops, stops>>

(* A log line or a phase of the running operation. *)
append ==
    /\ gui.up /\ op = "running" /\ lock = "held"
    /\ emit
    /\ UNCHANGED <<server, gui, tag, updater, session, page, query, drops, stops>>

(* journal.complete or journal.fail: the last event of the operation. *)
complete ==
    /\ gui.up /\ op = "running" /\ lock = "held"
    /\ op' = "over"
    /\ emit
    /\ UNCHANGED <<lock, gui, tag, updater, session, page, query, drops, stops>>

(* The finally block of the runner, after the audit line. *)
release ==
    /\ gui.up /\ op = "over" /\ lock = "held"
    /\ lock' = "free"
    /\ UNCHANGED <<op, gui, tag, updater, session, browser, drops, stops>>

(* What a query reads on the server. *)
Current(q) ==
    IF ~gui.up \/ ~session THEN "error"
    ELSE IF q = "record" THEN op
    ELSE IF lock = "free" THEN "idle" ELSE "busy"

Read(q) ==
    /\ query[q].asked = "asked"
    /\ query' = [query EXCEPT ![q].asked = "answered", ![q].answer = Current(q)]
    /\ UNCHANGED <<server, gui, tag, updater, session, page, stream, drops, stops>>

----------------------------------------------------------------------------
(* The queries in the browser.                                             *)

(* A query that some part of the page has mounted. *)
Mounted(s) == s.asked # "no" \/ s.shown # "nothing" \/ s.failed

(* invalidateQueries: an answer under way is thrown away and asked for     *)
(* again, except the first one, which is waited for.                       *)
Invalidated(s) ==
    IF ~Mounted(s) \/ (s.asked # "no" /\ s.shown = "nothing") THEN s
    ELSE [s EXCEPT !.asked = "asked", !.answer = "nothing"]

Shown(s) ==
    IF s.answer = "error" THEN [s EXCEPT !.asked = "no", !.failed = TRUE]
    ELSE [s EXCEPT !.asked = "no", !.failed = FALSE, !.shown = s.answer]

(* A watched operation that turns out to be over refreshes the instance.   *)
Arrive(q) ==
    /\ query[q].asked = "answered"
    /\ LET over == q = "record" /\ query[q].answer = "over" /\ query[q].shown # "over"
       IN query' = [p \in Queries |-> IF p = q THEN Shown(query[q])
                                      ELSE IF over THEN Invalidated(query[p]) ELSE query[p]]
    /\ UNCHANGED <<server, gui, tag, updater, session, page, stream, drops, stops>>

(* refetchInterval: only while the stream is not connected, the record     *)
(* only while it is shown as running.                                      *)
Poll(q) ==
    /\ page = "console" /\ stream.state # "open"
    /\ Mounted(query[q]) /\ query[q].asked = "no"
    /\ q = "record" => query[q].shown = "running"
    /\ query' = [query EXCEPT ![q].asked = "asked", ![q].answer = "nothing"]
    /\ UNCHANGED <<server, gui, tag, updater, session, page, stream, drops, stops>>

----------------------------------------------------------------------------
(* The stream.                                                             *)

(* GET /api/events: the listener is there once the server has answered; an *)
(* unknown session is answered 401, after which EventSource gives up.      *)
Connect ==
    /\ stream.state = "connecting" /\ ~stream.greeting /\ gui.up
    /\ stream' = IF session THEN [stream EXCEPT !.sub = TRUE, !.greeting = TRUE]
                 ELSE [stream EXCEPT !.state = "dead"]
    /\ UNCHANGED <<server, gui, tag, updater, session, page, query, drops, stops>>

(* A batch and a reconnect wait longer than a prompt answer is under way.  *)
Delivered == SlowAnswers \/ \A q \in Queries : query[q].asked # "answered"

(* Mutant: a reconnect is not followed by the reconcile pass. *)
onOpenWithoutReconcile ==
    /\ stream.greeting
    /\ stream' = [stream EXCEPT !.state = "open", !.greeting = FALSE, !.opened = TRUE]
    /\ UNCHANGED <<server, gui, tag, updater, session, page, query, drops, stops>>

onOpen ==
    /\ stream.greeting
    /\ stream.opened => Delivered
    /\ stream' = [stream EXCEPT !.state = "open", !.greeting = FALSE, !.opened = TRUE]
    /\ query' = IF stream.opened THEN [q \in Queries |-> Invalidated(query[q])] ELSE query
    /\ UNCHANGED <<server, gui, tag, updater, session, page, drops, stops>>

onOperation ==
    /\ stream.state = "open" /\ stream.nudge
    /\ stream' = [stream EXCEPT !.nudge = FALSE, !.timer = TRUE]
    /\ UNCHANGED <<server, gui, tag, updater, session, page, query, drops, stops>>

flush ==
    /\ stream.timer
    /\ Delivered
    /\ stream' = [stream EXCEPT !.timer = FALSE]
    /\ query' = [q \in Queries |-> Invalidated(query[q])]
    /\ UNCHANGED <<server, gui, tag, updater, session, page, drops, stops>>

(* The connection is gone: the server drops its listener, what was under   *)
(* way is lost, and EventSource connects again by itself.                  *)
Disconnected(s) ==
    IF s.state \in {"closed", "dead"} THEN s
    ELSE [s EXCEPT !.state = "connecting", !.sub = FALSE, !.greeting = FALSE, !.nudge = FALSE]

Drop ==
    /\ drops < MaxDrops /\ stream.sub
    /\ drops' = drops + 1
    /\ stream' = Disconnected(stream)
    /\ UNCHANGED <<server, gui, tag, updater, session, page, query, stops>>

(* Sign-in, or a reload with a session: the console mounts, asks for the   *)
(* summary and opens its stream.                                           *)
Mount ==
    /\ page = "login" /\ gui.up
    /\ LoadedEarly => op # "running"
    /\ page' = "console" /\ session' = TRUE
    /\ stream' = [closedStream EXCEPT !.state = "connecting"]
    /\ query' = [q \in Queries |-> IF q = "summary" THEN [unasked EXCEPT !.asked = "asked"]
                                   ELSE unasked]
    /\ UNCHANGED <<server, gui, tag, updater, drops, stops>>

(* The operation that was just started, or one of the history, is watched. *)
Watch ==
    /\ page = "console" /\ op # "none"
    /\ "record" \in Queries /\ ~Mounted(query["record"])
    /\ query' = [query EXCEPT !["record"].asked = "asked"]
    /\ UNCHANGED <<server, gui, tag, updater, session, page, stream, drops, stops>>

(* The operator reloads a page whose session the server has forgotten. *)
Reload ==
    /\ page = "console" /\ ~session
    /\ page' = "login"
    /\ stream' = closedStream
    /\ query' = [q \in Queries |-> unasked]
    /\ UNCHANGED <<server, gui, tag, updater, session, drops, stops>>

----------------------------------------------------------------------------
(* The container of the server.                                            *)

(* With the process go its sessions, its listeners and its operation's     *)
(* body; record and lock stay on disk.                                     *)
ServerGone ==
    /\ session' = FALSE
    /\ lock' = IF lock = "held" THEN "left" ELSE lock
    /\ stream' = Disconnected(stream)

(* startWebUi fails interrupted operations before it listens.  A lockfile  *)
(* that was left stays: each incarnation of the container is pid 1, and a  *)
(* lock of the own pid always counts as held (module Operations).          *)
ServerBoots(image) ==
    /\ gui' = [gui EXCEPT !.up = TRUE, !.image = image]
    /\ op' = IF op = "running" THEN "over" ELSE op
    /\ UNCHANGED lock

(* `shm web down`, a crash or a reboot. *)
WebStops ==
    /\ gui.up /\ stops < MaxStops
    /\ updater.stage \in {"off", "end"}
    /\ stops' = stops + 1
    /\ gui' = [gui EXCEPT !.up = FALSE]
    /\ ServerGone
    /\ UNCHANGED <<op, tag, updater, page, query, drops>>

(* `shm web up` creates it anew from the tag. *)
WebStarts ==
    /\ ~gui.up /\ updater.stage \in {"off", "end"}
    /\ ServerBoots(tag)
    /\ UNCHANGED <<tag, updater, session, browser, drops, stops>>

----------------------------------------------------------------------------
(* self-update.                                                            *)

Report(r) == updater' = [updater EXCEPT !.stage = "end", !.report = r]

(* The release feed: unreachable, or it names the latest release. *)
checkSelfUpdate ==
    /\ updater.stage = "off"
    /\ \/ Report("offline")
       \/ updater' = [updater EXCEPT !.stage = "checked"]
    /\ UNCHANGED <<server, gui, tag, session, browser, drops, stops>>

(* Refuses while the journal lists a running operation, unless --force. *)
ensureIdle ==
    /\ updater.stage = "checked"
    /\ \/ op = "running" /\ Report("refused")
       \/ op # "running" /\ updater' = [updater EXCEPT !.stage = "ready"]
       \/ updater' = [updater EXCEPT !.stage = "ready", !.forced = TRUE]
    /\ UNCHANGED <<server, gui, tag, session, browser, drops, stops>>

Pulled(refs) == tag' = IF gui.ref \in refs THEN "new" ELSE tag

(* Mutant: only the tag of the version is pulled. *)
pullVersionOnly ==
    /\ updater.stage = "ready"
    /\ Pulled({"pinned"})
    /\ updater' = [updater EXCEPT !.stage = "pulled"]
    /\ UNCHANGED <<server, gui, session, browser, drops, stops>>

(* The version's tag, then :latest; a failed pull fails the command.  The  *)
(* version's tag is the one a container pinned to a version is moved to.   *)
pull ==
    /\ updater.stage = "ready"
    /\ \/ Pulled({}) /\ Report("failed")
       \/ Pulled({"pinned"}) /\ Report("failed")
       \/ /\ Pulled({"pinned", "latest"})
          /\ updater' = [updater EXCEPT !.stage = "pulled"]
    /\ UNCHANGED <<server, gui, session, browser, drops, stops>>

(* A source checkout: git pull, npm ci, npm run build. *)
applyFromSource ==
    /\ updater.stage = "ready"
    /\ Report("failed") \/ Report("hint")
    /\ UNCHANGED <<server, gui, tag, session, browser, drops, stops>>

(* No container, the updater's own container, or one to look at. *)
inspectWebContainer ==
    /\ updater.stage = "pulled"
    /\ IF ~gui.up THEN Report("no_gui")
       ELSE Report("hint") \/ updater' = [updater EXCEPT !.stage = "inspected"]
    /\ UNCHANGED <<server, gui, tag, session, browser, drops, stops>>

(* The image the container runs is the one its tag names now.  What a      *)
(* custom reference names is not known; if its image is gone, only the     *)
(* versions are left to compare.                                           *)
isCurrent == gui.ref = "custom" \/ gui.image = tag

isStale == gui.ref = "custom" \/ gui.image # tag

reportCurrent ==
    /\ updater.stage = "inspected" /\ isCurrent
    /\ Report("current")
    /\ UNCHANGED <<server, gui, tag, session, browser, drops, stops>>

(* docker rm -f: fails and leaves the container, or removes it. *)
removeContainer ==
    /\ updater.stage = "inspected" /\ isStale
    /\ \/ Report("hint") /\ UNCHANGED <<lock, gui, session, stream>>
       \/ /\ updater' = [updater EXCEPT !.stage = "removed", !.killed = op = "running"]
          /\ gui' = [gui EXCEPT !.up = FALSE]
          /\ ServerGone
    /\ UNCHANGED <<op, tag, page, query, drops, stops>>

(* docker run on the new image; a failure is told to the operator. *)
runContainer ==
    /\ updater.stage = "removed"
    /\ \/ Report("hint") /\ UNCHANGED <<gui, op, lock>>
       \/ Report("restarted") /\ ServerBoots(tag)
    /\ UNCHANGED <<tag, session, browser, drops, stops>>

SelfUpdate ==
    \/ checkSelfUpdate \/ ensureIdle \/ pull \/ applyFromSource
    \/ inspectWebContainer \/ reportCurrent \/ removeContainer \/ runContainer

----------------------------------------------------------------------------
ConsoleNext ==
    \/ create \/ acquire \/ append \/ complete \/ release
    \/ \E q \in Queries : Read(q) \/ Arrive(q) \/ Poll(q)
    \/ Connect \/ onOpen \/ onOperation \/ flush \/ Drop
    \/ Mount \/ Watch \/ Reload
    \/ WebStops \/ WebStarts
    \/ SelfUpdate

(* The server answers, the network delivers, and the browser's timers      *)
(* fire; nothing makes an operator or an operation act.                    *)
Fairness ==
    /\ \A q \in Queries : WF_consoleVars(Read(q)) /\ WF_consoleVars(Arrive(q)) /\ WF_consoleVars(Poll(q))
    /\ WF_consoleVars(Connect) /\ WF_consoleVars(onOpen) /\ WF_consoleVars(onOperation) /\ WF_consoleVars(flush)
    /\ WF_consoleVars(release)

ConsoleSpec == ConsoleInit /\ [][ConsoleNext]_consoleVars /\ Fairness

----------------------------------------------------------------------------
(* Properties.                                                             *)

Unloaded(q) ==
    page # "console" \/ query[q].failed \/ ~Mounted(query[q])

(* A finished operation does not stay "running" on the screen, whatever    *)
(* the stream lost: the page shows its end, an error, or is left           *)
(* (manager-events.ts: "a dropped stream only costs a little latency,      *)
(* never correctness").                                                    *)
ProgressShown ==
    op = "over" ~> (\A q \in Queries \ {"summary"} : query[q].shown = "over" \/ Unloaded(q))

(* Once the operation is over and its lock is free, the console stops      *)
(* showing the instance as busy (use-manager-events.ts: the list always    *)
(* reflects "status / busy / version").                                    *)
BusyEnds ==
    (op = "over" /\ lock = "free")
        ~> (\A q \in Queries \ {"record"} : query[q].shown = "idle" \/ Unloaded(q))

(* What self-update tells: "current" or "restarted" only if a container is *)
(* up and runs the released image its official tag names (bin.ts: "up to   *)
(* date" implies "the GUI is up to date" too).                             *)
ReportTrue ==
    [][updater'.stage = "end" /\ updater'.report \in {"current", "restarted"}
          /\ updater.stage # "end"
            => gui'.up /\ (gui'.ref # "custom" => gui'.image = "new")]_consoleVars

(* self-update without --force never interrupts a running operation        *)
(* (safe-mode-and-recovery.md: it "refuses to run while an instance        *)
(* operation is in progress").                                             *)
UpdateSparesOperations == updater.killed => updater.forced
=============================================================================
