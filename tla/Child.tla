--------------------------------- MODULE Child ---------------------------------
(***************************************************************************)
(* What the scheduler may rely on of the process it runs: one session of   *)
(* `skopaq daemon`, a recovery `skopaq monitor`, or `skopaq settle`.       *)
(*                                                                         *)
(* `exposed` says that the account holds what the day's sessions bought    *)
(* (or an order of theirs that may still buy); `told`, that somebody was   *)
(* told to look at the broker since a process last looked after it.  The   *)
(* scheduler runs this contract (Scheduler); the daemon implements it      *)
(* (Daemon).                                                               *)
(***************************************************************************)

VARIABLES
    kind,       \* which process: "none", "daemon", "monitor", "settle"
    st,         \* "none", "running", "ended"
    began,      \* a daemon past PRE_OPEN: it may have traded
    rc,         \* its exit code, once ended
    term,       \* it has got a SIGTERM
    exposed, told

childVars == <<kind, st, began, rc, term, exposed, told>>

\* Exit codes: 0, POSITIONS_LEFT (4), PRE_OPEN_FAILED (3), anything else, SIGKILL
ExitCodes == {"ok", "left", "preopen", "error", "killed"}

ChildTypeOK ==
    /\ kind \in {"none", "daemon", "monitor", "settle"}
    /\ st \in {"none", "running", "ended"}
    /\ rc \in ExitCodes \cup {"none"}
    /\ began \in BOOLEAN /\ term \in BOOLEAN /\ exposed \in BOOLEAN /\ told \in BOOLEAN

Runs(k) == st = "running" /\ kind = k

Ends(code) ==
    /\ st' = "ended" /\ rc' = code
    /\ UNCHANGED <<kind, began, term, exposed, told>>

-----------------------------------------------------------------------------
(* The daemon. *)

\* PRE_OPEN is over: from here on it may trade
Begins ==
    /\ Runs("daemon") /\ ~began
    /\ began' = TRUE
    /\ UNCHANGED <<kind, st, rc, term, exposed, told>>

\* PRE_OPEN failed and nothing was traded
PreOpenFails == Runs("daemon") /\ ~began /\ Ends("preopen")

\* A BUY was sent: live, shares may be held from now on
Trades ==
    /\ Runs("daemon") /\ began
    /\ exposed' = TRUE
    /\ UNCHANGED <<kind, st, began, rc, term, told>>

\* CLOSING names what it leaves open
Tells ==
    /\ Runs("daemon") /\ began
    /\ told' = TRUE
    /\ UNCHANGED <<kind, st, began, rc, term, exposed>>

\* A session that ends well has sold what it bought, or has said what is left
Finishes == Runs("daemon") /\ (exposed => told) /\ Ends("ok")

-----------------------------------------------------------------------------
(* The recovery monitor, and any process. *)

\* It ends by itself once nothing is held or open
MonitorEnds == Runs("monitor") /\ ~exposed /\ Ends("ok")

\* Or leaves positions or unconfirmed orders, after the close or because of a stop
MonitorLeaves == Runs("monitor") /\ Ends("left")

SettleEnds == Runs("settle") /\ Ends("ok")

\* An exception, or the kernel's OOM killer
Fails == st = "running" /\ Ends("error")

\* The child, or somebody at the broker, sells what is held
Sold ==
    /\ exposed
    /\ exposed' = FALSE
    /\ UNCHANGED <<kind, st, began, rc, term, told>>

-----------------------------------------------------------------------------
(* Signals. *)

Terminated ==
    /\ st = "running" /\ ~term
    /\ term' = TRUE
    /\ UNCHANGED <<kind, st, began, rc, exposed, told>>

Killed == st = "running" /\ term /\ Ends("killed")

ChildStep ==
    \/ Begins \/ PreOpenFails \/ Trades \/ Tells \/ Finishes
    \/ MonitorEnds \/ MonitorLeaves \/ SettleEnds \/ Fails \/ Sold

\* A daemon on its own, as the contract sees it
SessionInit ==
    /\ kind = "daemon" /\ st = "running" /\ began = FALSE /\ rc = "none"
    /\ term = FALSE /\ exposed = FALSE /\ told = FALSE
SessionSpec == SessionInit /\ [][ChildStep \/ Terminated]_childVars
=============================================================================
