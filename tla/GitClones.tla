----------------------------- MODULE GitClones ------------------------------
(***************************************************************************)
(* The git clones of a scan and the end of its process                     *)
(* (shadowscan/utils/git.py, utils/deadline.py, connectors/code/remote.py).*)
(* Worker threads clone one repository after another, each into a          *)
(* temporary checkout.  A closer is whoever ends the process without       *)
(* running their finally clauses: the handler of a termination signal, the *)
(* job-deadline watchdog, the command line leaving abandoned workers.  It  *)
(* stops the clones and deletes the checkouts that the registries name.    *)
(* The registries are sets whose operations are atomic; the flag that      *)
(* refuses new clones is a threading.Event, set under a lock that is not   *)
(* reentrant.  Signal handlers run between two steps of the main thread,   *)
(* which sets up the guard and clears the flag, or of another handler; a   *)
(* handler never returns to what it interrupted: it ends the process, or   *)
(* raises KeyboardInterrupt through it.                                    *)
(*                                                                         *)
(* Time is left out: a deadline or a bounded wait may run out at any step. *)
(* A process identifier is never reused.  That a clone is measured while   *)
(* it runs is one of the reasons to stop it.                               *)
(***************************************************************************)
EXTENDS Naturals, FiniteSets

CONSTANTS
    Workers,        \* threads whose connectors clone repositories
    Closers,        \* who may end the process
    Handlers,       \* closers that are calls of the signal handler, on the main thread
    Survivable,     \* handlers after which Python goes on: SIGINT, as KeyboardInterrupt
    Main,           \* the main thread's own code
    NoOne           \* nobody holds the flag's lock

ASSUME WorkersAssumption == IsFiniteSet(Workers)
ASSUME HandlersAssumption == Survivable \subseteq Handlers /\ Handlers \subseteq Closers
ASSUME NamesAssumption == Main \notin Closers /\ NoOne \notin Closers \cup {Main}

\* Inside run_bounded_clone, from the check of the flag to the end of its finally clause.
InCall == {"starting",      \* the flag was not set, git is not yet started
           "registering",   \* git runs, and no one else knows
           "watching",
           "stopping",      \* _stop_clone
           "dropping"}
WorkerSteps == InCall \cup
          {"idle",
           "prepared",      \* the checkout exists, unrecorded
           "recorded",
           "scanning",      \* the clone succeeded
           "fallback",      \* it failed: the API serves the repository instead
           "removing",
           "forgetting"}

Outcomes == {"none", "cloned",
             "failed",          \* git ended with an error
             "unfit",           \* too slow, too large, or git could not be started
             "interrupted",     \* CloneInterruptedError
             "error"}           \* the connector's deadline, or git would not die
Clones == {"none", "running", "dying", "zero", "nonzero"}

CloserSteps == {"ready",
                "raising",                  \* _INTERRUPTED.set(): to take its lock,
                "setting", "releasing",     \* to set it, to release the lock
                "listing", "recording",     \* reading _ACTIVE_CLONES and _ACTIVE_CHECKOUTS
                "signalling", "waiting",    \* SIGKILL to each clone, a bounded wait for each
                "deleting",
                "ending"}                   \* terminate_active_clones has returned
MainSteps == {"installing", "clearing",     \* terminate_clones_on_signal, before its yield
              "scanning",
              "unwound"}                    \* KeyboardInterrupt before the scan began

VARIABLES
    \* per worker
    step,
    clone,          \* its git process
    outcome,
    onDisk,         \* workers whose checkout exists
    \* shared
    clones,         \* _ACTIVE_CLONES
    checkouts,      \* _ACTIVE_CHECKOUTS
    interrupted,    \* _INTERRUPTED
    flagLock,       \* who holds its lock
    scanner,        \* "up" or "gone"
    \* the main thread
    main,
    frame,          \* what runs on it: its own code, or a handler
    \* per closer
    closer,
    targets,        \* clones it has listed and not yet signalled
    doomed,         \* checkouts it has listed to delete
    condemned,      \* checkouts left to the threads that delete
    \* auxiliary
    shot,           \* workers whose running clone a closer has signalled
    missed,         \* workers between check and registration when a closer listed the clones
    erased          \* the guard cleared a flag that a closer had raised before it

workerVars == <<step, clone, outcome, onDisk>>
registryVars == <<clones, checkouts>>
mainVars == <<main, frame>>
flagVars == <<interrupted, flagLock, mainVars, erased>>
closerVars == <<closer, targets, doomed, condemned>>
auxVars == <<shot, missed>>
vars == <<workerVars, registryVars, flagVars, scanner, closerVars, auxVars>>

\* Types; a registry names only clones that are being watched, and checkouts in use.
\* (the finally clauses of run_bounded_clone and of _analyze_repository)
TypeOK ==
    /\ step \in [Workers -> WorkerSteps]
    /\ clone \in [Workers -> Clones]
    /\ outcome \in [Workers -> Outcomes]
    /\ onDisk \in SUBSET Workers
    /\ clones \in SUBSET {w \in Workers : step[w] \in {"watching", "stopping", "dropping"}}
    /\ checkouts \in SUBSET {w \in Workers : step[w] \notin {"idle", "prepared"}}
    /\ interrupted \in BOOLEAN
    /\ flagLock \in Closers \cup {Main, NoOne}
    /\ scanner \in {"up", "gone"}
    /\ main \in MainSteps
    /\ frame \in Handlers \cup {Main}
    /\ closer \in [Closers -> CloserSteps]
    /\ targets \in [Closers -> SUBSET Workers]
    /\ doomed \in [Closers -> SUBSET Workers]
    /\ condemned \in SUBSET Workers
    /\ shot \in SUBSET Workers
    /\ missed \in SUBSET Workers
    /\ erased \in BOOLEAN

\* The guard is about to be set up; an earlier guarded run may have left the flag raised.
Init ==
    /\ step = [w \in Workers |-> "idle"]
    /\ clone = [w \in Workers |-> "none"]
    /\ outcome = [w \in Workers |-> "none"]
    /\ onDisk = {} /\ clones = {} /\ checkouts = {}
    /\ interrupted \in BOOLEAN
    /\ flagLock = NoOne
    /\ scanner = "up"
    /\ main = "installing"
    /\ frame = Main
    /\ erased = FALSE
    /\ closer = [c \in Closers |-> "ready"]
    /\ targets = [c \in Closers |-> {}]
    /\ doomed = [c \in Closers |-> {}]
    /\ condemned = {} /\ shot = {} /\ missed = {}

----------------------------------------------------------------------------
(* A worker: one repository *)

Move(w, from, to) ==
    /\ scanner = "up"
    /\ step[w] = from
    /\ step' = [step EXCEPT ![w] = to]

\* SIGKILL to the clone's process group.
Signal(w) == clone' = IF clone[w] = "running" THEN [clone EXCEPT ![w] = "dying"] ELSE clone

\* The connectors run once the guard is set up.
MakeCheckout(w) ==
    /\ Move(w, "idle", "prepared")
    /\ main = "scanning"
    /\ onDisk' = onDisk \cup {w}
    /\ UNCHANGED <<clone, outcome, registryVars, flagVars, scanner, closerVars, auxVars>>

RecordCheckout(w) ==
    /\ Move(w, "prepared", "recorded")
    /\ checkouts' = checkouts \cup {w}
    /\ UNCHANGED <<clone, outcome, onDisk, clones, flagVars, scanner, closerVars, auxVars>>

\* Nothing is cloned: the deadline has passed, or the destination may not be used.
GiveUp(w) ==
    /\ Move(w, "recorded", "removing")
    /\ outcome' = [outcome EXCEPT ![w] = "error"]
    /\ UNCHANGED <<clone, onDisk, registryVars, flagVars, scanner, closerVars, auxVars>>

\* API mode, or no destination that could be checked.
SkipClone(w) ==
    /\ Move(w, "recorded", "fallback")
    /\ outcome' = [outcome EXCEPT ![w] = "unfit"]
    /\ UNCHANGED <<clone, onDisk, registryVars, flagVars, scanner, closerVars, auxVars>>

\* (Faulty variant: the flag is not looked at.)
AlwaysAllowed(w) ==
    /\ Move(w, "recorded", "starting")
    /\ UNCHANGED <<clone, outcome, onDisk, registryVars, flagVars, scanner, closerVars, auxVars>>

CheckFlag(w) ==
    /\ IF interrupted
       THEN Move(w, "recorded", "removing") /\ outcome' = [outcome EXCEPT ![w] = "interrupted"]
       ELSE Move(w, "recorded", "starting") /\ UNCHANGED outcome
    /\ UNCHANGED <<clone, onDisk, registryVars, flagVars, scanner, closerVars, auxVars>>

StartClone(w) ==
    /\ Move(w, "starting", "registering")
    /\ clone' = [clone EXCEPT ![w] = "running"]
    /\ UNCHANGED <<outcome, onDisk, registryVars, flagVars, scanner, closerVars, auxVars>>

StartFails(w) ==
    /\ Move(w, "starting", "fallback")
    /\ outcome' = [outcome EXCEPT ![w] = "unfit"]
    /\ UNCHANGED <<clone, onDisk, registryVars, flagVars, scanner, closerVars, auxVars>>

RegisterClone(w) ==
    /\ Move(w, "registering", "watching")
    /\ clones' = clones \cup {w}
    /\ UNCHANGED <<clone, outcome, onDisk, checkouts, flagVars, scanner, closerVars, auxVars>>

SeeSuccess(w) ==
    /\ Move(w, "watching", "dropping")
    /\ clone[w] = "zero"
    /\ outcome' = [outcome EXCEPT ![w] = "cloned"]
    /\ UNCHANGED <<clone, onDisk, registryVars, flagVars, scanner, closerVars, auxVars>>

\* git ended with an error: its helpers are stopped, then the flag is looked at.
SeeFailure(w) ==
    /\ Move(w, "watching", "stopping")
    /\ clone[w] = "nonzero"
    /\ outcome' = [outcome EXCEPT ![w] = "failed"]
    /\ UNCHANGED <<clone, onDisk, registryVars, flagVars, scanner, closerVars, auxVars>>

\* (Faulty variant: a clone has no time limit.)
StopNever(w) == FALSE /\ UNCHANGED vars

\* The clone's own time, its size, or the connector's deadline: git is killed.
StopClone(w) ==
    /\ Move(w, "watching", "stopping")
    /\ \E o \in {"unfit", "error"} : outcome' = [outcome EXCEPT ![w] = o]
    /\ Signal(w)
    /\ UNCHANGED <<onDisk, registryVars, flagVars, scanner, closerVars, auxVars>>

\* (Faulty variant: a clone that was stopped from outside counts as failed.)
StoppedIsFailed(w) ==
    /\ Move(w, "stopping", "dropping")
    /\ outcome' = [outcome EXCEPT ![w] = IF clone[w] = "dying" THEN "error" ELSE outcome[w]]
    /\ UNCHANGED <<clone, onDisk, registryVars, flagVars, scanner, closerVars, auxVars>>

\* The waits of _stop_clone end, with git gone or with TimeoutExpired.
Stopped(w) ==
    /\ Move(w, "stopping", "dropping")
    /\ outcome' = [outcome EXCEPT ![w] =
                     IF clone[w] = "dying" THEN "error"
                     ELSE IF @ = "failed" /\ interrupted THEN "interrupted" ELSE @]
    /\ UNCHANGED <<clone, onDisk, registryVars, flagVars, scanner, closerVars, auxVars>>

DropClone(w) ==
    /\ Move(w, "dropping", IF outcome[w] = "cloned" THEN "scanning"
                           ELSE IF outcome[w] \in {"failed", "unfit"} THEN "fallback"
                           ELSE "removing")
    /\ clones' = clones \ {w}
    /\ UNCHANGED <<clone, outcome, onDisk, checkouts, flagVars, scanner, closerVars, auxVars>>

\* The API snapshot is written into the checkout, which is made again if need be.
WriteSnapshot(w) ==
    /\ scanner = "up"
    /\ step[w] = "fallback"
    /\ onDisk' = onDisk \cup {w}
    /\ UNCHANGED <<step, clone, outcome, registryVars, flagVars, scanner, closerVars, auxVars>>

FinishRepository(w) ==
    /\ \E from \in {"scanning", "fallback"} : Move(w, from, "removing")
    /\ UNCHANGED <<clone, outcome, onDisk, registryVars, flagVars, scanner, closerVars, auxVars>>

RemoveCheckout(w) ==
    /\ Move(w, "removing", "forgetting")
    /\ onDisk' = onDisk \ {w}
    /\ UNCHANGED <<clone, outcome, registryVars, flagVars, scanner, closerVars, auxVars>>

\* The next checkout has another name, the next clone another number: what closers have
\* listed of these is void.
ForgetCheckout(w) ==
    /\ Move(w, "forgetting", "idle")
    /\ checkouts' = checkouts \ {w}
    /\ doomed' = [c \in Closers |-> doomed[c] \ {w}]
    /\ targets' = [c \in Closers |-> targets[c] \ {w}]
    /\ condemned' = condemned \ {w}
    /\ clone' = [clone EXCEPT ![w] = "none"]
    /\ outcome' = [outcome EXCEPT ![w] = "none"]
    /\ shot' = shot \ {w}
    /\ UNCHANGED <<onDisk, clones, flagVars, scanner, closer, missed>>

----------------------------------------------------------------------------
(* git *)

\* It ends by itself, or of the signal, and does so whether or not the scanner is there.
CloneExits(w) ==
    /\ \E end \in IF clone[w] = "running" THEN {"zero", "nonzero"} ELSE {"nonzero"} :
         clone' = [clone EXCEPT ![w] = end]
    /\ clone[w] \in {"running", "dying"}
    /\ UNCHANGED <<step, outcome, onDisk, registryVars, flagVars, scanner, closerVars, auxVars>>

----------------------------------------------------------------------------
(* A closer: terminate_active_clones, and then the end of the process *)

\* A handler runs while no other has interrupted it; every other closer is a thread.
Runs(c) == c \in Handlers => frame = c

Advance(c, from, to) ==
    /\ scanner = "up"
    /\ Runs(c)
    /\ closer[c] = from
    /\ closer' = [closer EXCEPT ![c] = to]

\* A signal comes at any moment, in the middle of another handler too; so does the deadline.
BeginClosing(c) ==
    /\ scanner = "up"
    /\ closer[c] = "ready"
    /\ closer' = [closer EXCEPT ![c] = "raising"]
    /\ frame' = IF c \in Handlers THEN c ELSE frame
    /\ UNCHANGED <<workerVars, registryVars, interrupted, flagLock, main, erased, scanner,
                   targets, doomed, condemned, auxVars>>

\* Event.set, and its lock: a handler waits even for a lock held by what it interrupted.
TakeFlagLock(c) ==
    /\ Advance(c, "raising", "setting")
    /\ flagLock = NoOne
    /\ flagLock' = c
    /\ UNCHANGED <<workerVars, registryVars, interrupted, mainVars, erased, scanner,
                   targets, doomed, condemned, auxVars>>

RaiseFlag(c) ==
    /\ Advance(c, "setting", "releasing")
    /\ interrupted' = TRUE
    /\ UNCHANGED <<workerVars, registryVars, flagLock, mainVars, erased, scanner,
                   targets, doomed, condemned, auxVars>>

FreeFlagLock(c) ==
    /\ Advance(c, "releasing", "listing")
    /\ flagLock' = NoOne
    /\ UNCHANGED <<workerVars, registryVars, interrupted, mainVars, erased, scanner,
                   targets, doomed, condemned, auxVars>>

ListClones(c) ==
    /\ Advance(c, "listing", "recording")
    /\ targets' = [targets EXCEPT ![c] = clones]
    /\ missed' = missed \cup {w \in Workers : step[w] \in {"starting", "registering"}}
    /\ UNCHANGED <<workerVars, registryVars, flagVars, scanner, doomed, condemned, shot>>

ListCheckouts(c) ==
    /\ Advance(c, "recording", "signalling")
    /\ doomed' = [doomed EXCEPT ![c] = checkouts]
    /\ UNCHANGED <<workerVars, registryVars, flagVars, scanner, targets, condemned, auxVars>>

SignalClone(c, w) ==
    /\ scanner = "up" /\ Runs(c)
    /\ closer[c] = "signalling"
    /\ w \in targets[c]
    /\ targets' = [targets EXCEPT ![c] = @ \ {w}]
    /\ Signal(w)
    /\ shot' = IF clone[w] = "running" THEN shot \cup {w} ELSE shot
    /\ UNCHANGED <<step, outcome, onDisk, registryVars, flagVars, scanner, closer,
                   doomed, condemned, missed>>

\* (Faulty variant: the checkouts are deleted first.)
DeleteFirst(c) ==
    /\ Advance(c, "signalling", "waiting")
    /\ condemned' = condemned \cup doomed[c]
    /\ doomed' = [doomed EXCEPT ![c] = {}]
    /\ UNCHANGED <<workerVars, registryVars, flagVars, scanner, targets, auxVars>>

SignalledAll(c) ==
    /\ Advance(c, "signalling", "waiting")
    /\ targets[c] = {}
    /\ UNCHANGED <<workerVars, registryVars, flagVars, scanner, targets, doomed, condemned, auxVars>>

\* Half a second for each clone, and no more than the budget: some may still be dying.
\* A thread of its own then deletes the checkouts.
Waited(c) ==
    /\ Advance(c, "waiting", "deleting")
    /\ condemned' = condemned \cup doomed[c]
    /\ doomed' = [doomed EXCEPT ![c] = {}]
    /\ UNCHANGED <<workerVars, registryVars, flagVars, scanner, targets, auxVars>>

\* (Faulty variant: the thread that deletes is joined without a limit.)
JoinDeletions(c) ==
    /\ Advance(c, "deleting", "ending")
    /\ condemned = {}
    /\ UNCHANGED <<workerVars, registryVars, flagVars, scanner, targets, doomed, condemned, auxVars>>

\* The closer joins that thread until all is deleted, or its budget is spent.
StopWaiting(c) ==
    /\ Advance(c, "deleting", "ending")
    /\ UNCHANGED <<workerVars, registryVars, flagVars, scanner, targets, doomed, condemned, auxVars>>

\* The thread goes on as long as the process does.
DeleteCheckout(w) ==
    /\ scanner = "up"
    /\ w \in condemned
    /\ condemned' = condemned \ {w}
    /\ onDisk' = onDisk \ {w}
    /\ UNCHANGED <<step, clone, outcome, registryVars, flagVars, scanner, closer,
                   targets, doomed, auxVars>>

\* os._exit, or the signal's default effect.
Exit(c) ==
    /\ Advance(c, "ending", "ready")
    /\ scanner' = "gone"
    /\ UNCHANGED <<workerVars, registryVars, flagVars, targets, doomed, condemned, auxVars>>

\* The handler returns into Python's own, which raises KeyboardInterrupt: through the main
\* thread, and through every handler that it interrupted.
Survive(c) ==
    /\ c \in Survivable
    /\ scanner = "up" /\ Runs(c)
    /\ closer[c] = "ending"
    /\ closer' = [d \in Closers |-> IF d \in Handlers THEN "ready" ELSE closer[d]]
    /\ targets' = [d \in Closers |-> IF d \in Handlers THEN {} ELSE targets[d]]
    /\ doomed' = [d \in Closers |-> IF d \in Handlers THEN {} ELSE doomed[d]]
    /\ frame' = Main
    /\ main' = IF main = "scanning" THEN "scanning" ELSE "unwound"
    /\ UNCHANGED <<workerVars, registryVars, interrupted, flagLock, erased, scanner,
                   condemned, auxVars>>

----------------------------------------------------------------------------
(* The main thread: terminate_clones_on_signal around the scan *)

\* The handlers are installed: the flag of an earlier run is cleared, under its lock.
BeginClear ==
    /\ scanner = "up" /\ frame = Main
    /\ main = "installing"
    /\ flagLock = NoOne
    /\ main' = "clearing"
    /\ flagLock' = Main
    /\ UNCHANGED <<workerVars, registryVars, interrupted, frame, erased, scanner, closerVars, auxVars>>

EndClear ==
    /\ scanner = "up" /\ frame = Main
    /\ main = "clearing"
    /\ main' = "scanning"
    /\ interrupted' = FALSE
    /\ flagLock' = NoOne
    /\ erased' = (erased \/ \E c \in Closers : closer[c] \notin {"ready", "raising"})
    /\ UNCHANGED <<workerVars, registryVars, frame, scanner, closerVars, auxVars>>

\* The scan is over, or interrupted: the interpreter joins the workers and exits.
Leave ==
    /\ scanner = "up" /\ frame = Main
    /\ main \in {"scanning", "unwound"}
    /\ \A w \in Workers : step[w] = "idle"
    /\ scanner' = "gone"
    /\ UNCHANGED <<workerVars, registryVars, flagVars, closerVars, auxVars>>

----------------------------------------------------------------------------
CloneCall(w) ==
    \/ StartClone(w) \/ StartFails(w) \/ RegisterClone(w)
    \/ SeeSuccess(w) \/ SeeFailure(w) \/ StopClone(w) \/ Stopped(w) \/ DropClone(w)

WorkerNext(w) ==
    \/ MakeCheckout(w) \/ RecordCheckout(w) \/ GiveUp(w) \/ SkipClone(w) \/ CheckFlag(w)
    \/ CloneCall(w)
    \/ WriteSnapshot(w) \/ FinishRepository(w) \/ RemoveCheckout(w) \/ ForgetCheckout(w)

CloserNext(c) ==
    \/ TakeFlagLock(c) \/ RaiseFlag(c) \/ FreeFlagLock(c)
    \/ ListClones(c) \/ ListCheckouts(c)
    \/ \E w \in Workers : SignalClone(c, w)
    \/ SignalledAll(c) \/ Waited(c) \/ StopWaiting(c) \/ Exit(c) \/ Survive(c)

Next ==
    \/ \E w \in Workers : WorkerNext(w) \/ CloneExits(w) \/ DeleteCheckout(w)
    \/ \E c \in Closers : BeginClosing(c) \/ CloserNext(c)
    \/ BeginClear \/ EndClear \/ Leave

Spec == Init /\ [][Next]_vars

\* A handler has interrupted, on the main thread, what holds the flag's lock: it waits for
\* that lock, and what it interrupted waits for it.
Trapped == flagLock \in Handlers \cup {Main} /\ frame # flagLock

\* A thread inside run_bounded_clone, a closer that has begun and the main thread in
\* Event.clear go on: each of their other waits has a limit.  A thread takes the lock at last
\* that signals, again and again, take and free.  Nothing is assumed of git, of scans, or of
\* signals.
Fairness ==
    /\ \A w \in Workers : WF_vars(CloneCall(w))
    /\ \A c \in Closers : WF_vars(CloserNext(c))
    /\ \A c \in Closers \ Handlers : SF_vars(TakeFlagLock(c))
    /\ WF_vars(EndClear)

FairSpec == Spec /\ Fairness

----------------------------------------------------------------------------
(* Properties *)

\* When the process is gone, the only clones left running are those that were between the
\* check of the flag and their registration when a closer listed the clones: everything
\* registered has been killed, everything later refused, unless the guard, set up while a
\* closer was at work, cleared its flag.
\* (terminate_active_clones, run_bounded_clone, terminate_clones_on_signal)
SurvivorsWereMissed ==
    scanner = "gone" => \A w \in Workers : clone[w] = "running" => w \in missed \/ erased

\* A clone that a closer killed is never taken for one that failed by itself, which would be
\* fetched again through the API.  (the flag is set before the kill and read after the exit)
NotRetried == \A w \in shot : step[w] = "fallback" => outcome[w] # "failed" \/ erased

\* No checkout is deleted while git still runs in it unsignalled, whoever deletes it.
\* (_stop_clone before the finally clauses; signals before deletions)
NoDeletionUnderGit ==
    [][\A w \in onDisk \ onDisk' : clone[w] = "running" => w \in missed \/ erased]_vars

\* A call that has started git always comes back, whatever git does.
\* (the limits in run_bounded_clone and _stop_clone)
CloneCallsEnd == \A w \in Workers : step[w] \in InCall ~> step[w] \notin InCall \/ scanner = "gone"

\* Termination waits without limit for nothing but the flag's lock, and obtains that, unless
\* a signal came while the main thread held it: in the clearing of the flag, or in the set()
\* of another handler.  Then no closer that needs the flag ever ends, the watchdog included.
\* (terminate_active_clones, terminate_clones_on_signal, threading.Event)
ClosersEnd ==
    \A c \in Closers : closer[c] # "ready" ~> closer[c] = "ready" \/ scanner = "gone" \/ Trapped

=============================================================================
