---------------------------- MODULE HttpRequest -----------------------------
(***************************************************************************)
(* One request of an HttpClient (shadowscan/utils/http.py): the lookup of  *)
(* its host in a resolver thread, the connection, redirects and retries,   *)
(* and the body, against the timers that bound each of them.               *)
(*                                                                         *)
(* Beside the thread that makes the request there are: the resolver        *)
(* threads, which nobody can stop and which share a bounded number of      *)
(* slots with the whole process; the timer that guards the acquisition of  *)
(* a response; the timer that watches the reading of its body; the scan,   *)
(* which may run past its deadline or be cancelled; and other users of the *)
(* session's connection pool and of the resolver slots.                    *)
(*                                                                         *)
(* Time is left out: a budget may be spent at any step, and is spent once  *)
(* the connector's deadline is over, which no budget exceeds.  The host is *)
(* a name: an address needs no lookup before the connection.               *)
(***************************************************************************)
EXTENDS Naturals, FiniteSets

CONSTANTS
    Lookups,        \* resolver threads
    Sockets,
    MaxResolvers,   \* _MAX_RESOLVER_THREADS
    MaxRetries,
    MaxRedirects,
    None

ASSUME LimitsAssumption ==
    /\ MaxResolvers \in Nat \ {0}
    /\ MaxRetries \in Nat
    /\ MaxRedirects \in Nat

ASSUME LookupsAssumption == IsFiniteSet(Lookups) /\ None \notin Lookups

ASSUME SocketsAssumption == None \notin Sockets

Waits == {"asking",         \* _resolve_bounded, before it has a slot
          "claimed",        \* it has one, and no thread yet
          "waiting"}        \* the thread runs
Steps == Waits \cup
         {"idle",
          "attempting",
          "connecting",     \* the host's addresses are known
          "exchanging",     \* connect, TLS, request, status and headers
          "acquired",       \* _make_request has a response or an error
          "finishing",      \* the guard is told, and joined
          "responded",
          "pausing",        \* before a retry
          "resuming",
          "reading",
          "judging",        \* the body has ended, one way or another
          "joining"}        \* the watchdog is cancelled and joined

Responses == {"none", "redirect", "retry", "error", "body"}
Bodies == {"none", "partial",
           "whole",         \* all that the provider sent
           "short",         \* an end that only the shutdown of the socket has made
           "failed"}
Outcomes == {"none", "ok", "error"}
Owners == {"none", "mine", "pooled", "other"}

VARIABLES
    \* the request
    step, goal, attempt, redirects, response, body, outcome,
    \* the scan: past its deadline, or cancelled
    late, cancelled,
    \* the resolver
    slots,          \* the semaphore _resolver_slots
    thread,         \* state of each resolver thread
    freed,          \* threads whose slot has been returned (the lock "freed")
    mine,           \* the thread this request waits for
    answer,         \* what it has answered
    \* connections
    owner,          \* who has each socket
    cut,            \* sockets that a timer has shut down
    socket,         \* the socket of this request
    \* the guard of the acquisition, _SocketDeadline
    guard, finished, acqExpired,
    \* the watchdog of the body, _read_watchdog
    watchdog, released, readExpired,
    \* auxiliary: attempts and results since the scan was over
    attemptsAfter, resultsAfter

progressVars == <<goal, attempt, redirects>>
replyVars == <<response, body, outcome>>
scanVars == <<late, cancelled>>
resolverVars == <<slots, thread, freed, mine, answer>>
poolVars == <<owner, cut, socket>>
guardVars == <<guard, finished, acqExpired>>
watchdogVars == <<watchdog, released, readExpired>>
timerVars == <<guardVars, watchdogVars>>
auxVars == <<attemptsAfter, resultsAfter>>
\* What a step of the request's own thread hardly ever touches.
aroundVars == <<scanVars, resolverVars, timerVars, auxVars>>
requestVars == <<step, progressVars, replyVars>>
httpVars == <<requestVars, poolVars, aroundVars>>

FlagsTypeOK ==
    /\ late \in BOOLEAN /\ cancelled \in BOOLEAN
    /\ finished \in BOOLEAN /\ acqExpired \in BOOLEAN
    /\ released \in BOOLEAN /\ readExpired \in BOOLEAN

HttpTypeOK ==
    /\ FlagsTypeOK
    /\ step \in Steps
    /\ goal \in {"check", "connect"}
    /\ attempt \in 0 .. MaxRetries + MaxRedirects + 1
    /\ redirects \in 0 .. MaxRedirects
    /\ response \in Responses /\ body \in Bodies /\ outcome \in Outcomes
    /\ slots \in Nat
    /\ thread \in [Lookups -> {"none", "claimed", "running", "answered"}]
    /\ freed \in SUBSET Lookups
    /\ mine \in Lookups \cup {None}
    /\ answer \in {"none", "usable", "refused", "failed"}
    /\ owner \in [Sockets -> Owners]
    /\ cut \in SUBSET Sockets
    /\ socket \in Sockets \cup {None}
    /\ guard \in {"off", "armed", "firing"}
    /\ watchdog \in {"off", "armed", "firing", "aborting"}
    /\ attemptsAfter \in Nat /\ resultsAfter \in Nat

\* Between two requests nobody waits for a lookup, and no timer or socket remains.
NothingLeft ==
    step = "idle" => /\ guard = "off" /\ watchdog = "off"
                     /\ mine = None
                     /\ \A k \in Sockets : owner[k] # "mine"

HttpInit ==
    /\ step = "idle" /\ goal = "check" /\ attempt = 0 /\ redirects = 0
    /\ response = "none" /\ body = "none" /\ outcome = "none"
    /\ late = FALSE /\ cancelled = FALSE
    /\ slots = MaxResolvers
    /\ thread = [l \in Lookups |-> "none"]
    /\ freed = {} /\ mine = None /\ answer = "none"
    /\ owner = [k \in Sockets |-> "none"]
    /\ cut = {} /\ socket = None
    /\ guard = "off" /\ finished = FALSE /\ acqExpired = FALSE
    /\ watchdog = "off" /\ released = FALSE /\ readExpired = FALSE
    /\ attemptsAfter = 0 /\ resultsAfter = 0

Over == late \/ cancelled

Move(from, to) == step = from /\ step' = to

\* The request raises.
Raise == step' = "idle" /\ outcome' = "error" /\ response' = "none"

\* The connection of this request is closed, and not returned to the pool.
CloseSocket ==
    /\ socket' = None
    /\ owner' = [k \in Sockets |-> IF k = socket /\ owner[k] = "mine" THEN "none" ELSE owner[k]]
    /\ cut' = {k \in cut : ~(k = socket /\ owner[k] = "mine")}

----------------------------------------------------------------------------
(* The request begins: its URL is checked, which takes a lookup.  A paginator checks the URL *)
(* of a page too, in the same way, and that check is not told apart from the request's own. *)

Begin ==
    /\ Move("idle", "asking")
    /\ attempt' = 0 /\ redirects' = 0
    /\ body' = "none" /\ outcome' = "none"
    /\ UNCHANGED <<goal, response, aroundVars, poolVars>>

----------------------------------------------------------------------------
(* _resolve_bounded *)

\* The lookup raises.  A lookup for a connection does so inside _make_request.
LookupFails ==
    /\ goal' = "check"
    /\ IF goal = "check" THEN Raise
                         ELSE step' = "acquired" /\ UNCHANGED <<response, outcome>>

\* The budget is spent, at once or before a slot is free.
RefuseLookup ==
    /\ step = "asking"
    /\ LookupFails
    /\ UNCHANGED <<attempt, redirects, body, aroundVars, poolVars>>

\* A semaphore is a number; a thread's name is a fresh one.
Claim(l) ==
    /\ slots > 0
    /\ thread[l] = "none"
    /\ slots' = slots - 1
    /\ thread' = [thread EXCEPT ![l] = "claimed"]
    /\ freed' = freed \ {l}

ClaimSlot(l) ==
    /\ Move("asking", "claimed")
    /\ Claim(l)
    /\ mine' = l
    /\ answer' = "none"
    /\ UNCHANGED <<progressVars, replyVars, scanVars, poolVars, timerVars, auxVars>>

\* (Faulty variant: each side that ends the lookup returns the slot.)
FreeSlotAlways(l) == slots' = slots + 1 /\ freed' = freed \cup {l}

\* free_slot: only the first of the two sides returns the slot.
FreeSlot(l) ==
    IF l \in freed THEN UNCHANGED <<slots, freed>>
                   ELSE slots' = slots + 1 /\ freed' = freed \cup {l}

\* The budget was spent on the wait for the slot, or no thread can be made.
GiveSlotBack ==
    /\ step = "claimed"
    /\ LookupFails
    /\ FreeSlot(mine)
    /\ thread' = [thread EXCEPT ![mine] = "none"]
    /\ mine' = None
    /\ UNCHANGED <<attempt, redirects, body, scanVars, answer, poolVars, timerVars, auxVars>>

StartThread ==
    /\ Move("claimed", "waiting")
    /\ ~late
    /\ thread' = [thread EXCEPT ![mine] = "running"]
    /\ UNCHANGED <<progressVars, replyVars, scanVars, slots, freed, mine, answer, poolVars,
                   timerVars, auxVars>>

\* An interrupt leaves Thread.start although the thread is running.
StartInterrupted ==
    /\ step = "claimed"
    /\ ~late
    /\ LookupFails
    /\ thread' = [thread EXCEPT ![mine] = "running"]
    /\ FreeSlot(mine)
    /\ mine' = None
    /\ UNCHANGED <<attempt, redirects, body, scanVars, answer, poolVars, timerVars, auxVars>>

\* An address in use, one that may not be, or the resolver's error.  A name that the check
\* cannot resolve is left to the connection.
TakeAnswer ==
    /\ step = "waiting"
    /\ thread[mine] = "answered"
    /\ mine' = None
    /\ answer' = "none"
    /\ IF answer = "usable" \/ (goal = "check" /\ answer = "failed")
       THEN /\ step' = IF goal = "check" THEN "attempting" ELSE "connecting"
            /\ goal' = "check"
            /\ UNCHANGED <<response, outcome>>
       ELSE LookupFails
    /\ UNCHANGED <<attempt, redirects, body, scanVars, slots, thread, freed, poolVars, timerVars,
                   auxVars>>

\* The thread is left to itself, with its slot.
StopWaiting ==
    /\ step = "waiting"
    /\ LookupFails
    /\ mine' = None
    /\ answer' = "none"
    /\ UNCHANGED <<attempt, redirects, body, scanVars, slots, thread, freed, poolVars, timerVars,
                   auxVars>>

\* A resolver thread: getaddrinfo returns, if ever, ...
Answer(l) ==
    /\ thread[l] = "running"
    /\ thread' = [thread EXCEPT ![l] = "answered"]
    /\ answer' \in IF l = mine THEN {"usable", "refused", "failed"} ELSE {answer}
    /\ UNCHANGED <<requestVars, scanVars, slots, freed, mine, poolVars, timerVars, auxVars>>

\* ... and the thread ends.  Its name may be given again when nobody waits for it.
EndThread(l) ==
    /\ thread[l] = "answered"
    /\ l # mine
    /\ FreeSlot(l)
    /\ thread' = [thread EXCEPT ![l] = "none"]
    /\ UNCHANGED <<requestVars, scanVars, mine, answer, poolVars, timerVars, auxVars>>

----------------------------------------------------------------------------
(* An attempt *)

ArmGuard ==
    /\ guard' = "armed"
    /\ finished' = FALSE
    /\ acqExpired' = FALSE

StartAttempt ==
    /\ step = "attempting"
    /\ attempt' = attempt + 1
    /\ ArmGuard
    /\ attemptsAfter' = IF Over THEN attemptsAfter + 1 ELSE attemptsAfter
    /\ UNCHANGED <<redirects, replyVars, scanVars, resolverVars, watchdogVars, resultsAfter>>

\* urllib3 takes a connection from its pool, if it finds it alive, ...
ReuseSocket(k) ==
    /\ StartAttempt
    /\ owner[k] = "pooled" /\ k \notin cut
    /\ step' = "exchanging"
    /\ socket' = k
    /\ owner' = [owner EXCEPT ![k] = "mine"]
    /\ UNCHANGED <<goal, cut>>

\* ... or _new_conn makes one, after a lookup of its own.
NewConnection ==
    /\ StartAttempt
    /\ step' = "asking"
    /\ goal' = "connect"
    /\ UNCHANGED poolVars

\* The guard sees the socket before it is connected, and the deadline is looked at again.
Connect(k) ==
    /\ Move("connecting", "exchanging")
    /\ ~acqExpired /\ ~late
    /\ owner[k] = "none"
    /\ socket' = k
    /\ owner' = [owner EXCEPT ![k] = "mine"]
    /\ UNCHANGED <<progressVars, replyVars, aroundVars, cut>>

GetResponse ==
    /\ Move("exchanging", "acquired")
    /\ response' \in Responses \ {"none"}
    /\ UNCHANGED <<progressVars, body, outcome, aroundVars, poolVars>>

\* The deadline, the socket's own errors and time limit, or the shutdown that wakes it.
AttemptFails ==
    /\ \E from \in {"connecting", "exchanging"} : Move(from, "acquired")
    /\ UNCHANGED <<progressVars, replyVars, aroundVars, poolVars>>

\* _SocketDeadline.finish, up to the join.
FinishGuard ==
    /\ Move("acquired", "finishing")
    /\ finished' = TRUE
    /\ guard' = IF guard = "armed" THEN "off" ELSE guard
    /\ UNCHANGED <<progressVars, replyVars, scanVars, resolverVars, poolVars, acqExpired,
                   watchdogVars, auxVars>>

DropGuard == finished' = FALSE /\ acqExpired' = FALSE

\* The timer has been joined: a response is used only if it came in time.
AcceptResponse ==
    /\ Move("finishing", "responded")
    /\ guard = "off"
    /\ DropGuard
    /\ response # "none" /\ ~acqExpired /\ ~late
    /\ UNCHANGED <<progressVars, replyVars, scanVars, resolverVars, poolVars, guard,
                   watchdogVars, auxVars>>

\* The attempt failed, or too much time has passed.
RejectResponse ==
    /\ step = "finishing"
    /\ guard = "off"
    /\ DropGuard
    /\ Raise
    /\ CloseSocket
    /\ UNCHANGED <<progressVars, body, scanVars, resolverVars, guard, watchdogVars, auxVars>>

----------------------------------------------------------------------------
(* What the response asks for *)

\* (Faulty variant: a redirect is followed as a new request, with attempts of its own.)
FollowAnew ==
    /\ Move("responded", "asking")
    /\ response = "redirect" /\ redirects < MaxRedirects
    /\ attempt' = 0
    /\ redirects' = redirects + 1
    /\ response' = "none"
    /\ CloseSocket
    /\ UNCHANGED <<goal, body, outcome, aroundVars>>

FollowRedirect ==
    /\ Move("responded", "asking")
    /\ response = "redirect" /\ redirects < MaxRedirects
    /\ redirects' = redirects + 1
    /\ response' = "none"
    /\ CloseSocket
    /\ UNCHANGED <<goal, attempt, body, outcome, aroundVars>>

TryAgain ==
    /\ Move("responded", "pausing")
    /\ response = "retry" /\ attempt <= MaxRetries
    /\ response' = "none"
    /\ CloseSocket
    /\ UNCHANGED <<progressVars, body, outcome, aroundVars>>

\* HttpError: one redirect or retry too many, a status of 400 and above.
RaiseStatus ==
    /\ step = "responded"
    /\ \/ response = "redirect" /\ redirects >= MaxRedirects
       \/ response = "retry" /\ attempt > MaxRetries
       \/ response = "error"
    /\ Raise
    /\ CloseSocket
    /\ UNCHANGED <<progressVars, body, aroundVars>>

\* _wait_before_retry: the wait is not begun for a scan that is over, ...
Pause ==
    /\ Move("pausing", "resuming")
    /\ ~Over
    /\ UNCHANGED <<progressVars, replyVars, aroundVars, poolVars>>

\* ... nor one that would pass its deadline, and a cancellation ends it.
GiveUpRetry ==
    /\ step \in {"pausing", "resuming"}
    /\ step = "pausing" \/ cancelled
    /\ Raise
    /\ UNCHANGED <<progressVars, body, aroundVars, poolVars>>

\* The wait was over before any cancellation, or there is none to wait for.
Retry ==
    /\ Move("resuming", "attempting")
    /\ ~cancelled
    /\ UNCHANGED <<progressVars, replyVars, aroundVars, poolVars>>

----------------------------------------------------------------------------
(* read_response_bytes *)

\* (Faulty variant: reading begins although the scan is over.)
StartReadingAnyway ==
    /\ Move("responded", "reading")
    /\ response = "body"
    /\ response' = "none" /\ body' = "partial"
    /\ watchdog' = "armed" /\ released' = FALSE /\ readExpired' = FALSE
    /\ UNCHANGED <<progressVars, outcome, scanVars, resolverVars, poolVars, guardVars, auxVars>>

StartReading ==
    /\ Move("responded", "reading")
    /\ response = "body"
    /\ ~Over
    /\ response' = "none" /\ body' = "partial"
    /\ watchdog' = "armed" /\ released' = FALSE /\ readExpired' = FALSE
    /\ UNCHANGED <<progressVars, outcome, scanVars, resolverVars, poolVars, guardVars, auxVars>>

\* The scan is over or the budget spent, or the declared length is above the limit.
RefuseBody ==
    /\ step = "responded"
    /\ response = "body"
    /\ Raise
    /\ CloseSocket
    /\ UNCHANGED <<progressVars, body, aroundVars>>

\* The read that ends the body gives the connection back, or closes one that is not kept
\* alive, before the reader has control again.  It waits for the watchdog's lock.
EndBody(b, to) ==
    /\ Move("reading", "judging")
    /\ watchdog # "aborting"
    /\ body' = b
    /\ released' = TRUE
    /\ owner' = [owner EXCEPT ![socket] = to]
    /\ cut' = IF to = "none" THEN cut \ {socket} ELSE cut
    /\ UNCHANGED <<progressVars, response, outcome, scanVars, resolverVars, socket, guardVars,
                   watchdog, readExpired, auxVars>>

BodyEnds == \E to \in {"pooled", "none"} : EndBody("whole", to)

\* A socket that was shut down looks like the end of a body that the connection's end delimits.
ShortBodyEnds == socket \in cut /\ EndBody("short", "none")

\* A chunk arrives and the deadline has passed; too many bytes; a transport error.
StopReading ==
    /\ Move("reading", "judging")
    /\ \/ body' = "failed" /\ UNCHANGED readExpired
       \/ UNCHANGED body /\ readExpired' = TRUE
    /\ UNCHANGED <<progressVars, response, outcome, scanVars, resolverVars, poolVars, guardVars,
                   watchdog, released, auxVars>>

\* The shutdown wakes the reader.
ReadInterrupted == socket \in cut /\ StopReading

\* (Faulty variant: an end of body is believed.)
JudgeByEnd ==
    /\ Move("judging", "joining")
    /\ outcome' = IF body \in {"whole", "short"} THEN "ok" ELSE "error"
    /\ resultsAfter' = IF Over /\ outcome' = "ok" THEN resultsAfter + 1 ELSE resultsAfter
    /\ UNCHANGED <<progressVars, response, body, scanVars, resolverVars, poolVars, timerVars,
                   attemptsAfter>>

Judge ==
    /\ Move("judging", "joining")
    /\ outcome' = IF ~readExpired /\ body \in {"whole", "short"} THEN "ok" ELSE "error"
    /\ resultsAfter' = IF Over /\ outcome' = "ok" THEN resultsAfter + 1 ELSE resultsAfter
    /\ UNCHANGED <<progressVars, response, body, scanVars, resolverVars, poolVars, timerVars,
                   attemptsAfter>>

\* The finally clause: the timer is cancelled and joined, the response closed.
JoinWatchdog ==
    /\ Move("joining", "idle")
    /\ watchdog \in {"off", "armed"}
    /\ watchdog' = "off" /\ released' = FALSE /\ readExpired' = FALSE
    /\ CloseSocket
    /\ UNCHANGED <<progressVars, replyVars, scanVars, resolverVars, guardVars, auxVars>>

----------------------------------------------------------------------------
(* The timers *)

GuardFires ==
    /\ guard = "armed"
    /\ guard' = "firing"
    /\ UNCHANGED <<requestVars, scanVars, resolverVars, poolVars, finished, acqExpired,
                   watchdogVars, auxVars>>

\* (Faulty variant: the deadline is noted, but nobody is woken.)
AbortQuietly ==
    /\ guard = "firing"
    /\ guard' = "off"
    /\ acqExpired' = ~finished
    /\ UNCHANGED <<requestVars, scanVars, resolverVars, poolVars, finished, watchdogVars, auxVars>>

\* _abort, under the guard's lock.
GuardAborts ==
    /\ guard = "firing"
    /\ guard' = "off"
    /\ IF finished THEN UNCHANGED <<acqExpired, cut>>
                   ELSE acqExpired' = TRUE /\ cut' = cut \cup ({socket} \ {None})
    /\ UNCHANGED <<requestVars, scanVars, resolverVars, owner, socket, finished, watchdogVars,
                   auxVars>>

WatchdogFires ==
    /\ watchdog = "armed"
    /\ watchdog' = "firing"
    /\ UNCHANGED <<requestVars, scanVars, resolverVars, poolVars, guardVars, released,
                   readExpired, auxVars>>

\* (Faulty variant: the watchdog does not ask whether the connection was given back.)
AbortAnyway ==
    /\ watchdog = "firing"
    /\ watchdog' = "aborting"
    /\ readExpired' = TRUE
    /\ UNCHANGED <<requestVars, scanVars, resolverVars, poolVars, guardVars, released, auxVars>>

\* abort, under the lock that a release of the connection takes too ...
WatchdogAborts ==
    /\ watchdog = "firing"
    /\ IF released THEN watchdog' = "off" /\ UNCHANGED readExpired
                   ELSE watchdog' = "aborting" /\ readExpired' = TRUE
    /\ UNCHANGED <<requestVars, scanVars, resolverVars, poolVars, guardVars, released, auxVars>>

\* ... until the socket has been shut down.
WatchdogShuts ==
    /\ watchdog = "aborting"
    /\ watchdog' = "off"
    /\ cut' = cut \cup ({socket} \ {None})
    /\ UNCHANGED <<requestVars, scanVars, resolverVars, owner, socket, guardVars, released,
                   readExpired, auxVars>>

----------------------------------------------------------------------------
(* The scan, and the rest of the process *)

PassDeadlineOrCancel ==
    /\ \/ late' = TRUE /\ UNCHANGED cancelled
       \/ cancelled' = TRUE /\ UNCHANGED late
    /\ UNCHANGED <<requestVars, resolverVars, poolVars, timerVars, auxVars>>

\* Another client's lookup; its own end is EndThread.
OtherLookup(l) ==
    /\ slots > 0
    /\ thread[l] = "none"
    /\ slots' = slots - 1
    /\ thread' = [thread EXCEPT ![l] = "running"]
    /\ freed' = freed \ {l}
    /\ UNCHANGED <<requestVars, scanVars, mine, answer, poolVars, timerVars, auxVars>>

\* Another user of the session takes a live connection from the pool, and returns it.
OtherUses(k) ==
    /\ \/ owner[k] = "pooled" /\ k \notin cut /\ owner' = [owner EXCEPT ![k] = "other"]
       \/ owner[k] = "other" /\ owner' = [owner EXCEPT ![k] = "pooled"]
    /\ UNCHANGED <<requestVars, aroundVars, cut, socket>>

\* A connection in the pool is closed, or found dead.
PoolDrops(k) ==
    /\ owner[k] = "pooled"
    /\ owner' = [owner EXCEPT ![k] = "none"]
    /\ cut' = cut \ {k}
    /\ UNCHANGED <<requestVars, aroundVars, socket>>

----------------------------------------------------------------------------
\* What the thread of the request does by itself: nobody else is waited for without limit.
OwnStep ==
    \/ RefuseLookup \/ GiveSlotBack \/ StartThread \/ StartInterrupted \/ TakeAnswer
    \/ StopWaiting
    \/ NewConnection
    \/ (step = "connecting" \/ socket \in cut) /\ AttemptFails
    \/ FinishGuard \/ AcceptResponse \/ RejectResponse
    \/ FollowRedirect \/ TryAgain \/ RaiseStatus \/ Pause \/ GiveUpRetry \/ Retry
    \/ StartReading \/ RefuseBody \/ ReadInterrupted \/ Judge \/ JoinWatchdog

\* What depends on the server or on what is free.
ServerStep ==
    \/ \E l \in Lookups : ClaimSlot(l)
    \/ \E k \in Sockets : ReuseSocket(k) \/ Connect(k)
    \/ GetResponse \/ AttemptFails
    \/ BodyEnds \/ ShortBodyEnds \/ StopReading

TimerStep == GuardFires \/ GuardAborts \/ WatchdogFires \/ WatchdogAborts \/ WatchdogShuts

RestStep ==
    \/ \E l \in Lookups : Answer(l) \/ EndThread(l) \/ OtherLookup(l)
    \/ \E k \in Sockets : OtherUses(k) \/ PoolDrops(k)
    \/ PassDeadlineOrCancel

HttpNext == OwnStep \/ ServerStep \/ TimerStep \/ RestStep

=============================================================================
