-------------------------- MODULE HttpListingProofs -------------------------
(***************************************************************************)
(* What module HttpListing promises, proved for any resolver threads,      *)
(* connections and pages, and any limits.                                  *)
(***************************************************************************)
EXTENDS HttpListing, FiniteSetTheorems, TLAPS

----------------------------------------------------------------------------
(* What may hang, and who sees to it *)

\* Whenever the request is in a call that the other side can draw out, the timer that cuts the
\* call short is still to act, or has already shut the request's socket down; and where the
\* request joins the guard, the guard only has to finish.  (_make_request, _SocketDeadline,
\* _read_watchdog, read_response_bytes)
HangsAreWatched ==
    /\ step = "exchanging" => guard # "off" \/ socket \in cut
    /\ step = "reading" => watchdog # "off" \/ socket \in cut
    /\ step = "finishing" => guard # "armed"

\* The guard is there from the first moment of an attempt.  A lookup or connection that it has
\* overtaken is not followed by an exchange, and only an exchange yields a response.
WatchInv ==
    /\ (step \in Waits /\ goal = "connect") \/ step = "connecting" => guard # "off" \/ acqExpired
    /\ step = "exchanging" => socket # None /\ (guard # "off" \/ socket \in cut)
    /\ step = "reading" => socket # None /\ (watchdog # "off" \/ socket \in cut)
    /\ response # "none" => step \in {"acquired", "finishing", "responded"} /\ socket # None

----------------------------------------------------------------------------
(* The invariant that the proofs use *)

\* The part of a request in which its guard exists, and that of its watchdog.
Acquiring == {"connecting", "exchanging", "acquired", "finishing"}
Reading == {"reading", "judging", "joining"}

\* What each step knows of the lookup, and a request that has not ended of its outcome.
StepInv ==
    /\ step = "claimed" => mine \in Lookups /\ thread[mine] = "claimed" /\ mine \notin freed
    /\ step = "waiting" => mine \in Lookups /\ thread[mine] \in {"running", "answered"}
    /\ step \notin {"claimed", "waiting"} => mine = None
    /\ \A l \in Lookups : thread[l] = "claimed" => step = "claimed" /\ l = mine
    /\ goal = "connect" => step \in Waits
    /\ step \notin {"idle", "joining"} => outcome = "none"
    /\ listing # "requesting" => step = "idle"

\* Each redirect pays for one attempt, and retries for the others.
AttemptInv ==
    /\ attempt <= MaxRetries + redirects + 1
    /\ (step \in Waits /\ goal = "check") \/ step \in {"attempting", "pausing", "resuming"}
         => attempt <= MaxRetries + redirects

\* The guard and the watchdog live in their parts of the request, and end with a join.
TimerInv ==
    /\ guard # "off" \/ acqExpired => step \in Acquiring \/ goal = "connect"
    /\ finished <=> step = "finishing"
    /\ step = "finishing" => guard # "armed"
    /\ watchdog # "off" \/ readExpired \/ released => step \in Reading
    /\ watchdog = "aborting" => readExpired /\ ~released
    /\ step = "reading" => ~released

\* A request has at most the one socket that its timers aim at, until it is given back.
SocketInv ==
    /\ \A k \in Sockets : owner[k] = "mine" => socket = k
    /\ socket # None => step \in {"exchanging", "acquired", "finishing", "responded"} \cup Reading
    /\ socket # None /\ ~released => owner[socket] = "mine"
    /\ \A k \in Sockets : owner[k] = "none" => k \notin cut

\* A body is cut short only after the watchdog has said so.
BodyInv == step = "judging" /\ body = "short" => readExpired

\* After the end of the scan the first attempt starts no new page, and only redirects others.
EndInv ==
    /\ attemptsAfter > 0 =>
         /\ Over
         /\ listing \in {"requesting"} \cup Ended
         /\ step \notin {"resuming"} \cup Reading
         /\ step = "idle" => outcome = "error"
         /\ attemptsAfter <= redirects + 1
         /\ (step \in Waits /\ goal = "check") \/ step = "attempting" => attemptsAfter <= redirects
    /\ resultsAfter > 0 => Over /\ step \notin {"reading", "judging"}

\* The pages delivered so far lead to the page that is next, which is not among them.
ListingInv ==
    /\ listing \in {"ready", "open", "requesting", "yielding"} =>
         /\ FirstPage \in delivered \cup {page}
         /\ \A p \in delivered : link[p] \in delivered \cup {page}
    /\ listing \in {"requesting", "yielding"} => pages < MaxPages
    /\ listing = "ready" => delivered = {} /\ page = FirstPage
    /\ kind = "link" => /\ delivered \subseteq seen
                        /\ listing \in {"requesting", "yielding"} => page \in seen \ delivered
    /\ kind = "token" => /\ FirstPage \notin seen /\ \A p \in Pages : link[p] # FirstPage
                         /\ delivered \subseteq seen \cup {FirstPage}
                         /\ listing \notin Ended => page \in (seen \cup {FirstPage}) \ delivered
    /\ listing = "yielding" => link[page] # Unknown

IInv ==
    /\ TypeOK
    /\ StepInv /\ AttemptInv /\ TimerInv /\ SocketInv /\ BodyInv /\ EndInv /\ ListingInv
    /\ SlotsReturnOnce /\ OwnShutdown /\ WholeBody /\ EndRespected /\ ListingSound

----------------------------------------------------------------------------
(* Proofs *)

\* Nothing has begun: every part holds.
LEMMA InvariantInit == Init => IInv
<1> SUFFICES ASSUME Init PROVE IInv
  OBVIOUS
<1> USE LimitsAssumption, PagesAssumption, SocketsAssumption DEF Init, HttpInit, Ended, Waits,
            Steps
<1>1. TypeOK
  <2>1. FlagsTypeOK
    BY Zenon DEF FlagsTypeOK
  <2>2. HttpTypeOK
    BY <2>1 DEF HttpTypeOK, Responses, Bodies, Outcomes, Owners
  <2>3. ListingTypeOK /\ NothingLeft
    BY DEF ListingTypeOK, NothingLeft
  <2> QED
    BY <2>1, <2>2, <2>3 DEF TypeOK
<1>2. StepInv /\ AttemptInv
  BY DEF StepInv, AttemptInv
<1>3. TimerInv
  BY DEF TimerInv
<1>4. SocketInv /\ OwnShutdown /\ BodyInv /\ WholeBody
  BY DEF SocketInv, OwnShutdown, BodyInv, WholeBody
<1>5. EndInv /\ EndRespected
  BY DEF EndInv, EndRespected
<1>6. ListingInv /\ ListingSound
  BY DEF ListingInv, ListingSound
<1>7. SlotsReturnOnce
  <2>1. {l \in Lookups : thread[l] # "none" /\ l \notin freed} = {}
    OBVIOUS
  <2> QED
    BY <2>1, FS_EmptySet DEF SlotsReturnOnce
<1> QED
  BY <1>1, <1>2, <1>3, <1>4, <1>5, <1>6, <1>7 DEF IInv

\* Every action keeps the flags' type.
LEMMA FlagsStep == FlagsTypeOK /\ [Next]_vars => FlagsTypeOK'
<1> SUFFICES ASSUME FlagsTypeOK, [Next]_vars PROVE FlagsTypeOK'
  OBVIOUS
<1> USE DEF Waits, Steps, Responses, Bodies, Outcomes, Owners, Ended, Acquiring, Reading, Move,
            Over, progressVars, replyVars, scanVars, resolverVars, poolVars, guardVars,
            watchdogVars, timerVars, auxVars, aroundVars, requestVars, httpVars, listingVars,
            FlagsTypeOK
<1>1. ASSUME RefuseLookup, UNCHANGED listingVars PROVE FlagsTypeOK'
  BY Zenon, <1>1 DEF RefuseLookup, LookupFails, Raise
<1>2. ASSUME GiveSlotBack, UNCHANGED listingVars PROVE FlagsTypeOK'
  BY Zenon, <1>2 DEF GiveSlotBack, LookupFails, Raise, FreeSlot
<1>3. ASSUME StartThread, UNCHANGED listingVars PROVE FlagsTypeOK'
  BY Zenon, <1>3 DEF StartThread
<1>4. ASSUME StartInterrupted, UNCHANGED listingVars PROVE FlagsTypeOK'
  BY Zenon, <1>4 DEF StartInterrupted, LookupFails, Raise, FreeSlot
<1>5. ASSUME TakeAnswer, UNCHANGED listingVars PROVE FlagsTypeOK'
  BY Zenon, <1>5 DEF TakeAnswer, LookupFails, Raise
<1>6. ASSUME StopWaiting, UNCHANGED listingVars PROVE FlagsTypeOK'
  BY Zenon, <1>6 DEF StopWaiting, LookupFails, Raise
<1>7. ASSUME NewConnection, UNCHANGED listingVars PROVE FlagsTypeOK'
  BY Zenon, <1>7 DEF NewConnection, StartAttempt, ArmGuard
<1>8. ASSUME AttemptFails, UNCHANGED listingVars PROVE FlagsTypeOK'
  BY Zenon, <1>8 DEF AttemptFails
<1>9. ASSUME FinishGuard, UNCHANGED listingVars PROVE FlagsTypeOK'
  BY Zenon, <1>9 DEF FinishGuard
<1>10. ASSUME AcceptResponse, UNCHANGED listingVars PROVE FlagsTypeOK'
  BY Zenon, <1>10 DEF AcceptResponse, DropGuard
<1>11. ASSUME RejectResponse, UNCHANGED listingVars PROVE FlagsTypeOK'
  BY Zenon, <1>11 DEF RejectResponse, DropGuard, Raise, CloseSocket
<1>12. ASSUME FollowRedirect, UNCHANGED listingVars PROVE FlagsTypeOK'
  BY Zenon, <1>12 DEF FollowRedirect, CloseSocket
<1>13. ASSUME TryAgain, UNCHANGED listingVars PROVE FlagsTypeOK'
  BY Zenon, <1>13 DEF TryAgain, CloseSocket
<1>14. ASSUME RaiseStatus, UNCHANGED listingVars PROVE FlagsTypeOK'
  BY Zenon, <1>14 DEF RaiseStatus, Raise, CloseSocket
<1>15. ASSUME Pause, UNCHANGED listingVars PROVE FlagsTypeOK'
  BY Zenon, <1>15 DEF Pause
<1>16. ASSUME GiveUpRetry, UNCHANGED listingVars PROVE FlagsTypeOK'
  BY Zenon, <1>16 DEF GiveUpRetry, Raise
<1>17. ASSUME Retry, UNCHANGED listingVars PROVE FlagsTypeOK'
  BY Zenon, <1>17 DEF Retry
<1>18. ASSUME StartReading, UNCHANGED listingVars PROVE FlagsTypeOK'
  BY Zenon, <1>18 DEF StartReading
<1>19. ASSUME RefuseBody, UNCHANGED listingVars PROVE FlagsTypeOK'
  BY Zenon, <1>19 DEF RefuseBody, Raise, CloseSocket
<1>20. ASSUME ReadInterrupted, UNCHANGED listingVars PROVE FlagsTypeOK'
  BY Zenon, <1>20 DEF ReadInterrupted, StopReading
<1>21. ASSUME Judge, UNCHANGED listingVars PROVE FlagsTypeOK'
  BY Zenon, <1>21 DEF Judge
<1>22. ASSUME JoinWatchdog, UNCHANGED listingVars PROVE FlagsTypeOK'
  BY Zenon, <1>22 DEF JoinWatchdog, CloseSocket
<1>23. ASSUME NEW l \in Lookups, ClaimSlot(l), UNCHANGED listingVars PROVE FlagsTypeOK'
  BY Zenon, <1>23 DEF ClaimSlot, Claim
<1>24. ASSUME NEW k \in Sockets, ReuseSocket(k), UNCHANGED listingVars PROVE FlagsTypeOK'
  BY Zenon, <1>24 DEF ReuseSocket, StartAttempt, ArmGuard
<1>25. ASSUME NEW k \in Sockets, Connect(k), UNCHANGED listingVars PROVE FlagsTypeOK'
  BY Zenon, <1>25 DEF Connect
<1>26. ASSUME GetResponse, UNCHANGED listingVars PROVE FlagsTypeOK'
  BY Zenon, <1>26 DEF GetResponse
<1>27. ASSUME BodyEnds, UNCHANGED listingVars PROVE FlagsTypeOK'
  BY Zenon, <1>27 DEF BodyEnds, EndBody
<1>28. ASSUME ShortBodyEnds, UNCHANGED listingVars PROVE FlagsTypeOK'
  BY Zenon, <1>28 DEF ShortBodyEnds, EndBody
<1>29. ASSUME StopReading, UNCHANGED listingVars PROVE FlagsTypeOK'
  BY Zenon, <1>29 DEF StopReading
<1>30. ASSUME GuardFires, UNCHANGED listingVars PROVE FlagsTypeOK'
  BY Zenon, <1>30 DEF GuardFires
<1>31. ASSUME GuardAborts, UNCHANGED listingVars PROVE FlagsTypeOK'
  BY Zenon, <1>31 DEF GuardAborts
<1>32. ASSUME WatchdogFires, UNCHANGED listingVars PROVE FlagsTypeOK'
  BY Zenon, <1>32 DEF WatchdogFires
<1>33. ASSUME WatchdogAborts, UNCHANGED listingVars PROVE FlagsTypeOK'
  BY Zenon, <1>33 DEF WatchdogAborts
<1>34. ASSUME WatchdogShuts, UNCHANGED listingVars PROVE FlagsTypeOK'
  BY Zenon, <1>34 DEF WatchdogShuts
<1>35. ASSUME NEW l \in Lookups, Answer(l), UNCHANGED listingVars PROVE FlagsTypeOK'
  BY Zenon, <1>35 DEF Answer
<1>36. ASSUME NEW l \in Lookups, EndThread(l), UNCHANGED listingVars PROVE FlagsTypeOK'
  BY Zenon, <1>36 DEF EndThread, FreeSlot
<1>37. ASSUME NEW l \in Lookups, OtherLookup(l), UNCHANGED listingVars PROVE FlagsTypeOK'
  BY Zenon, <1>37 DEF OtherLookup
<1>38. ASSUME NEW k \in Sockets, OtherUses(k), UNCHANGED listingVars PROVE FlagsTypeOK'
  BY Zenon, <1>38 DEF OtherUses
<1>39. ASSUME NEW k \in Sockets, PoolDrops(k), UNCHANGED listingVars PROVE FlagsTypeOK'
  BY Zenon, <1>39 DEF PoolDrops
<1>40. ASSUME PassDeadlineOrCancel, UNCHANGED listingVars PROVE FlagsTypeOK'
  BY Zenon, <1>40 DEF PassDeadlineOrCancel
<1>41. CASE OpenListing
  BY Zenon, <1>41 DEF OpenListing
<1>42. CASE RequestPage
  BY Zenon, <1>42 DEF RequestPage, Begin
<1>43. CASE RefusePage
  BY Zenon, <1>43 DEF RefusePage, Fail
<1>44. CASE ReachLimit
  BY Zenon, <1>44 DEF ReachLimit, Fail
<1>45. CASE PageFails
  BY Zenon, <1>45 DEF PageFails, Fail
<1>46. CASE TakePage
  BY Zenon, <1>46 DEF TakePage
<1>47. CASE DeliverPage
  BY Zenon, <1>47 DEF DeliverPage
<1>48. CASE DropListing
  BY Zenon, <1>48 DEF DropListing
<1>49. CASE UNCHANGED vars
  BY Zenon, <1>49 DEF vars
<1> QED
  BY Zenon, <1>1, <1>2, <1>3, <1>4, <1>5, <1>6, <1>7, <1>8, <1>9, <1>10, <1>11, <1>12,
     <1>13, <1>14, <1>15, <1>16, <1>17, <1>18, <1>19, <1>20, <1>21, <1>22, <1>23, <1>24,
     <1>25, <1>26, <1>27, <1>28, <1>29, <1>30, <1>31, <1>32, <1>33, <1>34, <1>35, <1>36,
     <1>37, <1>38, <1>39, <1>40, <1>41, <1>42, <1>43, <1>44, <1>45, <1>46, <1>47, <1>48,
     <1>49
     DEF Next, HttpNext, OwnStep, ServerStep, TimerStep, RestStep

\* Every action keeps the types of the request.
LEMMA RequestTypeStep == HttpTypeOK /\ StepInv /\ AttemptInv /\ [Next]_vars => HttpTypeOK'
<1> SUFFICES ASSUME HttpTypeOK /\ StepInv /\ AttemptInv, [Next]_vars PROVE HttpTypeOK'
  OBVIOUS
<1>0. FlagsTypeOK'
  BY FlagsStep DEF HttpTypeOK
<1> USE <1>0, LimitsAssumption DEF Waits, Steps, Responses, Bodies, Outcomes, Owners, Ended,
            Acquiring, Reading, Move, Over, progressVars, replyVars, scanVars, resolverVars,
            poolVars, guardVars, watchdogVars, timerVars, auxVars, aroundVars, requestVars,
            httpVars, listingVars, HttpTypeOK, StepInv, AttemptInv
<1>1. ASSUME RefuseLookup, UNCHANGED listingVars PROVE HttpTypeOK'
  BY <1>1 DEF RefuseLookup, LookupFails, Raise
<1>2. ASSUME GiveSlotBack, UNCHANGED listingVars PROVE HttpTypeOK'
  BY <1>2 DEF GiveSlotBack, LookupFails, Raise, FreeSlot
<1>3. ASSUME StartThread, UNCHANGED listingVars PROVE HttpTypeOK'
  BY <1>3 DEF StartThread
<1>4. ASSUME StartInterrupted, UNCHANGED listingVars PROVE HttpTypeOK'
  BY <1>4 DEF StartInterrupted, LookupFails, Raise, FreeSlot
<1>5. ASSUME TakeAnswer, UNCHANGED listingVars PROVE HttpTypeOK'
  BY <1>5 DEF TakeAnswer, LookupFails, Raise
<1>6. ASSUME StopWaiting, UNCHANGED listingVars PROVE HttpTypeOK'
  BY <1>6 DEF StopWaiting, LookupFails, Raise
<1>7. ASSUME NewConnection, UNCHANGED listingVars PROVE HttpTypeOK'
  BY <1>7 DEF NewConnection, StartAttempt, ArmGuard
<1>8. ASSUME AttemptFails, UNCHANGED listingVars PROVE HttpTypeOK'
  BY <1>8 DEF AttemptFails
<1>9. ASSUME FinishGuard, UNCHANGED listingVars PROVE HttpTypeOK'
  BY <1>9 DEF FinishGuard
<1>10. ASSUME AcceptResponse, UNCHANGED listingVars PROVE HttpTypeOK'
  BY <1>10 DEF AcceptResponse, DropGuard
<1>11. ASSUME RejectResponse, UNCHANGED listingVars PROVE HttpTypeOK'
  BY <1>11 DEF RejectResponse, DropGuard, Raise, CloseSocket
<1>12. ASSUME FollowRedirect, UNCHANGED listingVars PROVE HttpTypeOK'
  BY <1>12 DEF FollowRedirect, CloseSocket
<1>13. ASSUME TryAgain, UNCHANGED listingVars PROVE HttpTypeOK'
  BY <1>13 DEF TryAgain, CloseSocket
<1>14. ASSUME RaiseStatus, UNCHANGED listingVars PROVE HttpTypeOK'
  BY <1>14 DEF RaiseStatus, Raise, CloseSocket
<1>15. ASSUME Pause, UNCHANGED listingVars PROVE HttpTypeOK'
  BY <1>15 DEF Pause
<1>16. ASSUME GiveUpRetry, UNCHANGED listingVars PROVE HttpTypeOK'
  BY <1>16 DEF GiveUpRetry, Raise
<1>17. ASSUME Retry, UNCHANGED listingVars PROVE HttpTypeOK'
  BY <1>17 DEF Retry
<1>18. ASSUME StartReading, UNCHANGED listingVars PROVE HttpTypeOK'
  BY <1>18 DEF StartReading
<1>19. ASSUME RefuseBody, UNCHANGED listingVars PROVE HttpTypeOK'
  BY <1>19 DEF RefuseBody, Raise, CloseSocket
<1>20. ASSUME ReadInterrupted, UNCHANGED listingVars PROVE HttpTypeOK'
  BY <1>20 DEF ReadInterrupted, StopReading
<1>21. ASSUME Judge, UNCHANGED listingVars PROVE HttpTypeOK'
  BY <1>21 DEF Judge
<1>22. ASSUME JoinWatchdog, UNCHANGED listingVars PROVE HttpTypeOK'
  BY <1>22 DEF JoinWatchdog, CloseSocket
<1>23. ASSUME NEW l \in Lookups, ClaimSlot(l), UNCHANGED listingVars PROVE HttpTypeOK'
  BY <1>23 DEF ClaimSlot, Claim
<1>24. ASSUME NEW k \in Sockets, ReuseSocket(k), UNCHANGED listingVars PROVE HttpTypeOK'
  BY <1>24 DEF ReuseSocket, StartAttempt, ArmGuard
<1>25. ASSUME NEW k \in Sockets, Connect(k), UNCHANGED listingVars PROVE HttpTypeOK'
  BY <1>25 DEF Connect
<1>26. ASSUME GetResponse, UNCHANGED listingVars PROVE HttpTypeOK'
  BY <1>26 DEF GetResponse
<1>27. ASSUME BodyEnds, UNCHANGED listingVars PROVE HttpTypeOK'
  <2>1. PICK to \in {"pooled", "none"} : EndBody("whole", to)
    BY <1>27 DEF BodyEnds
  <2>2. owner' \in [Sockets -> Owners]
    BY <2>1 DEF EndBody
  <2> QED
    BY <2>1, <2>2 DEF EndBody
<1>28. ASSUME ShortBodyEnds, UNCHANGED listingVars PROVE HttpTypeOK'
  BY <1>28 DEF ShortBodyEnds, EndBody
<1>29. ASSUME StopReading, UNCHANGED listingVars PROVE HttpTypeOK'
  BY <1>29 DEF StopReading
<1>30. ASSUME GuardFires, UNCHANGED listingVars PROVE HttpTypeOK'
  BY <1>30 DEF GuardFires
<1>31. ASSUME GuardAborts, UNCHANGED listingVars PROVE HttpTypeOK'
  BY <1>31 DEF GuardAborts
<1>32. ASSUME WatchdogFires, UNCHANGED listingVars PROVE HttpTypeOK'
  BY <1>32 DEF WatchdogFires
<1>33. ASSUME WatchdogAborts, UNCHANGED listingVars PROVE HttpTypeOK'
  BY <1>33 DEF WatchdogAborts
<1>34. ASSUME WatchdogShuts, UNCHANGED listingVars PROVE HttpTypeOK'
  BY <1>34 DEF WatchdogShuts
<1>35. ASSUME NEW l \in Lookups, Answer(l), UNCHANGED listingVars PROVE HttpTypeOK'
  BY <1>35 DEF Answer
<1>36. ASSUME NEW l \in Lookups, EndThread(l), UNCHANGED listingVars PROVE HttpTypeOK'
  BY <1>36 DEF EndThread, FreeSlot
<1>37. ASSUME NEW l \in Lookups, OtherLookup(l), UNCHANGED listingVars PROVE HttpTypeOK'
  BY <1>37 DEF OtherLookup
<1>38. ASSUME NEW k \in Sockets, OtherUses(k), UNCHANGED listingVars PROVE HttpTypeOK'
  BY <1>38 DEF OtherUses
<1>39. ASSUME NEW k \in Sockets, PoolDrops(k), UNCHANGED listingVars PROVE HttpTypeOK'
  BY <1>39 DEF PoolDrops
<1>40. ASSUME PassDeadlineOrCancel, UNCHANGED listingVars PROVE HttpTypeOK'
  BY <1>40 DEF PassDeadlineOrCancel
<1>41. CASE OpenListing
  BY <1>41 DEF OpenListing
<1>42. CASE RequestPage
  BY <1>42 DEF RequestPage, Begin
<1>43. CASE RefusePage
  BY <1>43 DEF RefusePage, Fail
<1>44. CASE ReachLimit
  BY <1>44 DEF ReachLimit, Fail
<1>45. CASE PageFails
  BY <1>45 DEF PageFails, Fail
<1>46. CASE TakePage
  BY <1>46 DEF TakePage
<1>47. CASE DeliverPage
  BY <1>47 DEF DeliverPage
<1>48. CASE DropListing
  BY <1>48 DEF DropListing
<1>49. CASE UNCHANGED vars
  BY <1>49 DEF vars
<1> QED
  BY <1>1, <1>2, <1>3, <1>4, <1>5, <1>6, <1>7, <1>8, <1>9, <1>10, <1>11, <1>12,
     <1>13, <1>14, <1>15, <1>16, <1>17, <1>18, <1>19, <1>20, <1>21, <1>22, <1>23, <1>24,
     <1>25, <1>26, <1>27, <1>28, <1>29, <1>30, <1>31, <1>32, <1>33, <1>34, <1>35, <1>36,
     <1>37, <1>38, <1>39, <1>40, <1>41, <1>42, <1>43, <1>44, <1>45, <1>46, <1>47, <1>48,
     <1>49
     DEF Next, HttpNext, OwnStep, ServerStep, TimerStep, RestStep

\* A request that ends leaves nothing behind.
LEMMA QuietStep ==
    HttpTypeOK /\ NothingLeft /\ StepInv /\ TimerInv /\ SocketInv /\ [Next]_vars
      => NothingLeft'
<1> SUFFICES ASSUME HttpTypeOK /\ NothingLeft /\ StepInv /\ TimerInv /\ SocketInv,
                    [Next]_vars
             PROVE  NothingLeft'
  OBVIOUS
<1> USE SocketsAssumption DEF Waits, Steps, Responses, Bodies, Outcomes, Owners, Ended,
            Acquiring, Reading, Move, Over, progressVars, replyVars, scanVars, resolverVars,
            poolVars, guardVars, watchdogVars, timerVars, auxVars, aroundVars, requestVars,
            httpVars, listingVars, HttpTypeOK, NothingLeft, StepInv, TimerInv, SocketInv
<1>1. ASSUME RefuseLookup, UNCHANGED listingVars PROVE NothingLeft'
  BY <1>1 DEF RefuseLookup, LookupFails, Raise
<1>2. ASSUME GiveSlotBack, UNCHANGED listingVars PROVE NothingLeft'
  BY <1>2 DEF GiveSlotBack, LookupFails, Raise, FreeSlot
<1>3. ASSUME StartThread, UNCHANGED listingVars PROVE NothingLeft'
  BY <1>3 DEF StartThread
<1>4. ASSUME StartInterrupted, UNCHANGED listingVars PROVE NothingLeft'
  BY <1>4 DEF StartInterrupted, LookupFails, Raise, FreeSlot
<1>5. ASSUME TakeAnswer, UNCHANGED listingVars PROVE NothingLeft'
  BY <1>5 DEF TakeAnswer, LookupFails, Raise
<1>6. ASSUME StopWaiting, UNCHANGED listingVars PROVE NothingLeft'
  BY <1>6 DEF StopWaiting, LookupFails, Raise
<1>7. ASSUME NewConnection, UNCHANGED listingVars PROVE NothingLeft'
  BY <1>7 DEF NewConnection, StartAttempt, ArmGuard
<1>8. ASSUME AttemptFails, UNCHANGED listingVars PROVE NothingLeft'
  BY <1>8 DEF AttemptFails
<1>9. ASSUME FinishGuard, UNCHANGED listingVars PROVE NothingLeft'
  BY <1>9 DEF FinishGuard
<1>10. ASSUME AcceptResponse, UNCHANGED listingVars PROVE NothingLeft'
  BY <1>10 DEF AcceptResponse, DropGuard
<1>11. ASSUME RejectResponse, UNCHANGED listingVars PROVE NothingLeft'
  BY <1>11 DEF RejectResponse, DropGuard, Raise, CloseSocket
<1>12. ASSUME FollowRedirect, UNCHANGED listingVars PROVE NothingLeft'
  BY <1>12 DEF FollowRedirect, CloseSocket
<1>13. ASSUME TryAgain, UNCHANGED listingVars PROVE NothingLeft'
  BY <1>13 DEF TryAgain, CloseSocket
<1>14. ASSUME RaiseStatus, UNCHANGED listingVars PROVE NothingLeft'
  BY <1>14 DEF RaiseStatus, Raise, CloseSocket
<1>15. ASSUME Pause, UNCHANGED listingVars PROVE NothingLeft'
  BY <1>15 DEF Pause
<1>16. ASSUME GiveUpRetry, UNCHANGED listingVars PROVE NothingLeft'
  BY <1>16 DEF GiveUpRetry, Raise
<1>17. ASSUME Retry, UNCHANGED listingVars PROVE NothingLeft'
  BY <1>17 DEF Retry
<1>18. ASSUME StartReading, UNCHANGED listingVars PROVE NothingLeft'
  BY <1>18 DEF StartReading
<1>19. ASSUME RefuseBody, UNCHANGED listingVars PROVE NothingLeft'
  BY <1>19 DEF RefuseBody, Raise, CloseSocket
<1>20. ASSUME ReadInterrupted, UNCHANGED listingVars PROVE NothingLeft'
  BY <1>20 DEF ReadInterrupted, StopReading
<1>21. ASSUME Judge, UNCHANGED listingVars PROVE NothingLeft'
  BY <1>21 DEF Judge
<1>22. ASSUME JoinWatchdog, UNCHANGED listingVars PROVE NothingLeft'
  BY <1>22 DEF JoinWatchdog, CloseSocket
<1>23. ASSUME NEW l \in Lookups, ClaimSlot(l), UNCHANGED listingVars PROVE NothingLeft'
  BY <1>23 DEF ClaimSlot, Claim
<1>24. ASSUME NEW k \in Sockets, ReuseSocket(k), UNCHANGED listingVars PROVE NothingLeft'
  BY <1>24 DEF ReuseSocket, StartAttempt, ArmGuard
<1>25. ASSUME NEW k \in Sockets, Connect(k), UNCHANGED listingVars PROVE NothingLeft'
  BY <1>25 DEF Connect
<1>26. ASSUME GetResponse, UNCHANGED listingVars PROVE NothingLeft'
  BY <1>26 DEF GetResponse
<1>27. ASSUME BodyEnds, UNCHANGED listingVars PROVE NothingLeft'
  BY <1>27 DEF BodyEnds, EndBody
<1>28. ASSUME ShortBodyEnds, UNCHANGED listingVars PROVE NothingLeft'
  BY <1>28 DEF ShortBodyEnds, EndBody
<1>29. ASSUME StopReading, UNCHANGED listingVars PROVE NothingLeft'
  BY <1>29 DEF StopReading
<1>30. ASSUME GuardFires, UNCHANGED listingVars PROVE NothingLeft'
  BY <1>30 DEF GuardFires
<1>31. ASSUME GuardAborts, UNCHANGED listingVars PROVE NothingLeft'
  BY <1>31 DEF GuardAborts
<1>32. ASSUME WatchdogFires, UNCHANGED listingVars PROVE NothingLeft'
  BY <1>32 DEF WatchdogFires
<1>33. ASSUME WatchdogAborts, UNCHANGED listingVars PROVE NothingLeft'
  BY <1>33 DEF WatchdogAborts
<1>34. ASSUME WatchdogShuts, UNCHANGED listingVars PROVE NothingLeft'
  BY <1>34 DEF WatchdogShuts
<1>35. ASSUME NEW l \in Lookups, Answer(l), UNCHANGED listingVars PROVE NothingLeft'
  BY <1>35 DEF Answer
<1>36. ASSUME NEW l \in Lookups, EndThread(l), UNCHANGED listingVars PROVE NothingLeft'
  BY <1>36 DEF EndThread, FreeSlot
<1>37. ASSUME NEW l \in Lookups, OtherLookup(l), UNCHANGED listingVars PROVE NothingLeft'
  BY <1>37 DEF OtherLookup
<1>38. ASSUME NEW k \in Sockets, OtherUses(k), UNCHANGED listingVars PROVE NothingLeft'
  BY <1>38 DEF OtherUses
<1>39. ASSUME NEW k \in Sockets, PoolDrops(k), UNCHANGED listingVars PROVE NothingLeft'
  BY <1>39 DEF PoolDrops
<1>40. ASSUME PassDeadlineOrCancel, UNCHANGED listingVars PROVE NothingLeft'
  BY <1>40 DEF PassDeadlineOrCancel
<1>41. CASE OpenListing
  BY <1>41 DEF OpenListing
<1>42. CASE RequestPage
  BY <1>42 DEF RequestPage, Begin
<1>43. CASE RefusePage
  BY <1>43 DEF RefusePage, Fail
<1>44. CASE ReachLimit
  BY <1>44 DEF ReachLimit, Fail
<1>45. CASE PageFails
  BY <1>45 DEF PageFails, Fail
<1>46. CASE TakePage
  BY <1>46 DEF TakePage
<1>47. CASE DeliverPage
  BY <1>47 DEF DeliverPage
<1>48. CASE DropListing
  BY <1>48 DEF DropListing
<1>49. CASE UNCHANGED vars
  BY <1>49 DEF vars
<1> QED
  BY <1>1, <1>2, <1>3, <1>4, <1>5, <1>6, <1>7, <1>8, <1>9, <1>10, <1>11, <1>12,
     <1>13, <1>14, <1>15, <1>16, <1>17, <1>18, <1>19, <1>20, <1>21, <1>22, <1>23, <1>24,
     <1>25, <1>26, <1>27, <1>28, <1>29, <1>30, <1>31, <1>32, <1>33, <1>34, <1>35, <1>36,
     <1>37, <1>38, <1>39, <1>40, <1>41, <1>42, <1>43, <1>44, <1>45, <1>46, <1>47, <1>48,
     <1>49
     DEF Next, HttpNext, OwnStep, ServerStep, TimerStep, RestStep

\* Every action keeps what each step of a request knows of its lookup and timers.
LEMMA RequestStep ==
    HttpTypeOK /\ StepInv /\ AttemptInv /\ TimerInv /\ [Next]_vars
      => StepInv' /\ AttemptInv' /\ TimerInv'
<1> SUFFICES ASSUME HttpTypeOK /\ StepInv /\ AttemptInv /\ TimerInv,
                    [Next]_vars
             PROVE  StepInv' /\ AttemptInv' /\ TimerInv'
  OBVIOUS
<1> USE LimitsAssumption, LookupsAssumption DEF Waits, Steps, Responses, Bodies, Outcomes,
            Owners, Ended, Acquiring, Reading, Move, Over, progressVars, replyVars, scanVars,
            resolverVars, poolVars, guardVars, watchdogVars, timerVars, auxVars, aroundVars,
            requestVars, httpVars, listingVars, HttpTypeOK, StepInv, AttemptInv, TimerInv
<1>1. ASSUME RefuseLookup, UNCHANGED listingVars PROVE StepInv' /\ AttemptInv' /\ TimerInv'
  BY <1>1 DEF RefuseLookup, LookupFails, Raise
<1>2. ASSUME GiveSlotBack, UNCHANGED listingVars PROVE StepInv' /\ AttemptInv' /\ TimerInv'
  BY <1>2 DEF GiveSlotBack, LookupFails, Raise, FreeSlot
<1>3. ASSUME StartThread, UNCHANGED listingVars PROVE StepInv' /\ AttemptInv' /\ TimerInv'
  BY <1>3 DEF StartThread
<1>4. ASSUME StartInterrupted, UNCHANGED listingVars PROVE StepInv' /\ AttemptInv' /\ TimerInv'
  BY <1>4 DEF StartInterrupted, LookupFails, Raise, FreeSlot
<1>5. ASSUME TakeAnswer, UNCHANGED listingVars PROVE StepInv' /\ AttemptInv' /\ TimerInv'
  BY <1>5 DEF TakeAnswer, LookupFails, Raise
<1>6. ASSUME StopWaiting, UNCHANGED listingVars PROVE StepInv' /\ AttemptInv' /\ TimerInv'
  BY <1>6 DEF StopWaiting, LookupFails, Raise
<1>7. ASSUME NewConnection, UNCHANGED listingVars PROVE StepInv' /\ AttemptInv' /\ TimerInv'
  BY <1>7 DEF NewConnection, StartAttempt, ArmGuard
<1>8. ASSUME AttemptFails, UNCHANGED listingVars PROVE StepInv' /\ AttemptInv' /\ TimerInv'
  BY <1>8 DEF AttemptFails
<1>9. ASSUME FinishGuard, UNCHANGED listingVars PROVE StepInv' /\ AttemptInv' /\ TimerInv'
  BY <1>9 DEF FinishGuard
<1>10. ASSUME AcceptResponse, UNCHANGED listingVars PROVE StepInv' /\ AttemptInv' /\ TimerInv'
  BY <1>10 DEF AcceptResponse, DropGuard
<1>11. ASSUME RejectResponse, UNCHANGED listingVars PROVE StepInv' /\ AttemptInv' /\ TimerInv'
  BY <1>11 DEF RejectResponse, DropGuard, Raise, CloseSocket
<1>12. ASSUME FollowRedirect, UNCHANGED listingVars PROVE StepInv' /\ AttemptInv' /\ TimerInv'
  BY <1>12 DEF FollowRedirect, CloseSocket
<1>13. ASSUME TryAgain, UNCHANGED listingVars PROVE StepInv' /\ AttemptInv' /\ TimerInv'
  BY <1>13 DEF TryAgain, CloseSocket
<1>14. ASSUME RaiseStatus, UNCHANGED listingVars PROVE StepInv' /\ AttemptInv' /\ TimerInv'
  BY <1>14 DEF RaiseStatus, Raise, CloseSocket
<1>15. ASSUME Pause, UNCHANGED listingVars PROVE StepInv' /\ AttemptInv' /\ TimerInv'
  BY <1>15 DEF Pause
<1>16. ASSUME GiveUpRetry, UNCHANGED listingVars PROVE StepInv' /\ AttemptInv' /\ TimerInv'
  BY <1>16 DEF GiveUpRetry, Raise
<1>17. ASSUME Retry, UNCHANGED listingVars PROVE StepInv' /\ AttemptInv' /\ TimerInv'
  BY <1>17 DEF Retry
<1>18. ASSUME StartReading, UNCHANGED listingVars PROVE StepInv' /\ AttemptInv' /\ TimerInv'
  BY <1>18 DEF StartReading
<1>19. ASSUME RefuseBody, UNCHANGED listingVars PROVE StepInv' /\ AttemptInv' /\ TimerInv'
  BY <1>19 DEF RefuseBody, Raise, CloseSocket
<1>20. ASSUME ReadInterrupted, UNCHANGED listingVars PROVE StepInv' /\ AttemptInv' /\ TimerInv'
  BY <1>20 DEF ReadInterrupted, StopReading
<1>21. ASSUME Judge, UNCHANGED listingVars PROVE StepInv' /\ AttemptInv' /\ TimerInv'
  BY <1>21 DEF Judge
<1>22. ASSUME JoinWatchdog, UNCHANGED listingVars PROVE StepInv' /\ AttemptInv' /\ TimerInv'
  BY <1>22 DEF JoinWatchdog, CloseSocket
<1>23. ASSUME NEW l \in Lookups, ClaimSlot(l), UNCHANGED listingVars PROVE StepInv' /\ AttemptInv'
   /\ TimerInv'
  BY <1>23 DEF ClaimSlot, Claim
<1>24. ASSUME NEW k \in Sockets, ReuseSocket(k), UNCHANGED listingVars PROVE StepInv' /\ AttemptInv'
   /\ TimerInv'
  BY <1>24 DEF ReuseSocket, StartAttempt, ArmGuard
<1>25. ASSUME NEW k \in Sockets, Connect(k), UNCHANGED listingVars PROVE StepInv' /\ AttemptInv' /\
   TimerInv'
  BY <1>25 DEF Connect
<1>26. ASSUME GetResponse, UNCHANGED listingVars PROVE StepInv' /\ AttemptInv' /\ TimerInv'
  BY <1>26 DEF GetResponse
<1>27. ASSUME BodyEnds, UNCHANGED listingVars PROVE StepInv' /\ AttemptInv' /\ TimerInv'
  BY <1>27 DEF BodyEnds, EndBody
<1>28. ASSUME ShortBodyEnds, UNCHANGED listingVars PROVE StepInv' /\ AttemptInv' /\ TimerInv'
  BY <1>28 DEF ShortBodyEnds, EndBody
<1>29. ASSUME StopReading, UNCHANGED listingVars PROVE StepInv' /\ AttemptInv' /\ TimerInv'
  BY <1>29 DEF StopReading
<1>30. ASSUME GuardFires, UNCHANGED listingVars PROVE StepInv' /\ AttemptInv' /\ TimerInv'
  BY <1>30 DEF GuardFires
<1>31. ASSUME GuardAborts, UNCHANGED listingVars PROVE StepInv' /\ AttemptInv' /\ TimerInv'
  BY <1>31 DEF GuardAborts
<1>32. ASSUME WatchdogFires, UNCHANGED listingVars PROVE StepInv' /\ AttemptInv' /\ TimerInv'
  BY <1>32 DEF WatchdogFires
<1>33. ASSUME WatchdogAborts, UNCHANGED listingVars PROVE StepInv' /\ AttemptInv' /\ TimerInv'
  BY <1>33 DEF WatchdogAborts
<1>34. ASSUME WatchdogShuts, UNCHANGED listingVars PROVE StepInv' /\ AttemptInv' /\ TimerInv'
  BY <1>34 DEF WatchdogShuts
<1>35. ASSUME NEW l \in Lookups, Answer(l), UNCHANGED listingVars PROVE StepInv' /\ AttemptInv' /\
   TimerInv'
  BY <1>35 DEF Answer
<1>36. ASSUME NEW l \in Lookups, EndThread(l), UNCHANGED listingVars PROVE StepInv' /\ AttemptInv'
   /\ TimerInv'
  BY <1>36 DEF EndThread, FreeSlot
<1>37. ASSUME NEW l \in Lookups, OtherLookup(l), UNCHANGED listingVars PROVE StepInv' /\ AttemptInv'
   /\ TimerInv'
  BY <1>37 DEF OtherLookup
<1>38. ASSUME NEW k \in Sockets, OtherUses(k), UNCHANGED listingVars PROVE StepInv' /\ AttemptInv'
   /\ TimerInv'
  BY <1>38 DEF OtherUses
<1>39. ASSUME NEW k \in Sockets, PoolDrops(k), UNCHANGED listingVars PROVE StepInv' /\ AttemptInv'
   /\ TimerInv'
  BY <1>39 DEF PoolDrops
<1>40. ASSUME PassDeadlineOrCancel, UNCHANGED listingVars PROVE StepInv' /\ AttemptInv' /\ TimerInv'
  BY <1>40 DEF PassDeadlineOrCancel
<1>41. CASE OpenListing
  BY <1>41 DEF OpenListing
<1>42. CASE RequestPage
  BY <1>42 DEF RequestPage, Begin
<1>43. CASE RefusePage
  BY <1>43 DEF RefusePage, Fail
<1>44. CASE ReachLimit
  BY <1>44 DEF ReachLimit, Fail
<1>45. CASE PageFails
  BY <1>45 DEF PageFails, Fail
<1>46. CASE TakePage
  BY <1>46 DEF TakePage
<1>47. CASE DeliverPage
  BY <1>47 DEF DeliverPage
<1>48. CASE DropListing
  BY <1>48 DEF DropListing
<1>49. CASE UNCHANGED vars
  BY <1>49 DEF vars
<1> QED
  BY <1>1, <1>2, <1>3, <1>4, <1>5, <1>6, <1>7, <1>8, <1>9, <1>10, <1>11, <1>12,
     <1>13, <1>14, <1>15, <1>16, <1>17, <1>18, <1>19, <1>20, <1>21, <1>22, <1>23, <1>24,
     <1>25, <1>26, <1>27, <1>28, <1>29, <1>30, <1>31, <1>32, <1>33, <1>34, <1>35, <1>36,
     <1>37, <1>38, <1>39, <1>40, <1>41, <1>42, <1>43, <1>44, <1>45, <1>46, <1>47, <1>48,
     <1>49
     DEF Next, HttpNext, OwnStep, ServerStep, TimerStep, RestStep

\* Every action keeps what is known of connections.
LEMMA SocketStep ==
    HttpTypeOK /\ StepInv /\ TimerInv /\ SocketInv /\ BodyInv /\ OwnShutdown /\ [Next]_vars
      => SocketInv' /\ BodyInv' /\ OwnShutdown'
<1> SUFFICES ASSUME HttpTypeOK /\ StepInv /\ TimerInv /\ SocketInv /\ BodyInv /\ OwnShutdown,
                    [Next]_vars
             PROVE  SocketInv' /\ BodyInv' /\ OwnShutdown'
  OBVIOUS
<1> USE SocketsAssumption DEF Waits, Steps, Responses, Bodies, Outcomes, Owners, Ended,
            Acquiring, Reading, Move, Over, progressVars, replyVars, scanVars, resolverVars,
            poolVars, guardVars, watchdogVars, timerVars, auxVars, aroundVars, requestVars,
            httpVars, listingVars, HttpTypeOK, StepInv, TimerInv, SocketInv, BodyInv,
            OwnShutdown
<1>1. ASSUME RefuseLookup, UNCHANGED listingVars PROVE SocketInv' /\ BodyInv' /\ OwnShutdown'
  BY <1>1 DEF RefuseLookup, LookupFails, Raise
<1>2. ASSUME GiveSlotBack, UNCHANGED listingVars PROVE SocketInv' /\ BodyInv' /\ OwnShutdown'
  BY <1>2 DEF GiveSlotBack, LookupFails, Raise, FreeSlot
<1>3. ASSUME StartThread, UNCHANGED listingVars PROVE SocketInv' /\ BodyInv' /\ OwnShutdown'
  BY <1>3 DEF StartThread
<1>4. ASSUME StartInterrupted, UNCHANGED listingVars PROVE SocketInv' /\ BodyInv' /\ OwnShutdown'
  BY <1>4 DEF StartInterrupted, LookupFails, Raise, FreeSlot
<1>5. ASSUME TakeAnswer, UNCHANGED listingVars PROVE SocketInv' /\ BodyInv' /\ OwnShutdown'
  BY <1>5 DEF TakeAnswer, LookupFails, Raise
<1>6. ASSUME StopWaiting, UNCHANGED listingVars PROVE SocketInv' /\ BodyInv' /\ OwnShutdown'
  BY <1>6 DEF StopWaiting, LookupFails, Raise
<1>7. ASSUME NewConnection, UNCHANGED listingVars PROVE SocketInv' /\ BodyInv' /\ OwnShutdown'
  BY <1>7 DEF NewConnection, StartAttempt, ArmGuard
<1>8. ASSUME AttemptFails, UNCHANGED listingVars PROVE SocketInv' /\ BodyInv' /\ OwnShutdown'
  BY <1>8 DEF AttemptFails
<1>9. ASSUME FinishGuard, UNCHANGED listingVars PROVE SocketInv' /\ BodyInv' /\ OwnShutdown'
  BY <1>9 DEF FinishGuard
<1>10. ASSUME AcceptResponse, UNCHANGED listingVars PROVE SocketInv' /\ BodyInv' /\ OwnShutdown'
  BY <1>10 DEF AcceptResponse, DropGuard
<1>11. ASSUME RejectResponse, UNCHANGED listingVars PROVE SocketInv' /\ BodyInv' /\ OwnShutdown'
  BY <1>11 DEF RejectResponse, DropGuard, Raise, CloseSocket
<1>12. ASSUME FollowRedirect, UNCHANGED listingVars PROVE SocketInv' /\ BodyInv' /\ OwnShutdown'
  BY <1>12 DEF FollowRedirect, CloseSocket
<1>13. ASSUME TryAgain, UNCHANGED listingVars PROVE SocketInv' /\ BodyInv' /\ OwnShutdown'
  BY <1>13 DEF TryAgain, CloseSocket
<1>14. ASSUME RaiseStatus, UNCHANGED listingVars PROVE SocketInv' /\ BodyInv' /\ OwnShutdown'
  BY <1>14 DEF RaiseStatus, Raise, CloseSocket
<1>15. ASSUME Pause, UNCHANGED listingVars PROVE SocketInv' /\ BodyInv' /\ OwnShutdown'
  BY <1>15 DEF Pause
<1>16. ASSUME GiveUpRetry, UNCHANGED listingVars PROVE SocketInv' /\ BodyInv' /\ OwnShutdown'
  BY <1>16 DEF GiveUpRetry, Raise
<1>17. ASSUME Retry, UNCHANGED listingVars PROVE SocketInv' /\ BodyInv' /\ OwnShutdown'
  BY <1>17 DEF Retry
<1>18. ASSUME StartReading, UNCHANGED listingVars PROVE SocketInv' /\ BodyInv' /\ OwnShutdown'
  BY <1>18 DEF StartReading
<1>19. ASSUME RefuseBody, UNCHANGED listingVars PROVE SocketInv' /\ BodyInv' /\ OwnShutdown'
  BY <1>19 DEF RefuseBody, Raise, CloseSocket
<1>20. ASSUME ReadInterrupted, UNCHANGED listingVars PROVE SocketInv' /\ BodyInv' /\ OwnShutdown'
  BY <1>20 DEF ReadInterrupted, StopReading
<1>21. ASSUME Judge, UNCHANGED listingVars PROVE SocketInv' /\ BodyInv' /\ OwnShutdown'
  BY <1>21 DEF Judge
<1>22. ASSUME JoinWatchdog, UNCHANGED listingVars PROVE SocketInv' /\ BodyInv' /\ OwnShutdown'
  BY <1>22 DEF JoinWatchdog, CloseSocket
<1>23. ASSUME NEW l \in Lookups, ClaimSlot(l), UNCHANGED listingVars PROVE SocketInv' /\ BodyInv' /\
   OwnShutdown'
  BY <1>23 DEF ClaimSlot, Claim
<1>24. ASSUME NEW k \in Sockets, ReuseSocket(k), UNCHANGED listingVars PROVE SocketInv' /\ BodyInv'
   /\ OwnShutdown'
  BY <1>24 DEF ReuseSocket, StartAttempt, ArmGuard
<1>25. ASSUME NEW k \in Sockets, Connect(k), UNCHANGED listingVars PROVE SocketInv' /\ BodyInv' /\
   OwnShutdown'
  BY <1>25 DEF Connect
<1>26. ASSUME GetResponse, UNCHANGED listingVars PROVE SocketInv' /\ BodyInv' /\ OwnShutdown'
  BY <1>26 DEF GetResponse
<1>27. ASSUME BodyEnds, UNCHANGED listingVars PROVE SocketInv' /\ BodyInv' /\ OwnShutdown'
  BY <1>27 DEF BodyEnds, EndBody
<1>28. ASSUME ShortBodyEnds, UNCHANGED listingVars PROVE SocketInv' /\ BodyInv' /\ OwnShutdown'
  BY <1>28 DEF ShortBodyEnds, EndBody
<1>29. ASSUME StopReading, UNCHANGED listingVars PROVE SocketInv' /\ BodyInv' /\ OwnShutdown'
  BY <1>29 DEF StopReading
<1>30. ASSUME GuardFires, UNCHANGED listingVars PROVE SocketInv' /\ BodyInv' /\ OwnShutdown'
  BY <1>30 DEF GuardFires
<1>31. ASSUME GuardAborts, UNCHANGED listingVars PROVE SocketInv' /\ BodyInv' /\ OwnShutdown'
  BY <1>31 DEF GuardAborts
<1>32. ASSUME WatchdogFires, UNCHANGED listingVars PROVE SocketInv' /\ BodyInv' /\ OwnShutdown'
  BY <1>32 DEF WatchdogFires
<1>33. ASSUME WatchdogAborts, UNCHANGED listingVars PROVE SocketInv' /\ BodyInv' /\ OwnShutdown'
  BY <1>33 DEF WatchdogAborts
<1>34. ASSUME WatchdogShuts, UNCHANGED listingVars PROVE SocketInv' /\ BodyInv' /\ OwnShutdown'
  BY <1>34 DEF WatchdogShuts
<1>35. ASSUME NEW l \in Lookups, Answer(l), UNCHANGED listingVars PROVE SocketInv' /\ BodyInv' /\
   OwnShutdown'
  BY <1>35 DEF Answer
<1>36. ASSUME NEW l \in Lookups, EndThread(l), UNCHANGED listingVars PROVE SocketInv' /\ BodyInv' /\
   OwnShutdown'
  BY <1>36 DEF EndThread, FreeSlot
<1>37. ASSUME NEW l \in Lookups, OtherLookup(l), UNCHANGED listingVars PROVE SocketInv' /\ BodyInv'
   /\ OwnShutdown'
  BY <1>37 DEF OtherLookup
<1>38. ASSUME NEW k \in Sockets, OtherUses(k), UNCHANGED listingVars PROVE SocketInv' /\ BodyInv' /\
   OwnShutdown'
  BY <1>38 DEF OtherUses
<1>39. ASSUME NEW k \in Sockets, PoolDrops(k), UNCHANGED listingVars PROVE SocketInv' /\ BodyInv' /\
   OwnShutdown'
  BY <1>39 DEF PoolDrops
<1>40. ASSUME PassDeadlineOrCancel, UNCHANGED listingVars PROVE SocketInv' /\ BodyInv' /\
   OwnShutdown'
  BY <1>40 DEF PassDeadlineOrCancel
<1>41. CASE OpenListing
  BY <1>41 DEF OpenListing
<1>42. CASE RequestPage
  BY <1>42 DEF RequestPage, Begin
<1>43. CASE RefusePage
  BY <1>43 DEF RefusePage, Fail
<1>44. CASE ReachLimit
  BY <1>44 DEF ReachLimit, Fail
<1>45. CASE PageFails
  BY <1>45 DEF PageFails, Fail
<1>46. CASE TakePage
  BY <1>46 DEF TakePage
<1>47. CASE DeliverPage
  BY <1>47 DEF DeliverPage
<1>48. CASE DropListing
  BY <1>48 DEF DropListing
<1>49. CASE UNCHANGED vars
  BY <1>49 DEF vars
<1> QED
  BY <1>1, <1>2, <1>3, <1>4, <1>5, <1>6, <1>7, <1>8, <1>9, <1>10, <1>11, <1>12,
     <1>13, <1>14, <1>15, <1>16, <1>17, <1>18, <1>19, <1>20, <1>21, <1>22, <1>23, <1>24,
     <1>25, <1>26, <1>27, <1>28, <1>29, <1>30, <1>31, <1>32, <1>33, <1>34, <1>35, <1>36,
     <1>37, <1>38, <1>39, <1>40, <1>41, <1>42, <1>43, <1>44, <1>45, <1>46, <1>47, <1>48,
     <1>49
     DEF Next, HttpNext, OwnStep, ServerStep, TimerStep, RestStep

\* Every action keeps what is known of the outcome and of the end of the scan.
LEMMA EndStep ==
    HttpTypeOK /\ StepInv /\ BodyInv /\ WholeBody /\ EndInv /\ EndRespected /\ [Next]_vars
      => WholeBody' /\ EndInv' /\ EndRespected'
<1> SUFFICES ASSUME HttpTypeOK /\ StepInv /\ BodyInv /\ WholeBody /\ EndInv /\ EndRespected,
                    [Next]_vars
             PROVE  WholeBody' /\ EndInv' /\ EndRespected'
  OBVIOUS
<1> USE LimitsAssumption DEF Waits, Steps, Responses, Bodies, Outcomes, Owners, Ended,
            Acquiring, Reading, Move, Over, progressVars, replyVars, scanVars, resolverVars,
            poolVars, guardVars, watchdogVars, timerVars, auxVars, aroundVars, requestVars,
            httpVars, listingVars, HttpTypeOK, StepInv, BodyInv, WholeBody, EndInv, EndRespected
<1>1. ASSUME RefuseLookup, UNCHANGED listingVars PROVE WholeBody' /\ EndInv' /\ EndRespected'
  BY <1>1 DEF RefuseLookup, LookupFails, Raise
<1>2. ASSUME GiveSlotBack, UNCHANGED listingVars PROVE WholeBody' /\ EndInv' /\ EndRespected'
  BY <1>2 DEF GiveSlotBack, LookupFails, Raise, FreeSlot
<1>3. ASSUME StartThread, UNCHANGED listingVars PROVE WholeBody' /\ EndInv' /\ EndRespected'
  BY <1>3 DEF StartThread
<1>4. ASSUME StartInterrupted, UNCHANGED listingVars PROVE WholeBody' /\ EndInv' /\ EndRespected'
  BY <1>4 DEF StartInterrupted, LookupFails, Raise, FreeSlot
<1>5. ASSUME TakeAnswer, UNCHANGED listingVars PROVE WholeBody' /\ EndInv' /\ EndRespected'
  BY <1>5 DEF TakeAnswer, LookupFails, Raise
<1>6. ASSUME StopWaiting, UNCHANGED listingVars PROVE WholeBody' /\ EndInv' /\ EndRespected'
  BY <1>6 DEF StopWaiting, LookupFails, Raise
<1>7. ASSUME NewConnection, UNCHANGED listingVars PROVE WholeBody' /\ EndInv' /\ EndRespected'
  BY <1>7 DEF NewConnection, StartAttempt, ArmGuard
<1>8. ASSUME AttemptFails, UNCHANGED listingVars PROVE WholeBody' /\ EndInv' /\ EndRespected'
  BY <1>8 DEF AttemptFails
<1>9. ASSUME FinishGuard, UNCHANGED listingVars PROVE WholeBody' /\ EndInv' /\ EndRespected'
  BY <1>9 DEF FinishGuard
<1>10. ASSUME AcceptResponse, UNCHANGED listingVars PROVE WholeBody' /\ EndInv' /\ EndRespected'
  BY <1>10 DEF AcceptResponse, DropGuard
<1>11. ASSUME RejectResponse, UNCHANGED listingVars PROVE WholeBody' /\ EndInv' /\ EndRespected'
  BY <1>11 DEF RejectResponse, DropGuard, Raise, CloseSocket
<1>12. ASSUME FollowRedirect, UNCHANGED listingVars PROVE WholeBody' /\ EndInv' /\ EndRespected'
  BY <1>12 DEF FollowRedirect, CloseSocket
<1>13. ASSUME TryAgain, UNCHANGED listingVars PROVE WholeBody' /\ EndInv' /\ EndRespected'
  BY <1>13 DEF TryAgain, CloseSocket
<1>14. ASSUME RaiseStatus, UNCHANGED listingVars PROVE WholeBody' /\ EndInv' /\ EndRespected'
  BY <1>14 DEF RaiseStatus, Raise, CloseSocket
<1>15. ASSUME Pause, UNCHANGED listingVars PROVE WholeBody' /\ EndInv' /\ EndRespected'
  BY <1>15 DEF Pause
<1>16. ASSUME GiveUpRetry, UNCHANGED listingVars PROVE WholeBody' /\ EndInv' /\ EndRespected'
  BY <1>16 DEF GiveUpRetry, Raise
<1>17. ASSUME Retry, UNCHANGED listingVars PROVE WholeBody' /\ EndInv' /\ EndRespected'
  BY <1>17 DEF Retry
<1>18. ASSUME StartReading, UNCHANGED listingVars PROVE WholeBody' /\ EndInv' /\ EndRespected'
  BY <1>18 DEF StartReading
<1>19. ASSUME RefuseBody, UNCHANGED listingVars PROVE WholeBody' /\ EndInv' /\ EndRespected'
  BY <1>19 DEF RefuseBody, Raise, CloseSocket
<1>20. ASSUME ReadInterrupted, UNCHANGED listingVars PROVE WholeBody' /\ EndInv' /\ EndRespected'
  BY <1>20 DEF ReadInterrupted, StopReading
<1>21. ASSUME Judge, UNCHANGED listingVars PROVE WholeBody' /\ EndInv' /\ EndRespected'
  BY <1>21 DEF Judge
<1>22. ASSUME JoinWatchdog, UNCHANGED listingVars PROVE WholeBody' /\ EndInv' /\ EndRespected'
  BY <1>22 DEF JoinWatchdog, CloseSocket
<1>23. ASSUME NEW l \in Lookups, ClaimSlot(l), UNCHANGED listingVars PROVE WholeBody' /\ EndInv' /\
   EndRespected'
  BY <1>23 DEF ClaimSlot, Claim
<1>24. ASSUME NEW k \in Sockets, ReuseSocket(k), UNCHANGED listingVars PROVE WholeBody' /\ EndInv'
   /\ EndRespected'
  BY <1>24 DEF ReuseSocket, StartAttempt, ArmGuard
<1>25. ASSUME NEW k \in Sockets, Connect(k), UNCHANGED listingVars PROVE WholeBody' /\ EndInv' /\
   EndRespected'
  BY <1>25 DEF Connect
<1>26. ASSUME GetResponse, UNCHANGED listingVars PROVE WholeBody' /\ EndInv' /\ EndRespected'
  BY <1>26 DEF GetResponse
<1>27. ASSUME BodyEnds, UNCHANGED listingVars PROVE WholeBody' /\ EndInv' /\ EndRespected'
  BY <1>27 DEF BodyEnds, EndBody
<1>28. ASSUME ShortBodyEnds, UNCHANGED listingVars PROVE WholeBody' /\ EndInv' /\ EndRespected'
  BY <1>28 DEF ShortBodyEnds, EndBody
<1>29. ASSUME StopReading, UNCHANGED listingVars PROVE WholeBody' /\ EndInv' /\ EndRespected'
  BY <1>29 DEF StopReading
<1>30. ASSUME GuardFires, UNCHANGED listingVars PROVE WholeBody' /\ EndInv' /\ EndRespected'
  BY <1>30 DEF GuardFires
<1>31. ASSUME GuardAborts, UNCHANGED listingVars PROVE WholeBody' /\ EndInv' /\ EndRespected'
  BY <1>31 DEF GuardAborts
<1>32. ASSUME WatchdogFires, UNCHANGED listingVars PROVE WholeBody' /\ EndInv' /\ EndRespected'
  BY <1>32 DEF WatchdogFires
<1>33. ASSUME WatchdogAborts, UNCHANGED listingVars PROVE WholeBody' /\ EndInv' /\ EndRespected'
  BY <1>33 DEF WatchdogAborts
<1>34. ASSUME WatchdogShuts, UNCHANGED listingVars PROVE WholeBody' /\ EndInv' /\ EndRespected'
  BY <1>34 DEF WatchdogShuts
<1>35. ASSUME NEW l \in Lookups, Answer(l), UNCHANGED listingVars PROVE WholeBody' /\ EndInv' /\
   EndRespected'
  BY <1>35 DEF Answer
<1>36. ASSUME NEW l \in Lookups, EndThread(l), UNCHANGED listingVars PROVE WholeBody' /\ EndInv' /\
   EndRespected'
  BY <1>36 DEF EndThread, FreeSlot
<1>37. ASSUME NEW l \in Lookups, OtherLookup(l), UNCHANGED listingVars PROVE WholeBody' /\ EndInv'
   /\ EndRespected'
  BY <1>37 DEF OtherLookup
<1>38. ASSUME NEW k \in Sockets, OtherUses(k), UNCHANGED listingVars PROVE WholeBody' /\ EndInv' /\
   EndRespected'
  BY <1>38 DEF OtherUses
<1>39. ASSUME NEW k \in Sockets, PoolDrops(k), UNCHANGED listingVars PROVE WholeBody' /\ EndInv' /\
   EndRespected'
  BY <1>39 DEF PoolDrops
<1>40. ASSUME PassDeadlineOrCancel, UNCHANGED listingVars PROVE WholeBody' /\ EndInv' /\
   EndRespected'
  BY <1>40 DEF PassDeadlineOrCancel
<1>41. CASE OpenListing
  BY <1>41 DEF OpenListing
<1>42. CASE RequestPage
  BY <1>42 DEF RequestPage, Begin
<1>43. CASE RefusePage
  BY <1>43 DEF RefusePage, Fail
<1>44. CASE ReachLimit
  BY <1>44 DEF ReachLimit, Fail
<1>45. CASE PageFails
  BY <1>45 DEF PageFails, Fail
<1>46. CASE TakePage
  BY <1>46 DEF TakePage
<1>47. CASE DeliverPage
  BY <1>47 DEF DeliverPage
<1>48. CASE DropListing
  BY <1>48 DEF DropListing
<1>49. CASE UNCHANGED vars
  BY <1>49 DEF vars
<1> QED
  BY <1>1, <1>2, <1>3, <1>4, <1>5, <1>6, <1>7, <1>8, <1>9, <1>10, <1>11, <1>12,
     <1>13, <1>14, <1>15, <1>16, <1>17, <1>18, <1>19, <1>20, <1>21, <1>22, <1>23, <1>24,
     <1>25, <1>26, <1>27, <1>28, <1>29, <1>30, <1>31, <1>32, <1>33, <1>34, <1>35, <1>36,
     <1>37, <1>38, <1>39, <1>40, <1>41, <1>42, <1>43, <1>44, <1>45, <1>46, <1>47, <1>48,
     <1>49
     DEF Next, HttpNext, OwnStep, ServerStep, TimerStep, RestStep

\* The lookups that hold a slot.
Held == {l \in Lookups : thread[l] # "none" /\ l \notin freed}

\* A slot taken by one lookup, returned by one, or neither.
LEMMA HeldCounts ==
    ASSUME HttpTypeOK, HttpTypeOK', SlotsReturnOnce,
           \/ Held' = Held /\ slots' = slots
           \/ \E l \in Lookups \ Held : Held' = Held \cup {l} /\ slots' = slots - 1
           \/ \E l \in Held : Held' = Held \ {l} /\ slots' = slots + 1
    PROVE  SlotsReturnOnce'
<1>1. IsFiniteSet(Held) /\ Cardinality(Held) \in Nat
  <2>1. Held \subseteq Lookups
    BY DEF Held
  <2> QED
    BY <2>1, LookupsAssumption, FS_Subset, FS_CardinalityType
<1>2. slots + Cardinality(Held) = MaxResolvers
  BY DEF SlotsReturnOnce, Held
<1>3. slots \in Nat /\ slots' \in Nat
  BY DEF HttpTypeOK
<1>4. slots' + Cardinality(Held') = MaxResolvers
  <2>1. CASE Held' = Held /\ slots' = slots
    BY <1>2, <2>1
  <2>2. ASSUME NEW l \in Lookups \ Held, Held' = Held \cup {l}, slots' = slots - 1
        PROVE  slots' + Cardinality(Held') = MaxResolvers
    <3>1. Cardinality(Held') = Cardinality(Held) + 1
      BY <1>1, <2>2, FS_AddElement
    <3> QED
      BY <1>1, <1>2, <1>3, <2>2, <3>1
  <2>3. ASSUME NEW l \in Held, Held' = Held \ {l}, slots' = slots + 1
        PROVE  slots' + Cardinality(Held') = MaxResolvers
    <3>1. Cardinality(Held') = Cardinality(Held) - 1
      BY <1>1, <2>3, FS_RemoveElement
    <3> QED
      BY <1>1, <1>2, <1>3, <2>3, <3>1
  <2> QED
    BY <2>1, <2>2, <2>3
<1> QED
  BY <1>4 DEF SlotsReturnOnce, Held

\* A slot is taken by a thread that has none, and returned by one that has it.
LEMMA SlotsStep ==
    HttpTypeOK /\ HttpTypeOK' /\ StepInv /\ SlotsReturnOnce /\ [Next]_vars => SlotsReturnOnce'
<1> SUFFICES ASSUME HttpTypeOK, HttpTypeOK', StepInv, SlotsReturnOnce,
                    [Next]_vars
             PROVE  SlotsReturnOnce'
  OBVIOUS
<1> DEFINE Same == Held' = Held /\ slots' = slots
           Taken == \E l \in Lookups \ Held : Held' = Held \cup {l} /\ slots' = slots - 1
           Returned == \E l \in Held : Held' = Held \ {l} /\ slots' = slots + 1
<1>0. ASSUME Same \/ Taken \/ Returned PROVE SlotsReturnOnce'
  BY <1>0, HeldCounts
<1>a. HttpTypeOK /\ StepInv
  OBVIOUS
<1> HIDE DEF Same, Taken, Returned
<1> USE <1>a DEF HttpTypeOK, StepInv, Held, Move
<1>1. ASSUME GiveSlotBack PROVE Returned
  BY <1>1 DEF Returned, GiveSlotBack, FreeSlot
<1>2. ASSUME StartThread PROVE Same
  BY <1>2 DEF Same, StartThread
<1>3. ASSUME StartInterrupted PROVE Returned
  BY <1>3 DEF Returned, StartInterrupted, FreeSlot
<1>4. ASSUME NEW l \in Lookups, ClaimSlot(l) PROVE Taken
  BY <1>4 DEF Taken, ClaimSlot, Claim
<1>5. ASSUME NEW l \in Lookups, Answer(l) PROVE Same
  BY <1>5 DEF Same, Answer
<1>6. ASSUME NEW l \in Lookups, EndThread(l) PROVE Same \/ Returned
  BY <1>6 DEF Same, Returned, EndThread, FreeSlot
<1>7. ASSUME NEW l \in Lookups, OtherLookup(l) PROVE Taken
  BY <1>7 DEF Taken, OtherLookup
<1>8. ASSUME \/ RefuseLookup \/ TakeAnswer \/ StopWaiting \/ NewConnection \/ AttemptFails
             \/ FinishGuard \/ AcceptResponse \/ RejectResponse \/ FollowRedirect \/ TryAgain
             \/ RaiseStatus \/ Pause \/ GiveUpRetry \/ Retry \/ StartReading \/ RefuseBody
             \/ ReadInterrupted \/ Judge \/ JoinWatchdog \/ GetResponse \/ BodyEnds
             \/ ShortBodyEnds \/ StopReading \/ GuardFires \/ GuardAborts \/ WatchdogFires
             \/ WatchdogAborts \/ WatchdogShuts \/ PassDeadlineOrCancel
             \/ \E k \in Sockets : ReuseSocket(k) \/ Connect(k) \/ OtherUses(k) \/ PoolDrops(k)
             \/ UNCHANGED httpVars
      PROVE  UNCHANGED <<slots, thread, freed>>
  BY <1>8 DEF RefuseLookup, LookupFails, Raise, TakeAnswer, StopWaiting, NewConnection,
     StartAttempt, ArmGuard, AttemptFails, FinishGuard, AcceptResponse, DropGuard,
     RejectResponse, CloseSocket, FollowRedirect, TryAgain, RaiseStatus, Pause, GiveUpRetry,
     Retry, StartReading, RefuseBody, ReadInterrupted, StopReading, Judge, JoinWatchdog,
     ReuseSocket, Connect, GetResponse, BodyEnds, EndBody, ShortBodyEnds, GuardFires,
     GuardAborts, WatchdogFires, WatchdogAborts, WatchdogShuts, OtherUses, PoolDrops,
     PassDeadlineOrCancel, progressVars, replyVars, scanVars, resolverVars, poolVars, guardVars,
     watchdogVars, timerVars, auxVars, aroundVars, requestVars, httpVars, listingVars
<1>9. CASE UNCHANGED <<slots, thread, freed>>
  <2>1. thread' = thread /\ freed' = freed /\ slots' = slots
    BY <1>9
  <2>2. Held' = Held
    BY ONLY <2>1 DEF Held
  <2> QED
    BY <1>0, <2>1, <2>2 DEF Same
<1>10. CASE RequestPage \/ OpenListing \/ RefusePage \/ ReachLimit \/ PageFails \/ TakePage
           \/ DeliverPage \/ DropListing \/ UNCHANGED vars
  <2>1. UNCHANGED <<slots, thread, freed>>
    BY <1>10 DEF RequestPage, Begin, OpenListing, RefusePage, ReachLimit, PageFails, TakePage,
     DeliverPage, DropListing, Fail, vars, progressVars, replyVars, scanVars, resolverVars,
     poolVars, guardVars, watchdogVars, timerVars, auxVars, aroundVars, requestVars, httpVars,
     listingVars
  <2> QED
    BY <2>1, <1>9
<1> QED
  BY <1>0, <1>1, <1>2, <1>3, <1>4, <1>5, <1>6, <1>7, <1>8, <1>9, <1>10
     DEF Next, HttpNext, OwnStep, ServerStep, TimerStep, RestStep

\* No request, and no step of the paginator, breaks the chain of pages.
LEMMA ListingStep ==
    ListingTypeOK /\ ListingInv /\ ListingSound /\ [Next]_vars
      => ListingTypeOK' /\ ListingInv' /\ ListingSound'
<1> SUFFICES ASSUME ListingTypeOK, ListingInv, ListingSound,
                    [Next]_vars
             PROVE  ListingTypeOK' /\ ListingInv' /\ ListingSound'
  OBVIOUS
<1> USE PagesAssumption DEF ListingTypeOK, ListingInv, ListingSound, Ended, listingVars
<1>1. CASE OpenListing
  BY <1>1 DEF OpenListing
<1>2. CASE RequestPage
  BY <1>2 DEF RequestPage
<1>3. CASE RefusePage
  BY <1>3 DEF RefusePage, Fail
<1>4. CASE ReachLimit
  BY <1>4 DEF ReachLimit, Fail
<1>5. CASE PageFails
  BY <1>5 DEF PageFails, Fail
<1>6. CASE TakePage
  BY <1>6 DEF TakePage
<1>7. CASE DeliverPage
  <2>1. ListingTypeOK'
    BY <1>7 DEF DeliverPage
  <2>2. CASE listing' = "complete"
    BY <1>7, <2>1, <2>2 DEF DeliverPage
  <2>3. CASE listing' = "incomplete"
    BY <1>7, <2>1, <2>3 DEF DeliverPage
  <2>4. CASE listing' = "open" /\ kind = "link"
    BY <1>7, <2>1, <2>4 DEF DeliverPage
  <2>5. CASE listing' = "open" /\ kind = "token"
    BY <1>7, <2>1, <2>5 DEF DeliverPage
  <2> QED
    BY <1>7, <2>2, <2>3, <2>4, <2>5 DEF DeliverPage
<1>8. CASE DropListing
  BY <1>8 DEF DropListing
<1>9. CASE UNCHANGED listingVars
  BY <1>9
<1> QED
  BY <1>1, <1>2, <1>3, <1>4, <1>5, <1>6, <1>7, <1>8, <1>9 DEF Next, vars

----------------------------------------------------------------------------
\* Every action keeps the whole.
LEMMA InvariantStep == IInv /\ [Next]_vars => IInv'
<1> SUFFICES ASSUME IInv, [Next]_vars PROVE IInv'
  OBVIOUS
<1> USE DEF IInv, TypeOK
<1>1. HttpTypeOK'
  BY RequestTypeStep
<1>2. NothingLeft'
  BY QuietStep
<1>3. StepInv' /\ AttemptInv' /\ TimerInv'
  BY RequestStep
<1>4. SocketInv' /\ BodyInv' /\ OwnShutdown'
  BY SocketStep
<1>5. WholeBody' /\ EndInv' /\ EndRespected'
  BY EndStep
<1>6. ListingTypeOK' /\ ListingInv' /\ ListingSound'
  BY ListingStep
<1>7. SlotsReturnOnce'
  BY <1>1, SlotsStep
<1> QED
  BY <1>1, <1>2, <1>3, <1>4, <1>5, <1>6, <1>7

\* The invariant of module HttpListing holds in every state.
THEOREM Invariant == Spec => []IInv
  BY InvariantInit, InvariantStep, PTL DEF Spec

\* A request that has ended leaves no timer, lookup or socket of its own.  (_make_request,
\* read_response_bytes)
THEOREM TypeCorrect == Spec => []TypeOK
  BY Invariant, PTL DEF IInv

\* No resolver slot is lost, and none is returned twice.  (free_slot)
THEOREM SlotsAreReturnedOnce == Spec => []SlotsReturnOnce
  BY Invariant, PTL DEF IInv

\* A timer shuts down only the socket of the request whose deadline has passed.
\* (_SocketDeadline, _read_watchdog)
THEOREM ShutdownsAreOwn == Spec => []OwnShutdown
  BY Invariant, PTL DEF IInv

\* A body cut short by the deadline is never a result.  (read_response_bytes)
THEOREM BodiesAreWhole == Spec => []WholeBody
  BY Invariant, PTL DEF IInv

\* A scan that is over starts no further page and takes at most the one being read.  (request,
\* _wait_before_retry, read_response_bytes)
THEOREM EndIsRespected == Spec => []EndRespected
  BY Invariant, PTL DEF IInv

\* A complete listing is a closed chain of pages, each delivered once.  (paginate_link,
\* paginate_odata, paginate_token)
THEOREM ListingsAreSound == Spec => []ListingSound
  BY Invariant, PTL DEF IInv

----------------------------------------------------------------------------
(* How long a listing takes *)

LEMMA AttemptStepsLeftType == step \in Steps => AttemptStepsLeft \in 0 .. 12
BY DEF Steps, Waits, AttemptStepsLeft

LEMMA AttemptStepsLeftNext == step' \in Steps => AttemptStepsLeft' \in 0 .. 12
<1>1. (step \in Steps => AttemptStepsLeft \in 0 .. 12)'
  BY AttemptStepsLeftType, PTL
<1> QED
  BY <1>1 DEF Steps, Waits

\* A request's thread only takes steps while its page is being requested.
LEMMA IdleUnlessRequesting == StepInv /\ (OwnStep \/ ServerStep) => listing = "requesting"
<1> SUFFICES ASSUME OwnStep \/ ServerStep PROVE step # "idle"
  BY DEF StepInv
<1>1. CASE OwnStep
  BY <1>1 DEF OwnStep, RefuseLookup, GiveSlotBack, StartThread, StartInterrupted, TakeAnswer,
       StopWaiting, NewConnection, StartAttempt, AttemptFails, FinishGuard, AcceptResponse, RejectResponse,
       FollowRedirect, TryAgain, RaiseStatus, Pause, GiveUpRetry, Retry, StartReading, RefuseBody,
       ReadInterrupted, StopReading, Judge, JoinWatchdog, Move
<1>2. CASE ServerStep
  BY <1>2 DEF ServerStep, ClaimSlot, ReuseSocket, StartAttempt, Connect, GetResponse, AttemptFails,
       BodyEnds, ShortBodyEnds, EndBody, StopReading, Move
<1> QED
  BY <1>1, <1>2

\* A step of the request's thread makes an attempt, or leads towards the next one or the end.
LEMMA ThreadStep ==
    ASSUME HttpTypeOK, StepInv, OwnStep \/ ServerStep
    PROVE  \/ attempt' = attempt + 1 /\ AttemptStepsLeft = 1 /\ AttemptStepsLeft' <= 12
           \/ attempt' = attempt /\ AttemptStepsLeft' < AttemptStepsLeft
<1> USE DEF Move, AttemptStepsLeft, progressVars, replyVars
<1>1. goal = "connect" => step \in Waits
  BY DEF StepInv
<1>2. goal \in {"check", "connect"}
  BY DEF HttpTypeOK
<1> USE <1>1, <1>2
<1> DEFINE Closer == attempt' = attempt /\ AttemptStepsLeft' < AttemptStepsLeft
<1>3. ASSUME LookupFails, attempt' = attempt, step \in Waits PROVE Closer
  BY <1>3 DEF LookupFails, Raise, Waits
<1>4. CASE RefuseLookup \/ GiveSlotBack \/ StartInterrupted \/ StopWaiting
  BY <1>3, <1>4 DEF RefuseLookup, GiveSlotBack, StartInterrupted, StopWaiting, Waits
<1>5. CASE TakeAnswer
  <2>1. CASE answer = "usable" \/ (goal = "check" /\ answer = "failed")
    BY <1>5, <2>1 DEF TakeAnswer, Waits
  <2>2. CASE ~(answer = "usable" \/ (goal = "check" /\ answer = "failed"))
    BY <1>3, <1>5, <2>2 DEF TakeAnswer, Waits
  <2> QED
    BY <2>1, <2>2
<1>6. CASE StartThread
  BY <1>6 DEF StartThread, Waits
<1>7. ASSUME NEW l \in Lookups, ClaimSlot(l) PROVE Closer
  BY <1>7 DEF ClaimSlot, Waits
<1>8. ASSUME StartAttempt, step' = "exchanging" \/ (step' = "asking" /\ goal' = "connect")
      PROVE  attempt' = attempt + 1 /\ AttemptStepsLeft = 1 /\ AttemptStepsLeft' <= 12
  BY <1>8 DEF StartAttempt
<1>9. ASSUME NewConnection \/ \E k \in Sockets : ReuseSocket(k)
      PROVE  attempt' = attempt + 1 /\ AttemptStepsLeft = 1 /\ AttemptStepsLeft' <= 12
  <2>1. StartAttempt /\ (step' = "exchanging" \/ (step' = "asking" /\ goal' = "connect"))
    BY <1>9 DEF NewConnection, ReuseSocket
  <2> HIDE DEF AttemptStepsLeft
  <2> QED
    BY <1>8, <2>1
<1>10. CASE AttemptFails \/ GetResponse \/ \E k \in Sockets : Connect(k)
  BY <1>10 DEF AttemptFails, GetResponse, Connect, Waits
<1>11. CASE FinishGuard \/ AcceptResponse \/ RejectResponse
  BY <1>11 DEF FinishGuard, AcceptResponse, RejectResponse, Raise, Waits
<1>12. CASE FollowRedirect \/ TryAgain \/ RaiseStatus \/ RefuseBody \/ StartReading
  BY <1>12 DEF FollowRedirect, TryAgain, RaiseStatus, RefuseBody, StartReading, Raise, Waits
<1>13. CASE Pause \/ GiveUpRetry \/ Retry
  BY <1>13 DEF Pause, GiveUpRetry, Retry, Raise, Waits
<1>14. CASE StopReading \/ ReadInterrupted \/ BodyEnds \/ ShortBodyEnds
  BY <1>14 DEF StopReading, ReadInterrupted, BodyEnds, ShortBodyEnds, EndBody, Waits
<1>15. CASE Judge \/ JoinWatchdog
  BY <1>15 DEF Judge, JoinWatchdog, Waits
<1> QED
  BY <1>4, <1>5, <1>6, <1>7, <1>9, <1>10, <1>11, <1>12, <1>13, <1>14, <1>15
     DEF OwnStep, ServerStep

\* The steps for the pages that may yet be taken.
PagesLeft == PageSteps * (MaxPages - pages)

\* What is left, in terms that can be compared.
Sized ==
    /\ Attempts \in Nat /\ PageSteps = 12 * Attempts + 7
    /\ RequestStepsLeft \in 0 .. 12 * Attempts + 12
    /\ PagesLeft \in Nat /\ PagesLeft <= PageSteps * MaxPages
    /\ listing \in {"requesting", "yielding"} => PagesLeft >= PageSteps

Counted ==
    /\ listing = "ready" => StepsLeft = PagesLeft + 2
    /\ listing = "open" => StepsLeft = PagesLeft + 1
    /\ listing = "requesting" => StepsLeft = PagesLeft - PageSteps + 3 + RequestStepsLeft
    /\ listing = "yielding" => StepsLeft = PagesLeft - PageSteps + 2
    /\ listing \in Ended => StepsLeft = 0

Measured == Sized /\ Counted

LEMMA Measures == TypeOK /\ StepInv /\ ListingInv => Measured
<1> SUFFICES ASSUME TypeOK, StepInv, ListingInv PROVE Measured
  OBVIOUS
<1>1. /\ Attempts \in Nat /\ PageSteps \in Nat /\ MaxPages \in Nat
      /\ pages \in 0 .. MaxPages /\ attempt \in 0 .. Attempts
  BY LimitsAssumption, PagesAssumption
     DEF TypeOK, HttpTypeOK, ListingTypeOK, Attempts, PageSteps
<1>2. RequestStepsLeft \in 0 .. 12 * Attempts + 12
  <2>1. AttemptStepsLeft \in 0 .. 12
    BY AttemptStepsLeftType DEF TypeOK, HttpTypeOK
  <2> HIDE DEF Attempts
  <2> QED
    BY <1>1, <2>1 DEF RequestStepsLeft
<1>3. \A k \in Nat, a, b \in Nat : a <= b => k * (b - a) \in 0 .. k * b
  OBVIOUS
<1>4. \A k \in Nat, a, b \in Nat : a < b => k * (b - a - 1) = k * (b - a) - k /\ k * (b - a) >= k
  OBVIOUS
<1>5. PagesLeft \in 0 .. PageSteps * MaxPages
  BY <1>1, <1>3 DEF PagesLeft
<1>6. listing \in {"requesting", "yielding"} =>
        PageSteps * (MaxPages - pages - 1) = PagesLeft - PageSteps /\ PagesLeft >= PageSteps
  BY <1>1, <1>4 DEF ListingInv, PagesLeft
<1>7. PagesLeft \in Nat /\ PageSteps * MaxPages \in Nat
  BY <1>1, <1>5
<1>8. PageSteps = 12 * Attempts + 7
  BY DEF PageSteps
<1>9. /\ RequestStepsLeft \in Nat /\ PageSteps * (MaxPages - pages) = PagesLeft
      /\ PageSteps * (MaxPages - pages - 1) \in Int
  <2>1. RequestStepsLeft \in Nat
    BY <1>1, <1>2
  <2> QED
    BY <1>1, <2>1 DEF PagesLeft
<1>10. Counted
  <2>1. ASSUME listing = "ready" PROVE StepsLeft = PagesLeft + 2
    BY <1>9, <2>1 DEF StepsLeft, Ended
  <2>2. ASSUME listing = "open" PROVE StepsLeft = PagesLeft + 1
    BY <1>9, <2>2 DEF StepsLeft, Ended
  <2>3. ASSUME listing = "requesting" PROVE StepsLeft = PagesLeft - PageSteps + 3 + RequestStepsLeft
    <3>1. StepsLeft = PageSteps * (MaxPages - pages - 1) + 3 + RequestStepsLeft
      BY <1>9, <2>3 DEF StepsLeft, Ended
    <3> QED
      BY <1>6, <2>3, <3>1
  <2>4. ASSUME listing = "yielding" PROVE StepsLeft = PagesLeft - PageSteps + 2
    <3>1. StepsLeft = PageSteps * (MaxPages - pages - 1) + 2
      BY <1>9, <2>4 DEF StepsLeft, Ended
    <3> QED
      BY <1>6, <2>4, <3>1
  <2>5. ASSUME listing \in Ended PROVE StepsLeft = 0
    BY <2>5 DEF StepsLeft, Ended
  <2> QED
    BY <2>1, <2>2, <2>3, <2>4, <2>5 DEF Counted
<1>11. Attempts \in Nat /\ PageSteps = 12 * Attempts + 7
  BY <1>1, <1>8
<1>12. PagesLeft \in Nat /\ PagesLeft <= PageSteps * MaxPages
  BY <1>5, <1>7
<1>13. listing \in {"requesting", "yielding"} => PagesLeft >= PageSteps
  BY <1>6
<1>14. Sized
  BY <1>2, <1>11, <1>12, <1>13, Zenon DEF Sized
<1> QED
  BY <1>10, <1>14 DEF Measured

LEMMA MeasuresNext == IInv' => Measured'
<1>1. IInv => Measured
  BY Measures DEF IInv
<1>2. (IInv => Measured)'
  BY <1>1, PTL
<1> QED
  BY <1>2

\* Nothing but its own thread changes how long a listing has to go.
LEMMA OthersDoNotDelay ==
    ASSUME UNCHANGED <<requestVars, listingVars>>
    PROVE  StepsLeft' = StepsLeft
BY DEF requestVars, progressVars, listingVars, StepsLeft, RequestStepsLeft, AttemptStepsLeft

LEMMA RestLeavesRequest == TimerStep \/ RestStep => UNCHANGED requestVars
BY DEF TimerStep, RestStep, GuardFires, GuardAborts, WatchdogFires, WatchdogAborts, WatchdogShuts,
       Answer, EndThread, OtherLookup, OtherUses, PoolDrops, PassDeadlineOrCancel

\* Every step of the listing's thread brings it closer to its end.
LEMMA ListingAdvances ==
    ASSUME IInv, IInv',
           \/ (OwnStep \/ ServerStep) /\ UNCHANGED listingVars
           \/ OpenListing \/ RequestPage \/ RefusePage \/ ReachLimit \/ PageFails \/ TakePage
           \/ DeliverPage \/ DropListing
    PROVE  StepsLeft' < StepsLeft
<1>1. Measured /\ Measured'
  BY Measures, MeasuresNext DEF IInv
<1>2. listing \in {"ready", "open", "requesting", "yielding"} \cup Ended
  BY DEF IInv, TypeOK, ListingTypeOK
<1>3. ASSUME listing' \in Ended, listing \notin Ended PROVE StepsLeft' < StepsLeft
  <2>1. StepsLeft' = 0
    BY <1>1, <1>3 DEF Measured, Sized, Counted
  <2>2. StepsLeft > 0
    BY <1>1, <1>2, <1>3 DEF Measured, Sized, Counted
  <2> QED
    BY <2>1, <2>2
<1>4. CASE (OwnStep \/ ServerStep) /\ UNCHANGED listingVars
  <2>1. listing = "requesting" /\ listing' = "requesting" /\ pages' = pages
    BY <1>4, IdleUnlessRequesting DEF IInv, listingVars
  <2>2. RequestStepsLeft' < RequestStepsLeft
    <3>1. AttemptStepsLeft \in 0 .. 12 /\ AttemptStepsLeft' \in 0 .. 12
      BY AttemptStepsLeftType, AttemptStepsLeftNext DEF IInv, TypeOK, HttpTypeOK
    <3>2. /\ attempt \in Nat /\ attempt' \in Nat /\ Attempts \in Nat /\ Attempts' = Attempts
          /\ PageSteps' = PageSteps
      BY <1>1 DEF Measured, Sized, Counted, IInv, TypeOK, HttpTypeOK, Attempts, PageSteps
    <3>3. /\ RequestStepsLeft = 12 * (Attempts - attempt) + AttemptStepsLeft
          /\ RequestStepsLeft' = 12 * (Attempts - attempt') + AttemptStepsLeft'
      BY <3>2 DEF RequestStepsLeft
    <3>4. \/ attempt' = attempt + 1 /\ AttemptStepsLeft = 1 /\ AttemptStepsLeft' <= 12
          \/ attempt' = attempt /\ AttemptStepsLeft' < AttemptStepsLeft
      BY <1>4, ThreadStep DEF IInv, TypeOK
    <3>5. \A a, b \in Nat, x, y \in 0 .. 12 :
            (b = a + 1 /\ x = 1) \/ (b = a /\ y < x) =>
              12 * (Attempts - b) + y < 12 * (Attempts - a) + x
      BY <3>2
    <3> QED
      BY <3>1, <3>2, <3>3, <3>4, <3>5
  <2>3. PagesLeft' = PagesLeft /\ PagesLeft \in Nat
    BY <1>1, <2>1 DEF Measured, Sized, Counted, PagesLeft
  <2>4. StepsLeft = PagesLeft - PageSteps + 3 + RequestStepsLeft
    BY <1>1, <2>1 DEF Measured, Sized, Counted
  <2>5. StepsLeft' = PagesLeft - PageSteps + 3 + RequestStepsLeft'
    BY <1>1, <2>1, <2>3 DEF Measured, Sized, Counted, PageSteps, Attempts
  <2>6. PageSteps \in Nat /\ RequestStepsLeft \in Nat /\ RequestStepsLeft' \in Nat
    BY <1>1 DEF Measured, Sized, Counted, Attempts
  <2>7. \A d, p \in Nat, r, s \in Nat : s < r => d - p + 3 + s < d - p + 3 + r
    OBVIOUS
  <2> HIDE DEF PagesLeft, PageSteps, RequestStepsLeft, StepsLeft
  <2> QED
    BY <2>2, <2>3, <2>4, <2>5, <2>6, <2>7
<1>5. CASE OpenListing
  <2>1. listing = "ready" /\ listing' = "open" /\ PagesLeft' = PagesLeft
    BY <1>5 DEF OpenListing, PagesLeft
  <2> QED
    BY <1>1, <2>1 DEF Measured, Sized, Counted
<1>6. CASE RequestPage
  <2>1. listing = "open" /\ listing' = "requesting" /\ PagesLeft' = PagesLeft
    BY <1>6 DEF RequestPage, PagesLeft
  <2>2. RequestStepsLeft' = 12 * Attempts + 4
    <3>1. attempt' = 0 /\ step' = "asking" /\ goal' = "check"
      BY <1>6 DEF RequestPage, Begin, Move, IInv, TypeOK, HttpTypeOK, StepInv, Waits
    <3> QED
      BY <1>1, <3>1 DEF Measured, Sized, Counted, RequestStepsLeft, AttemptStepsLeft
  <2> QED
    BY <1>1, <2>1, <2>2 DEF Measured, Sized, Counted
<1>7. CASE RefusePage \/ ReachLimit \/ PageFails \/ DropListing
  BY <1>3, <1>7 DEF RefusePage, ReachLimit, PageFails, DropListing, Fail, Ended
<1>8. CASE TakePage
  <2>1. listing = "requesting" /\ listing' = "yielding" /\ PagesLeft' = PagesLeft
    BY <1>8 DEF TakePage, PagesLeft
  <2> QED
    BY <1>1, <2>1 DEF Measured, Sized, Counted
<1>9. CASE DeliverPage
  <2>1. CASE listing' \in Ended
    BY <1>3, <1>9, <2>1 DEF DeliverPage, Ended
  <2>2. CASE listing' = "open"
    <3>1. listing = "yielding" /\ pages' = pages + 1 /\ pages \in Nat /\ MaxPages \in Nat
      BY <1>9, PagesAssumption DEF DeliverPage, IInv, TypeOK, ListingTypeOK
    <3>2. PagesLeft' = PagesLeft - PageSteps
      <4>1. \A k, a, b \in Nat : k * (b - (a + 1)) = k * (b - a) - k
        OBVIOUS
      <4>2. PageSteps \in Nat
        BY <1>1 DEF Measured, Sized, Counted
      <4> QED
        BY <3>1, <4>1, <4>2 DEF PagesLeft
    <3>3. PagesLeft \in Nat /\ PageSteps \in Nat
      BY <1>1, PagesAssumption DEF Measured, Sized, Counted
    <3> QED
      BY <1>1, <2>2, <3>1, <3>2, <3>3 DEF Measured, Sized, Counted
  <2> QED
    BY <1>9, <2>1, <2>2 DEF DeliverPage, Ended
<1> QED
  BY <1>4, <1>5, <1>6, <1>7, <1>8, <1>9

LEMMA StepsLeftType == IInv => StepsLeft \in Nat
<1> SUFFICES ASSUME IInv PROVE StepsLeft \in Nat
  OBVIOUS
<1>1. Sized /\ Counted
  BY Measures DEF IInv, Measured
<1>2. listing \in {"ready", "open", "requesting", "yielding"} \cup Ended
  BY DEF IInv, TypeOK, ListingTypeOK
<1>3. PagesLeft \in Nat /\ PageSteps \in Nat /\ RequestStepsLeft \in Nat
  BY <1>1 DEF Sized
<1>4. listing \in {"requesting", "yielding"} => PagesLeft >= PageSteps
  BY <1>1 DEF Sized
<1> HIDE DEF PagesLeft, PageSteps, RequestStepsLeft, StepsLeft
<1> QED
  BY <1>1, <1>2, <1>3, <1>4 DEF Counted

LEMMA StepsLeftTypeNext == IInv' => StepsLeft' \in Nat
<1>1. (IInv => StepsLeft \in Nat)'
  BY StepsLeftType, PTL
<1> QED
  BY <1>1

\* With whatever else happens in a step, the listing does not have longer to go.
LEMMA RunOutStep ==
    ASSUME IInv, IInv', [Next]_vars
    PROVE  /\ ClientStep \/ ServerStep \/ OpenListing \/ DropListing => StepsLeft' < StepsLeft
           /\ StepsLeft' <= StepsLeft
<1> DEFINE PaginatorStep == \/ OpenListing \/ RequestPage \/ RefusePage \/ ReachLimit \/ PageFails
                            \/ TakePage \/ DeliverPage \/ DropListing
<1>1. StepsLeft \in Nat /\ StepsLeft' \in Nat
  BY StepsLeftType, StepsLeftTypeNext
<1>2. ASSUME ((OwnStep \/ ServerStep) /\ UNCHANGED listingVars) \/ PaginatorStep
      PROVE  StepsLeft' < StepsLeft
  BY <1>2, ListingAdvances
<1>3. CASE PaginatorStep
  BY <1>1, <1>2, <1>3
<1>4. CASE HttpNext /\ UNCHANGED listingVars
  <2>1. CASE OwnStep \/ ServerStep
    BY <1>1, <1>2, <1>4, <2>1
  <2>2. CASE TimerStep \/ RestStep
    <3>1. StepsLeft' = StepsLeft
      BY <1>4, <2>2, RestLeavesRequest, OthersDoNotDelay
    <3>2. (ClientStep \/ ServerStep \/ OpenListing \/ DropListing)
            => OwnStep \/ ServerStep \/ PaginatorStep
      BY DEF ClientStep
    <3> QED
      BY <1>1, <1>2, <1>4, <3>1, <3>2
  <2> QED
    BY <1>4, <2>1, <2>2 DEF HttpNext
<1>5. CASE UNCHANGED vars
  <2>1. StepsLeft' = StepsLeft
    BY <1>5, OthersDoNotDelay DEF vars, httpVars, requestVars
  <2>2. UNCHANGED listingVars
    BY <1>5 DEF vars
  <2>3. (ClientStep \/ ServerStep \/ OpenListing \/ DropListing)
          => OwnStep \/ ServerStep \/ PaginatorStep
    BY DEF ClientStep
  <2> QED
    BY <1>1, <1>2, <2>1, <2>2, <2>3
<1> QED
  BY <1>3, <1>4, <1>5 DEF Next

\* A listing is over after at most PageSteps * MaxPages + 2 steps of its thread, and no answer
\* of the provider and no step of a timer, the resolver or another user of the pool gives it
\* more.  (request, paginate_link, paginate_odata, paginate_token)
THEOREM ListingsAreBounded == Spec => []StepsBounded /\ StepsRunOut
<1>1. Init => StepsBounded
  <2> SUFFICES ASSUME Init PROVE StepsBounded
    OBVIOUS
  <2>1. PagesLeft = PageSteps * MaxPages /\ PageSteps * MaxPages \in Nat
    BY LimitsAssumption, PagesAssumption DEF Init, PagesLeft, PageSteps, Attempts
  <2>2. StepsLeft = PagesLeft + 2
    <3>1. Counted
      BY InvariantInit, Measures DEF IInv, Measured
    <3> QED
      BY <3>1 DEF Init, Counted
  <2> HIDE DEF PageSteps
  <2> QED
    BY <2>1, <2>2 DEF StepsBounded
<1>2. IInv /\ IInv' /\ StepsBounded /\ [Next]_vars => StepsBounded'
  <2> SUFFICES ASSUME IInv, IInv', StepsBounded, [Next]_vars PROVE StepsBounded'
    OBVIOUS
  <2>1. StepsLeft \in Nat /\ StepsLeft' \in Nat /\ StepsLeft' <= StepsLeft
    BY StepsLeftType, StepsLeftTypeNext, RunOutStep
  <2>2. PageSteps * MaxPages + 2 \in Nat
    BY LimitsAssumption, PagesAssumption DEF PageSteps, Attempts
  <2>3. StepsLeft <= PageSteps * MaxPages + 2 /\ PageSteps' = PageSteps
    BY DEF StepsBounded, PageSteps, Attempts
  <2>4. StepsLeft' \in 0 .. PageSteps * MaxPages + 2
    BY <2>1, <2>2, <2>3
  <2> QED
    BY <2>3, <2>4 DEF StepsBounded
<1>3. IInv /\ IInv' /\ [Next]_vars =>
        [/\ ClientStep \/ ServerStep \/ OpenListing \/ DropListing => StepsLeft' < StepsLeft
         /\ StepsLeft' <= StepsLeft]_vars
  BY RunOutStep
<1> QED
  BY <1>1, <1>2, <1>3, Invariant, PTL DEF Spec, StepsRunOut

----------------------------------------------------------------------------
(* What may hang *)

\* Every action keeps a timer set on what may hang.
LEMMA WatchStep == IInv /\ WatchInv /\ [Next]_vars => WatchInv'
<1> SUFFICES ASSUME IInv /\ WatchInv, [Next]_vars PROVE WatchInv'
  OBVIOUS
<1>0. HttpTypeOK /\ StepInv /\ TimerInv /\ SocketInv /\ NothingLeft
  BY DEF IInv, TypeOK
<1> USE <1>0, SocketsAssumption DEF Waits, Steps, Acquiring, Reading, Move, Over, progressVars,
            replyVars, scanVars, resolverVars, poolVars, guardVars, watchdogVars, timerVars,
            auxVars, aroundVars, requestVars, httpVars, listingVars, HttpTypeOK, StepInv,
            TimerInv, SocketInv, NothingLeft, WatchInv
<1>1. ASSUME RefuseLookup, UNCHANGED listingVars PROVE WatchInv'
  BY <1>1 DEF RefuseLookup, LookupFails, Raise
<1>2. ASSUME GiveSlotBack, UNCHANGED listingVars PROVE WatchInv'
  BY <1>2 DEF GiveSlotBack, LookupFails, Raise, FreeSlot
<1>3. ASSUME StartThread, UNCHANGED listingVars PROVE WatchInv'
  BY <1>3 DEF StartThread
<1>4. ASSUME StartInterrupted, UNCHANGED listingVars PROVE WatchInv'
  BY <1>4 DEF StartInterrupted, LookupFails, Raise, FreeSlot
<1>5. ASSUME TakeAnswer, UNCHANGED listingVars PROVE WatchInv'
  BY <1>5 DEF TakeAnswer, LookupFails, Raise
<1>6. ASSUME StopWaiting, UNCHANGED listingVars PROVE WatchInv'
  BY <1>6 DEF StopWaiting, LookupFails, Raise
<1>7. ASSUME NewConnection, UNCHANGED listingVars PROVE WatchInv'
  BY <1>7 DEF NewConnection, StartAttempt, ArmGuard
<1>8. ASSUME AttemptFails, UNCHANGED listingVars PROVE WatchInv'
  BY <1>8 DEF AttemptFails
<1>9. ASSUME FinishGuard, UNCHANGED listingVars PROVE WatchInv'
  BY <1>9 DEF FinishGuard
<1>10. ASSUME AcceptResponse, UNCHANGED listingVars PROVE WatchInv'
  BY <1>10 DEF AcceptResponse, DropGuard
<1>11. ASSUME RejectResponse, UNCHANGED listingVars PROVE WatchInv'
  BY <1>11 DEF RejectResponse, DropGuard, Raise, CloseSocket
<1>12. ASSUME FollowRedirect, UNCHANGED listingVars PROVE WatchInv'
  BY <1>12 DEF FollowRedirect, CloseSocket
<1>13. ASSUME TryAgain, UNCHANGED listingVars PROVE WatchInv'
  BY <1>13 DEF TryAgain, CloseSocket
<1>14. ASSUME RaiseStatus, UNCHANGED listingVars PROVE WatchInv'
  BY <1>14 DEF RaiseStatus, Raise, CloseSocket
<1>15. ASSUME Pause, UNCHANGED listingVars PROVE WatchInv'
  BY <1>15 DEF Pause
<1>16. ASSUME GiveUpRetry, UNCHANGED listingVars PROVE WatchInv'
  BY <1>16 DEF GiveUpRetry, Raise
<1>17. ASSUME Retry, UNCHANGED listingVars PROVE WatchInv'
  BY <1>17 DEF Retry
<1>18. ASSUME StartReading, UNCHANGED listingVars PROVE WatchInv'
  BY <1>18 DEF StartReading
<1>19. ASSUME RefuseBody, UNCHANGED listingVars PROVE WatchInv'
  BY <1>19 DEF RefuseBody, Raise, CloseSocket
<1>20. ASSUME ReadInterrupted, UNCHANGED listingVars PROVE WatchInv'
  BY <1>20 DEF ReadInterrupted, StopReading
<1>21. ASSUME Judge, UNCHANGED listingVars PROVE WatchInv'
  BY <1>21 DEF Judge
<1>22. ASSUME JoinWatchdog, UNCHANGED listingVars PROVE WatchInv'
  BY <1>22 DEF JoinWatchdog, CloseSocket
<1>23. ASSUME NEW l \in Lookups, ClaimSlot(l), UNCHANGED listingVars PROVE WatchInv'
  BY <1>23 DEF ClaimSlot, Claim
<1>24. ASSUME NEW k \in Sockets, ReuseSocket(k), UNCHANGED listingVars PROVE WatchInv'
  BY <1>24 DEF ReuseSocket, StartAttempt, ArmGuard
<1>25. ASSUME NEW k \in Sockets, Connect(k), UNCHANGED listingVars PROVE WatchInv'
  BY <1>25 DEF Connect
<1>26. ASSUME GetResponse, UNCHANGED listingVars PROVE WatchInv'
  BY <1>26 DEF GetResponse
<1>27. ASSUME BodyEnds, UNCHANGED listingVars PROVE WatchInv'
  BY <1>27 DEF BodyEnds, EndBody
<1>28. ASSUME ShortBodyEnds, UNCHANGED listingVars PROVE WatchInv'
  BY <1>28 DEF ShortBodyEnds, EndBody
<1>29. ASSUME StopReading, UNCHANGED listingVars PROVE WatchInv'
  BY <1>29 DEF StopReading
<1>30. ASSUME GuardFires, UNCHANGED listingVars PROVE WatchInv'
  BY <1>30 DEF GuardFires
<1>31. ASSUME GuardAborts, UNCHANGED listingVars PROVE WatchInv'
  BY <1>31 DEF GuardAborts
<1>32. ASSUME WatchdogFires, UNCHANGED listingVars PROVE WatchInv'
  BY <1>32 DEF WatchdogFires
<1>33. ASSUME WatchdogAborts, UNCHANGED listingVars PROVE WatchInv'
  BY <1>33 DEF WatchdogAborts
<1>34. ASSUME WatchdogShuts, UNCHANGED listingVars PROVE WatchInv'
  BY <1>34 DEF WatchdogShuts
<1>35. ASSUME NEW l \in Lookups, Answer(l), UNCHANGED listingVars PROVE WatchInv'
  BY <1>35 DEF Answer
<1>36. ASSUME NEW l \in Lookups, EndThread(l), UNCHANGED listingVars PROVE WatchInv'
  BY <1>36 DEF EndThread, FreeSlot
<1>37. ASSUME NEW l \in Lookups, OtherLookup(l), UNCHANGED listingVars PROVE WatchInv'
  BY <1>37 DEF OtherLookup
<1>38. ASSUME NEW k \in Sockets, OtherUses(k), UNCHANGED listingVars PROVE WatchInv'
  BY <1>38 DEF OtherUses
<1>39. ASSUME NEW k \in Sockets, PoolDrops(k), UNCHANGED listingVars PROVE WatchInv'
  BY <1>39 DEF PoolDrops
<1>40. ASSUME PassDeadlineOrCancel, UNCHANGED listingVars PROVE WatchInv'
  BY <1>40 DEF PassDeadlineOrCancel
<1>41. CASE OpenListing
  BY <1>41 DEF OpenListing
<1>42. CASE RequestPage
  BY <1>42 DEF RequestPage, Begin
<1>43. CASE RefusePage
  BY <1>43 DEF RefusePage, Fail
<1>44. CASE ReachLimit
  BY <1>44 DEF ReachLimit, Fail
<1>45. CASE PageFails
  BY <1>45 DEF PageFails, Fail
<1>46. CASE TakePage
  BY <1>46 DEF TakePage
<1>47. CASE DeliverPage
  BY <1>47 DEF DeliverPage
<1>48. CASE DropListing
  BY <1>48 DEF DropListing
<1>49. CASE UNCHANGED vars
  BY <1>49 DEF vars
<1> QED
  BY <1>1, <1>2, <1>3, <1>4, <1>5, <1>6, <1>7, <1>8, <1>9, <1>10, <1>11, <1>12,
     <1>13, <1>14, <1>15, <1>16, <1>17, <1>18, <1>19, <1>20, <1>21, <1>22, <1>23, <1>24,
     <1>25, <1>26, <1>27, <1>28, <1>29, <1>30, <1>31, <1>32, <1>33, <1>34, <1>35, <1>36,
     <1>37, <1>38, <1>39, <1>40, <1>41, <1>42, <1>43, <1>44, <1>45, <1>46, <1>47, <1>48,
     <1>49
     DEF Next, HttpNext, OwnStep, ServerStep, TimerStep, RestStep

\* From the guard's first moment to the watchdog's last, no call of a request waits for the
\* other side alone; so, with ListingsAreBounded, a listing ends if its thread and timers run.
THEOREM HangsAreAlwaysWatched == Spec => []HangsAreWatched
<1>1. Init => WatchInv
  BY DEF Init, HttpInit, WatchInv, Waits
<1>2. IInv /\ WatchInv => HangsAreWatched
  BY DEF IInv, TimerInv, WatchInv, HangsAreWatched
<1> QED
  BY <1>1, <1>2, WatchStep, Invariant, PTL DEF Spec

----------------------------------------------------------------------------
(* Refinement of PagedListing *)

\* The counter of a paginator counts the pages passed on.
CountInv == IsFiniteSet(delivered) /\ Cardinality(delivered) = pages

\* Only these steps concern the listing.
LEMMA ListingSteps ==
    [Next]_vars => \/ UNCHANGED listingVars
                   \/ OpenListing \/ RequestPage \/ RefusePage \/ ReachLimit \/ PageFails
                   \/ TakePage \/ DeliverPage \/ DropListing
BY DEF Next, vars

LEMMA CountStep == IInv /\ CountInv /\ [Next]_vars => CountInv'
<1> SUFFICES ASSUME IInv, CountInv, [Next]_vars PROVE CountInv'
  OBVIOUS
<1>1. CASE DeliverPage
  <2>1. page \notin delivered /\ delivered' = delivered \cup {page} /\ pages' = pages + 1
    BY <1>1 DEF DeliverPage, IInv, ListingSound
  <2> QED
    BY <2>1, FS_AddElement DEF CountInv
<1>2. CASE ~DeliverPage
  <2>1. UNCHANGED <<pages, delivered>>
    BY <1>2, ListingSteps DEF listingVars, OpenListing, RequestPage, RefusePage, ReachLimit,
       PageFails, TakePage, DropListing, Fail
  <2> QED
    BY <2>1 DEF CountInv
<1> QED
  BY <1>1, <1>2

\* The contract has its own instance of the library.
LEMMA SameCardinality == \A S : Paged!Cardinality(S) = Cardinality(S)
BY DEF Paged!Cardinality, Cardinality

LEMMA PagedInit == Init => Paged!Init
BY DEF Init, Paged!Init, Ended

\* TakePage is the provider's answer, unless the page has been read before; the rest is as the
\* names say.
LEMMA PagedStep == IInv /\ CountInv /\ [Next]_vars => [Paged!Next]_Paged!vars
<1> SUFFICES ASSUME IInv, CountInv, [Next]_vars PROVE [Paged!Next]_Paged!vars
  OBVIOUS
<1>0. TypeOK /\ ListingInv /\ ListingSound
  BY DEF IInv
<1> USE <1>0 DEF TypeOK, ListingTypeOK, Ended
<1>1. CASE UNCHANGED listingVars
  BY <1>1 DEF listingVars, Paged!vars
<1>2. CASE OpenListing
  BY <1>2 DEF OpenListing, Paged!vars
<1>3. CASE RequestPage
  BY <1>3 DEF RequestPage, Paged!vars
<1>4. ASSUME listing \notin Ended, Fail PROVE Paged!Next
  BY <1>4 DEF Fail, Paged!Next, Paged!Stop
<1>5. CASE RefusePage \/ ReachLimit \/ PageFails
  BY <1>4, <1>5 DEF RefusePage, ReachLimit, PageFails
<1>6. CASE TakePage
  <2>1. /\ listing \notin Ended /\ listing' \notin Ended
        /\ UNCHANGED <<page, delivered>>
    BY <1>6 DEF TakePage
  <2>2. PICK next \in Pages \cup {End} :
          link' = IF link[page] = Unknown THEN [link EXCEPT ![page] = next] ELSE link
    BY <1>6 DEF TakePage
  <2>3. CASE link[page] = Unknown
    BY <2>1, <2>2, <2>3 DEF Paged!Next, Paged!Answer
  <2>4. CASE link[page] # Unknown
    BY <2>1, <2>2, <2>4 DEF Paged!vars
  <2> QED
    BY <2>3, <2>4
<1>7. CASE DeliverPage
  <2>1. /\ listing = "yielding" /\ page \notin delivered /\ link[page] # Unknown
        /\ Paged!Cardinality(delivered) < MaxPages
    BY <1>7, SameCardinality DEF DeliverPage, ListingInv, ListingSound, CountInv
  <2>2. /\ delivered' = delivered \cup {page}
        /\ UNCHANGED link
        /\ \/ link[page] = End /\ listing' = "complete" /\ UNCHANGED page
           \/ link[page] # End /\ listing' = "open" /\ page' = link[page]
           \/ link[page] # End /\ listing' = "incomplete" /\ UNCHANGED page
    BY <1>7 DEF DeliverPage
  <2>3. CASE link[page] = End
    BY <2>1, <2>2, <2>3 DEF Paged!Next, Paged!Deliver
  <2>4. CASE link[page] # End /\ listing' = "open"
    BY <2>1, <2>2, <2>4 DEF Paged!Next, Paged!Deliver
  <2>5. CASE link[page] # End /\ listing' = "incomplete"
    BY <2>1, <2>2, <2>5 DEF Paged!Next, Paged!Deliver
  <2> QED
    BY <2>2, <2>3, <2>4, <2>5
<1>8. CASE DropListing
  BY <1>8 DEF DropListing, Paged!Next, Paged!Stop
<1> QED
  BY <1>1, <1>2, <1>3, <1>5, <1>6, <1>7, <1>8, ListingSteps

\* Beneath a listing there may be any number of hung lookups, cut sockets, redirects and
\* retries: what its consumer sees is a walk along the provider's continuations that repeats
\* no page, keeps to the limit, and is complete at its end only
\* (paginate_link, paginate_odata, paginate_token).
THEOREM ListingsKeepContract == Spec => ImplementsPagedListing
<1>1. Init => CountInv
  BY FS_EmptySet DEF Init, CountInv
<1> QED
  BY <1>1, PagedInit, PagedStep, CountStep, Invariant, PTL
     DEF Spec, ImplementsPagedListing, Paged!Spec

=============================================================================
