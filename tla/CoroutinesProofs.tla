-------------------------- MODULE CoroutinesProofs --------------------------
(***************************************************************************)
(* A co_await takes the outcome of a coroutine once, after its end, and    *)
(* loses no exception, for any number of coroutines that await one another *)
(* and any number of suspensions.                                          *)
(***************************************************************************)
EXTENDS Coroutines, FiniteSetTheorems, TLAPS

(* A coroutine that awaits the next one and has not been resumed; one that  *)
(* has begun and not ended; one that has taken the outcome of the next.     *)
Pending == {"calling", "nested", "storing", "suspended"}
Active == PCs \ {"none", "final", "ended"}
HasTaken == {"flagging", "notifying", "leaving", "finalizing", "final",
             "ended"}
HasResult == {"finalizing", "final", "ended"}

Inner == 0 .. Depth - 1

(* Only the last coroutine is parked, only the first flags.                 *)
PCInv ==
    /\ \A i \in Inner : frame[i].pc \notin {"parked", "scheduled"}
    /\ frame[Depth].pc \notin Pending \cup {"result"}
    /\ \A i \in Frames \ {0} : frame[i].pc \notin {"flagging", "notifying"}

(* A coroutine runs below coroutines that await.                            *)
ActiveInv ==
    \A i, j \in Frames :
        i < j /\ frame[j].pc \in Active => frame[i].pc \in Pending

(* What the place of a coroutine says of the one it awaits.                 *)
AwaitInv ==
    \A i \in Inner :
        /\ frame[i].pc \in {"none", "running"} => frame[i + 1].pc = "none"
        /\ frame[i].pc \in Pending => frame[i + 1].pc # "none"
        /\ frame[i].pc = "result" =>
              Done(i + 1) /\ (frame[i + 1].pc = "final"
                                => frame[i + 1].captured = None)
        /\ frame[i + 1].alive <=> frame[i].pc \notin HasTaken

(* The caller is known from Store on, and suspended until FinalAwait        *)
(* resumes it.                                                              *)
CallerInv ==
    /\ \A i \in Inner :
          frame[i].pc = "suspended" <=>
             /\ frame[i + 1].caller = i
             /\ ~(frame[i + 1].pc = "ended" /\ frame[i + 1].captured = i)
    /\ \A i \in Inner :
          frame[i].pc \in Pending \ {"suspended"} => frame[i + 1].caller = None
    /\ \A i \in Frames :
          /\ frame[i].captured # None =>
                frame[i].caller # None /\ frame[i].pc \in HasResult
          /\ frame[i].caller # None => frame[i].pc # "none"

(* A promise may be checked once its coroutine has ended.                   *)
CheckInv ==
    \A i \in Frames : frame[i].pc \in HasResult => frame[i].mayBeChecked

(* The exception is with one coroutine at most, which is ending or has      *)
(* ended, or is the last one and was told while it was suspended.           *)
Carries(i) == frame[i].exception # "none" \/ frame[i].thrown # "none"

ErrorInv ==
    /\ \A i \in Frames :
          /\ frame[i].exception # "none" =>
                /\ frame[i].exception = error /\ frame[i].thrown = "none"
                /\ frame[i].caller # None
                /\ \/ frame[i].pc \in {"leaving"} \cup HasResult
                   \/ i = Depth /\ frame[i].pc \in {"scheduled", "running"}
          /\ frame[i].thrown # "none" =>
                /\ frame[i].thrown = error
                /\ frame[i].pc \in {"flagging", "notifying", "leaving"}
    /\ \A i, j \in Frames : Carries(i) /\ Carries(j) => i = j
    /\ error # "none" => \E i \in Frames : Carries(i)

(* A frame is destroyed after its end, without an exception in its promise, *)
(* and when nobody is going to resume it or to join for it.                 *)
AliveInv ==
    /\ AwaitsAfterEnd
    /\ \A i \in Frames : ~frame[i].alive => frame[i].exception = "none"

(* What a coroutine ends with is what it has taken, unless it was caught.   *)
Carried(i) == IF frame[i].exception # "none" THEN frame[i].exception
              ELSE IF frame[i].thrown # "none" THEN frame[i].thrown
              ELSE "value"

ResultInv ==
    /\ \A i \in Frames :
          /\ frame[i].result = "pending" <=> frame[i].pc \notin HasResult
          /\ frame[i].pc \in HasResult /\ frame[i].alive =>
                frame[i].result = Carried(i)
    /\ \A i \in Inner :
          frame[i].pc \in {"flagging", "notifying", "leaving"} =>
             Carried(i) \in Promised!Passed(i, frame[i + 1].result)

(* The frame of waitHelper lasts until the blocking wait returns.           *)
MainInv == frame[0].alive <=> main # "returned"

IInv ==
    /\ TypeOK
    /\ PCInv
    /\ ActiveInv
    /\ AwaitInv
    /\ CallerInv
    /\ CheckInv
    /\ ErrorInv
    /\ AliveInv
    /\ ResultInv
    /\ MainInv

(* The part of the invariant that is about the frames alone.                *)
LinkInv ==
    \A i \in Frames : /\ frame[i].caller \in {i - 1, None}
                      /\ frame[i].captured \in {i - 1, None}

FrameInv ==
    /\ LinkInv /\ PCInv /\ ActiveInv /\ AwaitInv /\ CallerInv
    /\ CheckInv /\ ErrorInv /\ AliveInv /\ ResultInv

-----------------------------------------------------------------------------
(* How a step changes the place of one coroutine, and the groups of fields  *)
(* that a step leaves alone.                                                *)
Moves(i, to) ==
    \A j \in Frames : frame'[j].pc = IF j = i THEN to ELSE frame[j].pc

KeepsLinks ==
    \A j \in Frames : /\ frame'[j].caller = frame[j].caller
                      /\ frame'[j].captured = frame[j].captured

KeepsErrors ==
    /\ error' = error
    /\ \A j \in Frames : /\ frame'[j].exception = frame[j].exception
                         /\ frame'[j].thrown = frame[j].thrown

KeepsEnds ==
    \A j \in Frames : /\ frame'[j].mayBeChecked = frame[j].mayBeChecked
                      /\ frame'[j].alive = frame[j].alive
                      /\ frame'[j].result = frame[j].result

(* A step that only moves one coroutine, and one that only ends the process. *)
Passes(i, from, to) ==
    /\ frame[i].pc = from /\ Moves(i, to)
    /\ KeepsLinks /\ KeepsErrors /\ KeepsEnds
    /\ crash' = crash

Fails(c) ==
    /\ UNCHANGED <<frame, error>>
    /\ crash' = c

(* suspendThis, the event, the resumption by a worker.                      *)
SuspendDoes ==
    /\ Passes(Depth, "running", "parked")
    /\ frame[Depth].exception = "none"

ScheduleDoes ==
    Passes(Depth, "parked", "scheduled")

ResumeDoes ==
    Passes(Depth, "scheduled", "running")

(* raiseException, or the end of the process without a caller.              *)
RaiseDoes ==
    \/ Fails("raised_without_caller")
    \/ /\ frame[Depth].pc = "parked" /\ frame[Depth].caller # None
       /\ Moves(Depth, "scheduled") /\ KeepsLinks
       /\ \A j \in Frames :
             /\ frame'[j].exception = IF j = Depth THEN "closed"
                                      ELSE frame[j].exception
             /\ frame'[j].thrown = frame[j].thrown
             /\ frame'[j].mayBeChecked = (j = Depth \/ frame[j].mayBeChecked)
             /\ frame'[j].alive = frame[j].alive
             /\ frame'[j].result = frame[j].result
       /\ error' = "closed" /\ crash' = crash

(* The body of the last coroutine ends, perhaps with an exception.          *)
LeaveDoes ==
    \/ Passes(Depth, "running", "leaving")
    \/ /\ frame[Depth].pc = "running" /\ frame[Depth].exception = "none"
       /\ Moves(Depth, "leaving") /\ KeepsLinks /\ KeepsEnds
       /\ \A j \in Frames :
             /\ frame'[j].exception = frame[j].exception
             /\ frame'[j].thrown = IF j = Depth THEN error'
                                   ELSE frame[j].thrown
       /\ error' \in {"closed", "other"} /\ crash' = crash

(* A coroutine calls the next one, which begins, or resumes it.             *)
CallDoes(i) ==
    /\ frame[i].pc = "running"
    /\ \A j \in Frames :
          frame'[j].pc = IF j = i THEN "calling"
                         ELSE IF j = i + 1 THEN "running" ELSE frame[j].pc
    /\ KeepsLinks /\ KeepsErrors /\ KeepsEnds
    /\ crash' = crash

ResumeSuspendedDoes(i) ==
    /\ frame[i].pc = "calling" /\ i + 1 = Depth
    /\ frame[Depth].pc = "parked"
    /\ \A j \in Frames :
          frame'[j].pc = IF j = i THEN "nested"
                         ELSE IF j = Depth THEN "running" ELSE frame[j].pc
    /\ KeepsLinks /\ KeepsErrors /\ KeepsEnds
    /\ crash' = crash

(* await_ready, await_suspend and await_resume.                             *)
ReadyDoes(i) ==
    /\ frame[i].pc \in {"calling", "nested"}
    /\ \/ Done(i + 1) /\ Moves(i, "result")
       \/ ~Done(i + 1) /\ Moves(i, "storing")
    /\ KeepsLinks /\ KeepsErrors /\ KeepsEnds
    /\ crash' = crash

StoreDoes(i) ==
    /\ frame[i].pc = "storing" /\ frame[i + 1].caller = None
    /\ Moves(i, "suspended")
    /\ \A j \in Frames :
          /\ frame'[j].caller = IF j = i + 1 THEN i ELSE frame[j].caller
          /\ frame'[j].captured = frame[j].captured
    /\ KeepsErrors /\ KeepsEnds
    /\ crash' = crash

TakeDoes(i) ==
    /\ frame[i].pc = "result" /\ Done(i + 1)
    /\ Moves(i, IF i = 0 THEN "flagging" ELSE "leaving")
    /\ KeepsLinks
    /\ \A j \in Frames :
          /\ frame'[j].exception = IF j = i + 1 THEN "none"
                                   ELSE frame[j].exception
          /\ j # i => frame'[j].thrown = frame[j].thrown
          /\ frame'[j].mayBeChecked = frame[j].mayBeChecked
          /\ frame'[j].alive = (j # i + 1 /\ frame[j].alive)
          /\ frame'[j].result = frame[j].result
    /\ frame'[i].thrown = IF Catches(i) THEN "none"
                          ELSE frame[i + 1].exception
    /\ error' = IF Catches(i) THEN "none" ELSE error
    /\ crash' = crash

(* unhandled_exception and final_suspend.                                   *)
UnhandledDoes(i) ==
    \/ Fails("unhandled")
    \/ /\ frame[i].pc = "leaving" /\ frame[i].thrown # "none"
       /\ frame[i].caller # None /\ frame[i].exception = "none"
       /\ \A j \in Frames :
             /\ frame'[j].pc = frame[j].pc
             /\ frame'[j].exception = IF j = i THEN frame[i].thrown
                                      ELSE frame[j].exception
             /\ frame'[j].thrown = IF j = i THEN "none" ELSE frame[j].thrown
             /\ frame'[j].mayBeChecked = (j = i \/ frame[j].mayBeChecked)
             /\ frame'[j].alive = frame[j].alive
             /\ frame'[j].result = frame[j].result
       /\ KeepsLinks /\ error' = error /\ crash' = crash

(* The exception leaves the call for the body of the caller.                *)
EscapeDoes(i) ==
    \/ Fails("unchecked_destroy")
    \/ /\ frame[i].pc = "leaving" /\ frame[i].thrown # "none"
       /\ frame[i].caller = None
       /\ i > 1 /\ frame[i - 1].pc \in {"calling", "nested"}
       /\ \A j \in Frames :
             /\ frame'[j].pc = IF j = i THEN "ended"
                               ELSE IF j = i - 1 THEN "leaving"
                               ELSE frame[j].pc
             /\ frame'[j].exception = frame[j].exception
             /\ frame'[j].thrown = IF j = i THEN "none"
                                   ELSE IF j = i - 1 THEN Escaping(i)
                                   ELSE frame[j].thrown
             /\ frame'[j].mayBeChecked = (j = i \/ frame[j].mayBeChecked)
             /\ frame'[j].alive = (j # i /\ frame[j].alive)
             /\ frame'[j].result = IF j = i THEN frame[i].thrown
                                   ELSE frame[j].result
       /\ KeepsLinks
       /\ error' = Escaping(i) /\ crash' = crash

FinalizeDoes(i) ==
    /\ frame[i].pc = "leaving" /\ frame[i].thrown = "none"
    /\ Moves(i, "finalizing")
    /\ \A j \in Frames :
          /\ frame'[j].caller = frame[j].caller
          /\ frame'[j].captured = IF j = i THEN frame[i].caller
                                  ELSE frame[j].captured
          /\ frame'[j].mayBeChecked = (j = i \/ frame[j].mayBeChecked)
          /\ frame'[j].alive = frame[j].alive
          /\ frame'[j].result = IF j # i THEN frame[j].result
                                ELSE IF frame[i].exception = "none" THEN "value"
                                ELSE frame[i].exception
    /\ KeepsErrors
    /\ crash' = crash

(* done() becomes true; FinalAwait resumes the caller.                      *)
SuspendFinallyDoes(i) ==
    Passes(i, "finalizing", "final")

TransferDoes(i) ==
    /\ frame[i].pc = "final" /\ frame[i].alive
    /\ \A j \in Frames :
          frame'[j].pc = IF j = frame[i].captured THEN "result"
                         ELSE IF j = i THEN "ended" ELSE frame[j].pc
    /\ KeepsLinks /\ KeepsErrors /\ KeepsEnds
    /\ crash' = crash

TransferDestroyedDoes(i) ==
    \/ Fails("use_after_destroy")
    \/ Passes(i, "final", "ended") /\ ~frame[i].alive

(* The helper sets the flag and notifies the waiting thread.                *)
FlagDoes ==
    Passes(0, "flagging", "notifying")

NotifyDoes ==
    Passes(0, "notifying", "leaving")

(* The blocking wait destroys the helper.                                   *)
ReturnDoes ==
    \/ Fails("destroyed_early")
    \/ /\ Done(0)
       /\ \A j \in Frames :
             /\ frame'[j].pc = frame[j].pc
             /\ frame'[j].mayBeChecked = frame[j].mayBeChecked
             /\ frame'[j].alive = (j # 0 /\ frame[j].alive)
             /\ frame'[j].result = frame[j].result
       /\ KeepsLinks /\ KeepsErrors /\ crash' = crash

-----------------------------------------------------------------------------
(* The chain: who awaits whom, and that None is nobody in it.               *)
LEMMA Chain ==
    /\ 0 \in Frames /\ Depth \in Frames /\ None \notin Frames
    /\ \A i \in Inner : /\ i \in Frames /\ i + 1 \in Frames
                        /\ i # i + 1 /\ i # Depth /\ i + 1 # 0
    /\ \A i \in Frames : i \in Nat /\ (i # Depth => i \in Inner)
    /\ \A i, j \in Inner : i + 1 = j + 1 => i = j
BY DepthAssumption, NoneAssumption DEF Frames, Inner

(* While the last coroutine is suspended or runs, all others await.         *)
LEMMA NobodyCarries ==
    ASSUME IInv, frame[Depth].pc \in {"parked", "running"},
           frame[Depth].exception = "none"
    PROVE  error = "none" /\ \A i \in Frames : ~Carries(i)
<1>1. ASSUME NEW i \in Inner
      PROVE  frame[i].pc \in Pending
    BY <1>1, Chain, DepthAssumption DEF IInv, ActiveInv, Active, PCs, Inner
<1>2. ASSUME NEW i \in Inner
      PROVE  ~Carries(i)
    BY <1>1, <1>2, Chain DEF IInv, ErrorInv, Carries, Pending, HasResult
<1>3. ~Carries(Depth)
    BY Chain DEF IInv, ErrorInv, Carries
<1>4. \A i \in Frames : ~Carries(i)
    BY <1>2, <1>3, Chain
<1> QED
    BY <1>4 DEF IInv, ErrorInv

(* The caller that FinalAwait holds is suspended.                           *)
LEMMA FinalCaller ==
    ASSUME IInv, NEW i \in Frames, frame[i].pc = "final",
           NEW c \in Frames, frame[i].captured = c
    PROVE  c \in Inner /\ i = c + 1 /\ frame[c].pc = "suspended"
<1>1. c # None
    BY Chain
<1>2. c = i - 1
    BY <1>1 DEF IInv, TypeOK
<1>3. c \in Inner /\ i = c + 1
    BY <1>2, DepthAssumption DEF Frames, Inner
<1>4. frame[i].caller # None
    BY <1>1 DEF IInv, CallerInv
<1>5. frame[i].caller = c
    BY <1>2, <1>4 DEF IInv, TypeOK
<1> QED
    BY <1>3, <1>5 DEF IInv, CallerInv

(* A step that moves one coroutine leaves every co_await consistent if it   *)
(* moves it between places of one kind.                                     *)
LEMMA MovesAwait ==
    ASSUME IInv, NEW i \in Frames, NEW to, Moves(i, to),
           \A j \in Frames : /\ frame'[j].captured = frame[j].captured
                             /\ frame'[j].alive <=> frame[j].alive,
           frame[i].pc # "none", to # "none",
           i = Depth \/ to # "running",
           i = Depth \/ (to \in HasTaken <=> frame[i].pc \in HasTaken),
           to \in Pending => frame[i].pc \in Pending,
           to = "result" => Done(i + 1) /\ frame[i + 1].captured = None,
           Done(i) => to = "ended"
    PROVE  AwaitInv'
<1>1. /\ frame'[i].pc = to
      /\ \A j \in Frames : j # i => frame'[j].pc = frame[j].pc
    BY DEF Moves
<1>2. ASSUME NEW j \in Inner
      PROVE  /\ frame[j + 1].pc = "none" <=> frame'[j + 1].pc = "none"
             /\ Done(j + 1) => Done(j + 1)'
             /\ Done(j + 1) /\ frame'[j + 1].pc = "final" =>
                    frame[j + 1].pc = "final"
  <2>1. j + 1 \in Frames
      BY Chain
  <2>2. CASE j + 1 = i
      BY <1>1, <2>2 DEF Done
  <2>3. CASE j + 1 # i
      BY <1>1, <2>1, <2>3 DEF Done
  <2> QED
      BY <2>2, <2>3
<1>3. ASSUME NEW j \in Inner
      PROVE  /\ frame'[j].pc \in {"none", "running"} =>
                    frame'[j + 1].pc = "none"
             /\ frame'[j].pc \in Pending => frame'[j + 1].pc # "none"
             /\ frame'[j].pc = "result" =>
                    Done(j + 1)' /\ (frame'[j + 1].pc = "final"
                                         => frame'[j + 1].captured = None)
             /\ frame'[j + 1].alive <=> frame'[j].pc \notin HasTaken
  <2>1. j \in Frames /\ j + 1 \in Frames /\ j # Depth
      BY Chain
  <2>2. CASE j = i
      BY <1>1, <1>2, <2>1, <2>2 DEF IInv, AwaitInv
  <2>3. CASE j # i
      BY <1>1, <1>2, <2>1, <2>3 DEF IInv, AwaitInv
  <2> QED
      BY <2>2, <2>3
<1> QED
    BY <1>3 DEF AwaitInv

(* And it leaves the stored callers consistent if it moves no caller that   *)
(* was stored, and lets no coroutine end without its caller.                *)
LEMMA MovesCaller ==
    ASSUME IInv, NEW i \in Frames, NEW to, Moves(i, to), KeepsLinks,
           frame[i].pc \notin {"suspended", "ended"},
           to \notin {"suspended", "none"},
           to = "ended" => frame[i].captured = None,
           to \in Pending => frame[i].pc \in Pending,
           frame[i].pc \in HasResult => to \in HasResult
    PROVE  CallerInv'
<1>1. /\ \A j \in Frames : /\ frame'[j].caller = frame[j].caller
                           /\ frame'[j].captured = frame[j].captured
      /\ \A j \in Frames : j # i => frame'[j].pc = frame[j].pc
      /\ frame'[i].pc = to
    BY DEF Moves, KeepsLinks
<1>2. ASSUME NEW j \in Frames
      PROVE  /\ frame'[j].pc = "suspended" <=> frame[j].pc = "suspended"
             /\ frame'[j].pc \in Pending => frame[j].pc \in Pending
             /\ frame[j].captured # None =>
                    /\ frame'[j].pc = "ended" <=> frame[j].pc = "ended"
                    /\ frame'[j].pc \in HasResult
             /\ frame'[j].pc = "none" => frame[j].pc = "none"
  <2>1. CASE j = i
      BY <1>1, <2>1 DEF IInv, CallerInv
  <2>2. CASE j # i
      BY <1>1, <2>2 DEF IInv, CallerInv
  <2> QED
      BY <2>1, <2>2
<1>3. ASSUME NEW j \in Inner
      PROVE  /\ frame'[j].pc = "suspended" <=>
                   /\ frame'[j + 1].caller = j
                   /\ ~(/\ frame'[j + 1].pc = "ended"
                        /\ frame'[j + 1].captured = j)
             /\ frame'[j].pc \in Pending \ {"suspended"} =>
                   frame'[j + 1].caller = None
  <2>1. j \in Frames /\ j + 1 \in Frames /\ j # None
      BY Chain
  <2> QED
      BY <1>1, <1>2, <2>1 DEF IInv, CallerInv
<1> QED
    BY <1>1, <1>2, <1>3 DEF IInv, CallerInv

-----------------------------------------------------------------------------
(* Suspend has the effect SuspendDoes.                                      *)
LEMMA SuspendEffect ==
    ASSUME IInv, crash = "no", Suspend
    PROVE  frame' \in [Frames -> FrameTypes] /\ SuspendDoes
<1>1. Depth \in Frames
    BY DepthAssumption DEF Frames
<1>2. frame \in [Frames -> FrameTypes] /\ frame[Depth] \in FrameTypes
    BY <1>1 DEF IInv, TypeOK
<1>3. /\ frame[Depth].pc = "running" /\ frame[Depth].exception = "none"
      /\ frame' = [frame EXCEPT ![Depth].pc = "parked",
                                ![Depth].returned = TRUE]
      /\ error' = error /\ crash' = crash
    BY DEF Suspend
<1>4. frame' \in [Frames -> FrameTypes]
  <2>1. [frame[Depth] EXCEPT !.pc = "parked", !.returned = TRUE]
            \in FrameTypes
      BY <1>2 DEF FrameTypes, PCs, Errors
  <2> QED
      BY <1>1, <1>2, <1>3, <2>1 DEF SuspendDoes
<1>5. Moves(Depth, "parked")
    BY <1>1, <1>2, <1>3 DEF FrameTypes, Moves
<1>6. KeepsLinks /\ KeepsErrors /\ KeepsEnds
    BY <1>1, <1>2, <1>3 DEF FrameTypes, KeepsLinks, KeepsErrors, KeepsEnds
<1> QED
    BY <1>3, <1>4, <1>5, <1>6 DEF SuspendDoes, Passes

(* Schedule has the effect ScheduleDoes.                                    *)
LEMMA ScheduleEffect ==
    ASSUME IInv, crash = "no", Schedule
    PROVE  frame' \in [Frames -> FrameTypes] /\ ScheduleDoes
<1>1. 0 \in Frames /\ Depth \in Frames
    BY DepthAssumption DEF Frames
<1>2. frame' \in [Frames -> FrameTypes]
    BY <1>1 DEF IInv, TypeOK, FrameTypes, Schedule, PCs, Errors
<1>3. ScheduleDoes
    BY <1>1 DEF ScheduleDoes, IInv, TypeOK, FrameTypes, Schedule, Moves,
       KeepsLinks, KeepsErrors, KeepsEnds, Passes, Fails, waiting
<1> QED
    BY <1>2, <1>3

(* Resume has the effect ResumeDoes.                                        *)
LEMMA ResumeEffect ==
    ASSUME IInv, crash = "no", Resume
    PROVE  frame' \in [Frames -> FrameTypes] /\ ResumeDoes
<1>1. 0 \in Frames /\ Depth \in Frames
    BY DepthAssumption DEF Frames
<1>2. frame' \in [Frames -> FrameTypes]
    BY <1>1 DEF IInv, TypeOK, FrameTypes, Resume, PCs, Errors
<1>3. ResumeDoes
    BY <1>1 DEF ResumeDoes, IInv, TypeOK, FrameTypes, Resume, Moves,
       KeepsLinks, KeepsErrors, KeepsEnds, Passes, Fails, waiting
<1> QED
    BY <1>2, <1>3

(* Raise has the effect RaiseDoes.                                          *)
LEMMA RaiseEffect ==
    ASSUME IInv, crash = "no", Raise
    PROVE  frame' \in [Frames -> FrameTypes] /\ RaiseDoes
<1>1. Depth \in Frames
    BY DepthAssumption DEF Frames
<1>2. frame \in [Frames -> FrameTypes]
    BY DEF IInv, TypeOK
<1>3. CASE frame[Depth].caller = None
    BY <1>2, <1>3 DEF RaiseDoes, Raise, Fails
<1>4. CASE frame[Depth].caller # None
  <2>1. frame' \in [Frames -> FrameTypes]
      BY <1>1, <1>2, <1>4 DEF Raise, FrameTypes, PCs, Errors
  <2> QED
      BY <1>1, <1>2, <1>4, <2>1 DEF RaiseDoes, Raise, FrameTypes, Moves,
         KeepsLinks
<1> QED
    BY <1>3, <1>4

(* Leave has the effect LeaveDoes.                                          *)
LEMMA LeaveEffect ==
    ASSUME IInv, crash = "no", Leave
    PROVE  frame' \in [Frames -> FrameTypes] /\ LeaveDoes
<1>1. 0 \in Frames /\ Depth \in Frames
    BY DepthAssumption DEF Frames
<1>2. frame' \in [Frames -> FrameTypes]
    BY <1>1 DEF IInv, TypeOK, FrameTypes, Leave, PCs, Errors
<1>3. LeaveDoes
    BY <1>1 DEF LeaveDoes, IInv, TypeOK, FrameTypes, Leave, Moves,
       KeepsLinks, KeepsErrors, KeepsEnds, Passes, Fails, waiting
<1> QED
    BY <1>2, <1>3

(* Call has the effect CallDoes.                                            *)
LEMMA CallEffect ==
    ASSUME IInv, crash = "no", NEW i \in Inner, Call(i)
    PROVE  frame' \in [Frames -> FrameTypes] /\ CallDoes(i)
<1>1. 0 \in Frames /\ Depth \in Frames
    BY DepthAssumption DEF Frames
<1>2. i \in Frames /\ i + 1 \in Frames /\ i # i + 1 /\ i # Depth
    BY DepthAssumption DEF Frames, Inner
<1>3. frame \in [Frames -> FrameTypes]
    BY DEF IInv, TypeOK
<1>4. /\ frame[i].pc = "running" /\ error' = error /\ crash' = crash
      /\ frame' = [frame EXCEPT ![i].pc = "calling", ![i + 1].pc = "running"]
    BY DEF Call
<1>5. frame' \in [Frames -> FrameTypes]
  <2> DEFINE callerOf == [frame EXCEPT ![i].pc = "calling"]
  <2>1. callerOf \in [Frames -> FrameTypes]
      BY <1>2, <1>3 DEF FrameTypes, PCs
  <2>2. frame' = [callerOf EXCEPT ![i + 1].pc = "running"]
      BY ZenonT(30) DEF Call
  <2> HIDE DEF callerOf
  <2>3. callerOf[i + 1] \in FrameTypes
      BY <1>2, <2>1
  <2>4. [callerOf[i + 1] EXCEPT !.pc = "running"] \in FrameTypes
      BY <2>3 DEF FrameTypes, PCs
  <2> QED
      BY <1>2, <2>1, <2>2, <2>4
<1>6. \A j \in Frames :
          frame'[j].pc = IF j = i THEN "calling"
                         ELSE IF j = i + 1 THEN "running" ELSE frame[j].pc
    BY <1>2, <1>3, <1>4 DEF FrameTypes
<1>7. KeepsLinks
    BY <1>2, <1>3, <1>4 DEF FrameTypes, KeepsLinks
<1>8. KeepsErrors
    BY <1>2, <1>3, <1>4 DEF FrameTypes, KeepsErrors
<1>9. KeepsEnds
    BY <1>2, <1>3, <1>4 DEF FrameTypes, KeepsEnds
<1> QED
    BY <1>4, <1>5, <1>6, <1>7, <1>8, <1>9 DEF CallDoes

(* ResumeSuspended has the effect ResumeSuspendedDoes.                      *)
LEMMA ResumeSuspendedEffect ==
    ASSUME IInv, crash = "no", NEW i \in Inner, ResumeSuspended(i)
    PROVE  frame' \in [Frames -> FrameTypes] /\ ResumeSuspendedDoes(i)
<1>1. i \in Frames /\ Depth \in Frames /\ i # Depth
    BY DepthAssumption DEF Frames, Inner
<1>2. frame \in [Frames -> FrameTypes]
    BY DEF IInv, TypeOK
<1>3. frame' \in [Frames -> FrameTypes]
  <2> DEFINE called == [frame EXCEPT ![i].pc = "nested"]
  <2>1. called \in [Frames -> FrameTypes]
      BY <1>1, <1>2 DEF FrameTypes, PCs
  <2>2. frame' = [called EXCEPT ![Depth].pc = "running",
                               ![Depth].returned = FALSE]
      BY ZenonT(30) DEF ResumeSuspended
  <2> HIDE DEF called
  <2>3. called[Depth] \in FrameTypes
      BY <1>1, <2>1
  <2>4. [called[Depth] EXCEPT !.pc = "running", !.returned = FALSE]
            \in FrameTypes
      BY <2>3 DEF FrameTypes, PCs, Errors
  <2> QED
      BY <1>1, <2>1, <2>2, <2>4 DEF ResumeSuspendedDoes
<1>4. /\ frame[i].pc = "calling" /\ i + 1 = Depth
      /\ frame[Depth].pc = "parked"
      /\ error' = error /\ crash' = crash
      /\ frame' = [frame EXCEPT ![i].pc = "nested", ![Depth].pc = "running",
                                ![Depth].returned = FALSE]
    BY DEF ResumeSuspended
<1>5. \A j \in Frames :
          frame'[j].pc = IF j = i THEN "nested"
                         ELSE IF j = Depth THEN "running" ELSE frame[j].pc
    BY <1>1, <1>2, <1>4 DEF FrameTypes
<1>6. KeepsLinks /\ KeepsErrors /\ KeepsEnds
    BY <1>1, <1>2, <1>4 DEF FrameTypes, KeepsLinks, KeepsErrors, KeepsEnds
<1> QED
    BY <1>3, <1>4, <1>5, <1>6 DEF ResumeSuspendedDoes

(* Ready has the effect ReadyDoes.                                          *)
LEMMA ReadyEffect ==
    ASSUME IInv, crash = "no", NEW i \in Inner, Ready(i)
    PROVE  frame' \in [Frames -> FrameTypes] /\ ReadyDoes(i)
<1>1. i \in Frames /\ i + 1 \in Frames /\ i # i + 1
    BY DepthAssumption DEF Frames, Inner
<1>2. frame \in [Frames -> FrameTypes]
    BY DEF IInv, TypeOK
<1>3. CASE Done(i + 1)
    BY <1>1, <1>2, <1>3 DEF ReadyDoes, Ready, FrameTypes, PCs, Moves,
       KeepsLinks, KeepsErrors, KeepsEnds
<1>4. CASE ~Done(i + 1)
    BY <1>1, <1>2, <1>4 DEF ReadyDoes, Ready, FrameTypes, PCs, Moves,
       KeepsLinks, KeepsErrors, KeepsEnds
<1> QED
    BY <1>3, <1>4

(* Store has the effect StoreDoes.                                          *)
LEMMA StoreEffect ==
    ASSUME IInv, crash = "no", NEW i \in Inner, Store(i)
    PROVE  frame' \in [Frames -> FrameTypes] /\ StoreDoes(i)
<1>1. i \in Frames /\ i + 1 \in Frames /\ i # i + 1
    BY DepthAssumption DEF Frames, Inner
<1>2. frame \in [Frames -> FrameTypes]
    BY DEF IInv, TypeOK
<1>3. frame[i + 1].caller = None
    BY DEF IInv, CallerInv, Pending, Store
<1>4. frame' \in [Frames -> FrameTypes]
    BY <1>1, <1>2, <1>3 DEF Store, FrameTypes, PCs
<1> QED
    BY <1>1, <1>2, <1>3, <1>4 DEF StoreDoes, Store, FrameTypes, Moves,
       KeepsLinks, KeepsErrors, KeepsEnds

(* Take has the effect TakeDoes.                                            *)
LEMMA TakeEffect ==
    ASSUME IInv, crash = "no", NEW i \in Inner, Take(i)
    PROVE  frame' \in [Frames -> FrameTypes] /\ TakeDoes(i)
<1>1. i \in Frames /\ i + 1 \in Frames /\ i # i + 1
    BY DepthAssumption DEF Frames, Inner
<1>2. frame \in [Frames -> FrameTypes]
    BY DEF IInv, TypeOK
<1>3. Done(i + 1) /\ frame[i + 1].mayBeChecked
    BY <1>1 DEF IInv, AwaitInv, CheckInv, Take, Done, HasResult
<1>4. TakeResult(i, IF Catches(i) THEN "none" ELSE frame[i + 1].exception)
    BY <1>3 DEF Take
<1>5. /\ frame[i + 1].exception \in Errors
      /\ (IF Catches(i) THEN "none" ELSE frame[i + 1].exception) \in Errors
    BY <1>1, <1>2 DEF FrameTypes, Errors
<1>6. frame' \in [Frames -> FrameTypes]
    BY <1>1, <1>2, <1>4, <1>5 DEF TakeResult, FrameTypes, PCs, Errors
<1>7. /\ Moves(i, IF i = 0 THEN "flagging" ELSE "leaving")
      /\ KeepsLinks
    BY <1>1, <1>2, <1>4 DEF TakeResult, FrameTypes, Moves, KeepsLinks
<1>8. \A j \in Frames :
          /\ frame'[j].exception = IF j = i + 1 THEN "none"
                                   ELSE frame[j].exception
          /\ j # i => frame'[j].thrown = frame[j].thrown
          /\ frame'[j].mayBeChecked = frame[j].mayBeChecked
          /\ frame'[j].result = frame[j].result
    BY <1>1, <1>2, <1>4 DEF TakeResult, FrameTypes
<1>9. \A j \in Frames : frame'[j].alive = (j # i + 1 /\ frame[j].alive)
    BY <1>1, <1>2, <1>4 DEF TakeResult, FrameTypes
<1>10. frame'[i].thrown = IF Catches(i) THEN "none"
                          ELSE frame[i + 1].exception
    BY <1>1, <1>2, <1>4 DEF TakeResult, FrameTypes
<1> QED
    BY <1>3, <1>4, <1>6, <1>7, <1>8, <1>9, <1>10 DEF TakeDoes, Take,
       TakeResult

(* Unhandled has the effect UnhandledDoes.                                  *)
LEMMA UnhandledEffect ==
    ASSUME IInv, crash = "no", NEW i \in Frames, Unhandled(i)
    PROVE  frame' \in [Frames -> FrameTypes] /\ UnhandledDoes(i)
<1>1. frame \in [Frames -> FrameTypes]
    BY DEF IInv, TypeOK
<1>2. frame[i].exception = "none"
    BY DEF IInv, ErrorInv, Unhandled
<1>3. CASE frame[i].caller = None
    BY <1>1, <1>3 DEF UnhandledDoes, Unhandled, Fails
<1>4. CASE frame[i].caller # None
  <2>1. frame[i].thrown \in Errors
      BY <1>1 DEF FrameTypes
  <2>2. frame' \in [Frames -> FrameTypes]
      BY <1>1, <1>2, <1>4, <2>1 DEF Unhandled, FrameTypes, Errors
  <2> QED
      BY <1>1, <1>2, <1>4, <2>2 DEF UnhandledDoes, Unhandled, FrameTypes,
         KeepsLinks
<1> QED
    BY <1>3, <1>4

(* Escape has the effect EscapeDoes.                                        *)
LEMMA EscapeEffect ==
    ASSUME IInv, crash = "no", NEW i \in Frames, Escape(i)
    PROVE  frame' \in [Frames -> FrameTypes] /\ EscapeDoes(i)
<1>1. frame \in [Frames -> FrameTypes]
    BY DEF IInv, TypeOK
<1>2. CASE UNCHANGED <<frame, error>> /\ crash' = "unchecked_destroy"
    BY <1>1, <1>2 DEF EscapeDoes, Fails
<1>3. CASE ~(UNCHANGED <<frame, error>> /\ crash' = "unchecked_destroy")
  <2> DEFINE c == i - 1
             o == frame[i].thrown
             e == Escaping(i)
             final == [frame[i] EXCEPT !.pc = "ended", !.mayBeChecked = TRUE,
                                       !.thrown = "none"]
             ending == [final EXCEPT !.alive = FALSE, !.returned = TRUE,
                                     !.result = o]
             calling == [frame[c] EXCEPT !.pc = "leaving", !.thrown = e]
  <2>1. i > 1 /\ c \in Frames /\ c # i
    <3>1. i > 1
        BY DEF Escape, InCall
    <3> QED
        BY <3>1, DepthAssumption DEF Frames
  <2>2. /\ o \in Errors /\ o # "none" /\ e \in Errors
        /\ frame[i].pc = "leaving" /\ frame[i].caller = None
        /\ frame[c].pc \in {"calling", "nested"}
      BY <1>1 DEF Escape, InCall, Escaping, FrameTypes, Errors
  <2>3. /\ frame' = [frame EXCEPT
                       ![i].pc = "ended", ![i].mayBeChecked = TRUE,
                       ![i].thrown = "none", ![i].alive = FALSE,
                       ![i].returned = TRUE, ![i].result = o,
                       ![c].pc = "leaving", ![c].thrown = e]
        /\ error' = e /\ crash' = crash
      BY <1>3 DEF Escape
  <2> HIDE DEF c, o, e
  <2>4. frame' = [frame EXCEPT ![i] = ending, ![c] = calling]
      BY <1>1, <2>1, <2>3
  <2>5. ending \in FrameTypes
    <3>1. frame[i] \in FrameTypes /\ o \in {"pending", "value", "closed", "other"}
        BY <1>1, <2>2 DEF Errors
    <3>2. final \in FrameTypes
        BY <3>1 DEF FrameTypes, PCs, Errors
    <3> HIDE DEF final
    <3> QED
        BY <3>1, <3>2 DEF FrameTypes
  <2>6. calling \in FrameTypes
    <3>1. frame[c] \in FrameTypes
        BY <1>1, <2>1
    <3> QED
        BY <2>2, <3>1 DEF FrameTypes, PCs
  <2>7. frame' \in [Frames -> FrameTypes]
    <3> HIDE DEF ending, calling
    <3> QED
        BY <1>1, <2>1, <2>4, <2>5, <2>6
  <2>8. \A j \in Frames :
           frame'[j] = IF j = i THEN ending
                       ELSE IF j = c THEN calling ELSE frame[j]
    <3> HIDE DEF ending, calling
    <3> QED
        BY <1>1, <2>1, <2>4
  <2>9. /\ ending.pc = "ended" /\ ending.mayBeChecked
        /\ ending.thrown = "none" /\ ~ending.alive /\ ending.result = o
        /\ ending.caller = frame[i].caller
        /\ ending.captured = frame[i].captured
        /\ ending.exception = frame[i].exception
      BY <1>1 DEF FrameTypes
  <2>10. /\ calling.pc = "leaving" /\ calling.thrown = e
         /\ calling.caller = frame[c].caller
         /\ calling.captured = frame[c].captured
         /\ calling.exception = frame[c].exception
         /\ calling.mayBeChecked = frame[c].mayBeChecked
         /\ calling.alive = frame[c].alive
         /\ calling.result = frame[c].result
      BY <1>1, <2>1 DEF FrameTypes
  <2>11. ending.mayBeChecked = TRUE /\ ending.alive = FALSE
      BY <1>1 DEF FrameTypes
  <2> HIDE DEF ending, calling
  <2>12. KeepsLinks
      BY <2>8, <2>9, <2>10 DEF KeepsLinks
  <2>13. \A j \in Frames :
             /\ frame'[j].pc = IF j = i THEN "ended"
                               ELSE IF j = c THEN "leaving"
                               ELSE frame[j].pc
             /\ frame'[j].exception = frame[j].exception
             /\ frame'[j].thrown = IF j = i THEN "none"
                                   ELSE IF j = c THEN e
                                   ELSE frame[j].thrown
             /\ frame'[j].result = IF j = i THEN o ELSE frame[j].result
      BY <2>8, <2>9, <2>10
  <2>14. \A j \in Frames :
             /\ frame'[j].mayBeChecked = (j = i \/ frame[j].mayBeChecked)
             /\ frame'[j].alive = (j # i /\ frame[j].alive)
    <3>1. \A j \in Frames : /\ frame[j].mayBeChecked \in BOOLEAN
                            /\ frame[j].alive \in BOOLEAN
        BY <1>1 DEF FrameTypes
    <3> QED
        BY <3>1, <2>8, <2>10, <2>11
  <2> QED
      BY <2>1, <2>2, <2>3, <2>7, <2>12, <2>13, <2>14 DEF EscapeDoes, c, o, e
<1> QED
    BY <1>2, <1>3

(* Finalize has the effect FinalizeDoes.                                    *)
LEMMA FinalizeEffect ==
    ASSUME IInv, crash = "no", NEW i \in Frames, Finalize(i)
    PROVE  frame' \in [Frames -> FrameTypes] /\ FinalizeDoes(i)
<1>1. frame \in [Frames -> FrameTypes]
    BY DEF IInv, TypeOK
<1>2. /\ frame[i].caller \in Frames \cup {None}
      /\ (IF frame[i].exception = "none" THEN "value"
          ELSE frame[i].exception) \in {"pending", "value", "closed", "other"}
    BY <1>1 DEF FrameTypes, Errors
<1> DEFINE o == IF frame[i].exception = "none" THEN "value"
                ELSE frame[i].exception
<1>3. /\ frame' = [frame EXCEPT
                  ![i].pc = "finalizing", ![i].mayBeChecked = TRUE,
                  ![i].captured = frame[i].caller, ![i].result = o]
      /\ o \in {"pending", "value", "closed", "other"}
    BY <1>2 DEF Finalize
<1> HIDE DEF o
<1>4. frame' \in [Frames -> FrameTypes]
  <2> DEFINE ending == [frame[i] EXCEPT !.pc = "finalizing",
                                        !.mayBeChecked = TRUE]
  <2>1. ending \in FrameTypes
    <3>1. frame[i] \in FrameTypes
        BY <1>1
    <3> QED
        BY <3>1 DEF FrameTypes, PCs
  <2> HIDE DEF ending
  <2> DEFINE ended == [ending EXCEPT !.captured = frame[i].caller,
                                     !.result = o]
  <2>2. ended \in FrameTypes
      BY <1>2, <1>3, <2>1 DEF FrameTypes
  <2>3. frame' = [frame EXCEPT ![i] = ended]
      BY <1>1, <1>3 DEF ending
  <2> QED
      BY <1>1, <2>2, <2>3
<1>5. /\ Moves(i, "finalizing") /\ KeepsErrors
      /\ frame[i].pc = "leaving" /\ frame[i].thrown = "none"
      /\ crash' = crash
    BY <1>1 DEF Finalize, FrameTypes, Moves, KeepsErrors
<1>6. \A j \in Frames : /\ frame'[j].caller = frame[j].caller
                        /\ frame'[j].alive = frame[j].alive
    BY <1>1, <1>3 DEF FrameTypes
<1>7. \A j \in Frames :
          frame'[j].captured = IF j = i THEN frame[i].caller
                               ELSE frame[j].captured
    BY <1>1, <1>3 DEF FrameTypes
<1>8. \A j \in Frames :
          frame'[j].mayBeChecked = (j = i \/ frame[j].mayBeChecked)
    BY <1>1, <1>3 DEF FrameTypes
<1>9. \A j \in Frames :
          frame'[j].result = IF j # i THEN frame[j].result ELSE o
    BY <1>1, <1>3 DEF FrameTypes
<1> QED
    BY <1>4, <1>5, <1>6, <1>7, <1>8, <1>9 DEF FinalizeDoes, o

(* SuspendFinally has the effect SuspendFinallyDoes.                        *)
LEMMA SuspendFinallyEffect ==
    ASSUME IInv, crash = "no", NEW i \in Frames, SuspendFinally(i)
    PROVE  frame' \in [Frames -> FrameTypes] /\ SuspendFinallyDoes(i)
<1>1. 0 \in Frames /\ Depth \in Frames
    BY DepthAssumption DEF Frames
<1>2. frame' \in [Frames -> FrameTypes]
    BY <1>1 DEF IInv, TypeOK, FrameTypes, SuspendFinally, PCs, Errors
<1>3. SuspendFinallyDoes(i)
    BY <1>1 DEF SuspendFinallyDoes, IInv, TypeOK, FrameTypes, SuspendFinally,
       Moves, KeepsLinks, KeepsErrors, KeepsEnds, Passes, Fails, waiting
<1> QED
    BY <1>2, <1>3

(* Transfer has the effect TransferDoes.                                    *)
LEMMA TransferEffect ==
    ASSUME IInv, crash = "no", NEW i \in Frames, Transfer(i)
    PROVE  frame' \in [Frames -> FrameTypes] /\ TransferDoes(i)
<1>1. frame \in [Frames -> FrameTypes]
    BY DEF IInv, TypeOK
<1>2. /\ frame[i].captured \in Frames \cup {None}
      /\ frame[i].captured \in {i - 1, None}
    BY <1>1 DEF FrameTypes, IInv, TypeOK
<1>3. frame[i].captured # i /\ None \notin Frames
  <2>1. None # i /\ i \in Int
      BY NoneAssumption DEF Frames
  <2>2. i - 1 # i
      BY <2>1
  <2> QED
      BY <1>2, <2>1, <2>2, NoneAssumption
<1>4. CASE frame[i].captured = None
  <2>1. /\ frame' = [frame EXCEPT ![i].pc = "ended", ![i].returned = TRUE]
        /\ frame[i].pc = "final" /\ frame[i].alive
        /\ error' = error /\ crash' = crash
      BY <1>4 DEF Transfer
  <2>2. frame' \in [Frames -> FrameTypes]
    <3>1. frame[i] \in FrameTypes
        BY <1>1
    <3>2. [frame[i] EXCEPT !.pc = "ended", !.returned = TRUE] \in FrameTypes
        BY <3>1 DEF FrameTypes, PCs, Errors
    <3> QED
        BY <1>1, <2>1, <3>2
  <2>3. \A j \in Frames :
            frame'[j].pc = IF j = i THEN "ended" ELSE frame[j].pc
      BY <1>1, <2>1 DEF FrameTypes
  <2>4. KeepsLinks /\ KeepsErrors /\ KeepsEnds
      BY <1>1, <2>1 DEF FrameTypes, KeepsLinks, KeepsErrors, KeepsEnds
  <2> QED
      BY <1>3, <1>4, <2>1, <2>2, <2>3, <2>4 DEF TransferDoes
<1>5. CASE frame[i].captured # None
  <2> DEFINE c == frame[i].captured
  <2>1. c \in Frames /\ c # i
      BY <1>2, <1>3, <1>5
  <2>2. /\ frame' = [frame EXCEPT ![i].pc = "ended", ![c].pc = "result"]
        /\ frame[i].pc = "final" /\ frame[i].alive
        /\ error' = error /\ crash' = crash
      BY <1>5 DEF Transfer
  <2> HIDE DEF c
  <2>3. frame' \in [Frames -> FrameTypes]
      BY <1>1, <2>1, <2>2 DEF FrameTypes, PCs
  <2>4. \A j \in Frames :
            frame'[j].pc = IF j = c THEN "result"
                           ELSE IF j = i THEN "ended" ELSE frame[j].pc
      BY <1>1, <2>1, <2>2 DEF FrameTypes
  <2>5. KeepsLinks /\ KeepsErrors /\ KeepsEnds
      BY <1>1, <2>1, <2>2 DEF FrameTypes, KeepsLinks, KeepsErrors, KeepsEnds
  <2> QED
      BY <2>2, <2>3, <2>4, <2>5 DEF TransferDoes, c
<1> QED
    BY <1>4, <1>5 DEF TransferDoes

(* TransferDestroyed has the effect TransferDestroyedDoes.                  *)
LEMMA TransferDestroyedEffect ==
    ASSUME IInv, crash = "no", NEW i \in Frames, TransferDestroyed(i)
    PROVE  frame' \in [Frames -> FrameTypes] /\ TransferDestroyedDoes(i)
<1>1. 0 \in Frames /\ Depth \in Frames
    BY DepthAssumption DEF Frames
<1>2. frame' \in [Frames -> FrameTypes]
    BY <1>1 DEF IInv, TypeOK, FrameTypes, TransferDestroyed, PCs, Errors
<1>3. TransferDestroyedDoes(i)
    BY <1>1 DEF TransferDestroyedDoes, IInv, TypeOK, FrameTypes,
       TransferDestroyed, Moves, KeepsLinks, KeepsErrors, KeepsEnds, Passes,
       Fails, waiting
<1> QED
    BY <1>2, <1>3

(* Flag has the effect FlagDoes.                                            *)
LEMMA FlagEffect ==
    ASSUME IInv, crash = "no", Flag
    PROVE  frame' \in [Frames -> FrameTypes] /\ FlagDoes
<1>1. 0 \in Frames /\ Depth \in Frames
    BY DepthAssumption DEF Frames
<1>2. frame' \in [Frames -> FrameTypes]
    BY <1>1 DEF IInv, TypeOK, FrameTypes, Flag, PCs, Errors
<1>3. FlagDoes
    BY <1>1 DEF FlagDoes, IInv, TypeOK, FrameTypes, Flag, Moves, KeepsLinks,
       KeepsErrors, KeepsEnds, Passes, Fails, waiting
<1> QED
    BY <1>2, <1>3

(* Notify has the effect NotifyDoes.                                        *)
LEMMA NotifyEffect ==
    ASSUME IInv, crash = "no", Notify
    PROVE  frame' \in [Frames -> FrameTypes] /\ NotifyDoes
<1>1. 0 \in Frames /\ Depth \in Frames
    BY DepthAssumption DEF Frames
<1>2. frame' \in [Frames -> FrameTypes]
    BY <1>1 DEF IInv, TypeOK, FrameTypes, Notify, PCs, Errors
<1>3. NotifyDoes
    BY <1>1 DEF NotifyDoes, IInv, TypeOK, FrameTypes, Notify, Moves,
       KeepsLinks, KeepsErrors, KeepsEnds, Passes, Fails, waiting
<1> QED
    BY <1>2, <1>3

(* Return has the effect ReturnDoes.                                        *)
LEMMA ReturnEffect ==
    ASSUME IInv, crash = "no", Return
    PROVE  frame' \in [Frames -> FrameTypes] /\ ReturnDoes
<1>1. 0 \in Frames /\ frame \in [Frames -> FrameTypes]
    BY DepthAssumption DEF IInv, TypeOK, Frames
<1>2. CASE ~Done(0)
    BY <1>1, <1>2 DEF ReturnDoes, Return, Fails
<1>3. CASE Done(0)
  <2>1. frame' = [frame EXCEPT ![0].alive = FALSE]
      BY <1>3 DEF Return
  <2>2. frame' \in [Frames -> FrameTypes]
      BY <1>1, <2>1 DEF FrameTypes
  <2>3. \A j \in Frames : frame'[j].alive = (j # 0 /\ frame[j].alive)
      BY <1>1, <2>1 DEF FrameTypes
  <2>4. \A j \in Frames :
            /\ frame'[j].pc = frame[j].pc
            /\ frame'[j].mayBeChecked = frame[j].mayBeChecked
            /\ frame'[j].result = frame[j].result
      BY <1>1, <2>1 DEF FrameTypes
  <2>5. KeepsLinks
      BY <1>1, <2>1 DEF KeepsLinks, FrameTypes
  <2>6. error' = error /\ crash' = crash
      BY <1>3 DEF Return
  <2>7. KeepsErrors
      BY <1>1, <2>1, <2>6 DEF KeepsErrors, FrameTypes
  <2> QED
      BY <1>3, <2>2, <2>3, <2>4, <2>5, <2>6, <2>7 DEF ReturnDoes
<1> QED
    BY <1>2, <1>3

-----------------------------------------------------------------------------
(* The last coroutine suspends itself while all others await.               *)
LEMMA SuspendDoesKeeps ==
    ASSUME IInv, crash = "no", frame' \in [Frames -> FrameTypes], SuspendDoes
    PROVE  FrameInv'
<1>1. LinkInv'
    BY DEF IInv, SuspendDoes, LinkInv, TypeOK, Passes, KeepsLinks
<1>2. PCInv'
    BY DepthAssumption DEF IInv, SuspendDoes, PCInv, Passes, Inner, Pending,
       Frames, Moves
<1>3. ActiveInv'
    BY DEF IInv, SuspendDoes, ActiveInv, Passes, Active, Pending, Moves, PCs
<1>4. AwaitInv'
  <2>1. /\ frame[Depth].pc = "running" /\ Moves(Depth, "parked")
        /\ KeepsLinks /\ KeepsEnds
      BY DEF SuspendDoes, Passes
  <2> QED
      BY <2>1, MovesAwait, Chain DEF KeepsLinks, KeepsEnds, Pending,
         HasTaken, Done
<1>5. CallerInv'
  <2>1. /\ frame[Depth].pc = "running" /\ Moves(Depth, "parked")
        /\ KeepsLinks /\ KeepsEnds
      BY DEF SuspendDoes, Passes
  <2> QED
      BY <2>1, MovesCaller, Chain DEF Pending, HasResult
<1>6. CheckInv'
    BY DEF IInv, SuspendDoes, CheckInv, Passes, HasResult, Moves, KeepsEnds
<1>7. ErrorInv'
    BY DEF IInv, SuspendDoes, ErrorInv, Passes, Carries, Moves, KeepsLinks,
       KeepsErrors
<1>8. AliveInv'
    BY DEF IInv, SuspendDoes, AliveInv, Passes, AwaitsAfterEnd, Moves,
       KeepsLinks, KeepsErrors, KeepsEnds, Done
<1>9. ResultInv'
    BY DepthAssumption DEF IInv, SuspendDoes, ResultInv, Passes, Frames,
       HasResult, Carried, Inner, Moves, KeepsErrors, KeepsEnds
<1> QED
    BY <1>1, <1>2, <1>3, <1>4, <1>5, <1>6, <1>7, <1>8, <1>9 DEF FrameInv

(* Its handle goes to the pool.                                             *)
LEMMA ScheduleDoesKeeps ==
    ASSUME IInv, crash = "no", frame' \in [Frames -> FrameTypes],
           ScheduleDoes
    PROVE  FrameInv'
<1>1. LinkInv'
    BY DEF IInv, ScheduleDoes, LinkInv, TypeOK, Passes, KeepsLinks
<1>2. PCInv'
    BY DepthAssumption DEF IInv, ScheduleDoes, PCInv, Passes, Inner, Pending,
       Frames, Moves
<1>3. ActiveInv'
    BY DEF IInv, ScheduleDoes, ActiveInv, Passes, Active, Pending, Moves, PCs
<1>4. AwaitInv'
  <2>1. /\ frame[Depth].pc = "parked" /\ Moves(Depth, "scheduled")
        /\ KeepsLinks /\ KeepsEnds
      BY DEF ScheduleDoes, Passes
  <2> QED
      BY <2>1, MovesAwait, Chain DEF KeepsLinks, KeepsEnds, Pending,
         HasTaken, Done
<1>5. CallerInv'
  <2>1. /\ frame[Depth].pc = "parked" /\ Moves(Depth, "scheduled")
        /\ KeepsLinks /\ KeepsEnds
      BY DEF ScheduleDoes, Passes
  <2> QED
      BY <2>1, MovesCaller, Chain DEF Pending, HasResult
<1>6. CheckInv'
    BY DEF IInv, ScheduleDoes, CheckInv, Passes, HasResult, Moves, KeepsEnds
<1>7. ErrorInv'
    BY DEF IInv, ScheduleDoes, ErrorInv, Passes, Carries, Moves, KeepsLinks,
       KeepsErrors
<1>8. AliveInv'
    BY DEF IInv, ScheduleDoes, AliveInv, Passes, AwaitsAfterEnd, Moves,
       KeepsLinks, KeepsErrors, KeepsEnds, Done
<1>9. ResultInv'
    BY DepthAssumption DEF IInv, ScheduleDoes, ResultInv, Passes, Frames,
       HasResult, Carried, Inner, Moves, KeepsErrors, KeepsEnds
<1> QED
    BY <1>1, <1>2, <1>3, <1>4, <1>5, <1>6, <1>7, <1>8, <1>9 DEF FrameInv

(* A worker resumes it.                                                     *)
LEMMA ResumeDoesKeeps ==
    ASSUME IInv, crash = "no", frame' \in [Frames -> FrameTypes], ResumeDoes
    PROVE  FrameInv'
<1>1. LinkInv'
    BY DEF IInv, ResumeDoes, LinkInv, TypeOK, Passes, KeepsLinks
<1>2. PCInv'
    BY DepthAssumption DEF IInv, ResumeDoes, PCInv, Passes, Inner, Pending,
       Frames, Moves
<1>3. ActiveInv'
    BY DEF IInv, ResumeDoes, ActiveInv, Passes, Active, Pending, Moves, PCs
<1>4. AwaitInv'
  <2>1. /\ frame[Depth].pc = "scheduled" /\ Moves(Depth, "running")
        /\ KeepsLinks /\ KeepsEnds
      BY DEF ResumeDoes, Passes
  <2> QED
      BY <2>1, MovesAwait, Chain DEF KeepsLinks, KeepsEnds, Pending,
         HasTaken, Done
<1>5. CallerInv'
  <2>1. /\ frame[Depth].pc = "scheduled" /\ Moves(Depth, "running")
        /\ KeepsLinks /\ KeepsEnds
      BY DEF ResumeDoes, Passes
  <2> QED
      BY <2>1, MovesCaller, Chain DEF Pending, HasResult
<1>6. CheckInv'
    BY DEF IInv, ResumeDoes, CheckInv, Passes, HasResult, Moves, KeepsEnds
<1>7. ErrorInv'
    BY DEF IInv, ResumeDoes, ErrorInv, Passes, Carries, Moves, KeepsLinks,
       KeepsErrors
<1>8. AliveInv'
    BY DEF IInv, ResumeDoes, AliveInv, Passes, AwaitsAfterEnd, Moves,
       KeepsLinks, KeepsErrors, KeepsEnds, Done
<1>9. ResultInv'
    BY DepthAssumption DEF IInv, ResumeDoes, ResultInv, Passes, Frames,
       HasResult, Carried, Inner, Moves, KeepsErrors, KeepsEnds
<1> QED
    BY <1>1, <1>2, <1>3, <1>4, <1>5, <1>6, <1>7, <1>8, <1>9 DEF FrameInv

(* It is told of the end of the connection: until then nobody carried an    *)
(* exception.                                                               *)
LEMMA RaiseDoesKeeps ==
    ASSUME IInv, crash = "no", frame' \in [Frames -> FrameTypes], RaiseDoes
    PROVE  FrameInv'
<1>1. LinkInv'
    BY DEF IInv, RaiseDoes, LinkInv, TypeOK, Fails, KeepsLinks
<1>2. PCInv'
    BY DepthAssumption DEF IInv, RaiseDoes, PCInv, Fails, Moves, Frames,
       Inner, Pending
<1>3. ActiveInv'
    BY DEF IInv, RaiseDoes, ActiveInv, Fails, Moves, Active, Pending, PCs
<1>4. AwaitInv'
    BY DepthAssumption DEF IInv, RaiseDoes, AwaitInv, Fails, Moves,
       KeepsLinks, Frames, Inner, Done
<1>5. CallerInv'
    BY Chain, DepthAssumption DEF IInv, RaiseDoes, CallerInv, TypeOK, Fails,
       Moves, KeepsLinks, Inner, HasResult
<1>6. CheckInv'
    BY DEF IInv, RaiseDoes, CheckInv, Fails, Moves
<1>7. ErrorInv'
  <2>1. CASE Fails("raised_without_caller")
      BY <2>1 DEF IInv, ErrorInv, Fails, Carries
  <2>2. CASE ~Fails("raised_without_caller")
    <3>1. /\ frame[Depth].pc = "parked" /\ frame[Depth].caller # None
          /\ Moves(Depth, "scheduled") /\ KeepsLinks
          /\ \A j \in Frames :
                /\ frame'[j].exception = IF j = Depth THEN "closed"
                                         ELSE frame[j].exception
                /\ frame'[j].thrown = frame[j].thrown
          /\ error' = "closed"
        BY <2>2 DEF RaiseDoes
    <3>2. frame[Depth].exception = "none"
        BY <3>1, Chain DEF IInv, ErrorInv, HasResult
    <3>3. \A i \in Frames : ~Carries(i)
        BY <3>1, <3>2, NobodyCarries
    <3>4. \A i \in Frames : Carries(i)' <=> i = Depth
        BY <3>1, <3>3, Chain DEF Carries
    <3>5. /\ frame'[Depth].exception = "closed"
          /\ frame'[Depth].thrown = "none"
          /\ frame'[Depth].caller # None
          /\ frame'[Depth].pc = "scheduled"
        BY <3>1, <3>3, Chain DEF Carries, Moves, KeepsLinks
    <3> QED
        BY <3>1, <3>4, <3>5, Chain DEF ErrorInv, Carries
  <2> QED
      BY <2>1, <2>2
<1>8. AliveInv'
    BY DEF IInv, RaiseDoes, AliveInv, TypeOK, Fails, Moves, KeepsLinks,
       AwaitsAfterEnd, Done
<1>9. ResultInv'
    BY DepthAssumption DEF IInv, RaiseDoes, ResultInv, Fails, Moves, Frames,
       HasResult, Carried, Inner
<1> QED
    BY <1>1, <1>2, <1>3, <1>4, <1>5, <1>6, <1>7, <1>8, <1>9 DEF FrameInv

(* The body ends; an exception it throws is the only one.                   *)
LEMMA LeaveDoesKeeps ==
    ASSUME IInv, crash = "no", frame' \in [Frames -> FrameTypes], LeaveDoes
    PROVE  FrameInv'
<1>1. LinkInv'
    BY DEF IInv, LeaveDoes, LinkInv, TypeOK, Passes, KeepsLinks
<1>2. PCInv'
    BY DepthAssumption DEF IInv, LeaveDoes, PCInv, Passes, Moves, Frames,
       Inner, Pending
<1>3. ActiveInv'
    BY DEF IInv, LeaveDoes, ActiveInv, Passes, Moves, Active, Pending, PCs
<1>4. AwaitInv'
  <2>1. /\ frame[Depth].pc = "running" /\ Moves(Depth, "leaving")
        /\ KeepsLinks /\ KeepsEnds
      BY DEF LeaveDoes, Passes
  <2> QED
      BY <2>1, MovesAwait, Chain
      DEF KeepsLinks, KeepsEnds, Pending,
         HasTaken, Done
<1>5. CallerInv'
  <2>1. frame[Depth].pc = "running" /\ Moves(Depth, "leaving") /\ KeepsLinks
      BY DEF LeaveDoes, Passes
  <2> QED
      BY <2>1, MovesCaller, Chain DEF Pending, HasResult
<1>6. CheckInv'
    BY DEF IInv, LeaveDoes, CheckInv, Passes, Moves, KeepsEnds, HasResult
<1>7. ErrorInv'
  <2>1. CASE Passes(Depth, "running", "leaving")
      BY <2>1, Chain DEF IInv, ErrorInv, Passes, Moves, KeepsLinks, KeepsErrors,
         Carries
  <2>2. CASE ~Passes(Depth, "running", "leaving")
    <3>1. /\ frame[Depth].pc = "running" /\ frame[Depth].exception = "none"
          /\ Moves(Depth, "leaving")
          /\ \A j \in Frames :
                /\ frame'[j].exception = frame[j].exception
                /\ frame'[j].thrown = IF j = Depth THEN error'
                                      ELSE frame[j].thrown
          /\ error' \in {"closed", "other"}
        BY <2>2 DEF LeaveDoes
    <3>2. \A i \in Frames : ~Carries(i)
        BY <3>1, NobodyCarries
    <3>3. \A i \in Frames : Carries(i)' <=> i = Depth
        BY <3>1, <3>2, Chain DEF Carries
    <3>4. /\ frame'[Depth].exception = "none"
          /\ frame'[Depth].thrown = error'
          /\ frame'[Depth].pc = "leaving"
        BY <3>1, <3>2, Chain DEF Carries, Moves
    <3> QED
        BY <3>1, <3>3, <3>4, Chain DEF ErrorInv, Carries
  <2> QED
      BY <2>1, <2>2
<1>8. AliveInv'
    BY DEF IInv, LeaveDoes, AliveInv, Passes, Moves, KeepsLinks, KeepsEnds,
       AwaitsAfterEnd, KeepsErrors, Done
<1>9. ResultInv'
    BY DepthAssumption DEF IInv, LeaveDoes, ResultInv, Passes, Moves,
       KeepsEnds, Frames, HasResult, Carried, Inner, KeepsErrors
<1> QED
    BY <1>1, <1>2, <1>3, <1>4, <1>5, <1>6, <1>7, <1>8, <1>9 DEF FrameInv

(* The next coroutine begins while its caller awaits.                       *)
LEMMA CallDoesKeeps ==
    ASSUME IInv, crash = "no", frame' \in [Frames -> FrameTypes], NEW i \in
           Inner, CallDoes(i)
    PROVE  FrameInv'
<1>1. LinkInv'
    BY DEF IInv, CallDoes, LinkInv, TypeOK, KeepsLinks
<1>2. PCInv'
    BY DepthAssumption DEF IInv, CallDoes, PCInv, Frames, Inner, Pending
<1>3. ActiveInv'
  <2>1. i \in Frames /\ i + 1 \in Frames
      BY Chain
  <2>2. /\ frame[i].pc = "running"
        /\ \A j \in Frames :
              frame'[j].pc = IF j = i THEN "calling"
                             ELSE IF j = i + 1 THEN "running" ELSE frame[j].pc
      BY DEF CallDoes
  <2>3. frame[i].pc \in Active \ Pending
      BY <2>2 DEF Active, Pending, PCs
  <2>4. ASSUME NEW j \in Frames, i < j
        PROVE  frame[j].pc \notin Active
      BY <2>1, <2>3, <2>4 DEF IInv, ActiveInv
  <2>5. ASSUME NEW j \in Frames, NEW k \in Frames, j < k,
               frame'[k].pc \in Active
        PROVE  frame'[j].pc \in Pending
    <3>1. k = i + 1 \/ (k # i + 1 /\ ~(i < k))
        BY <2>1, <2>2, <2>4, <2>5, Chain
    <3>2. j = i \/ j < i
        BY <2>5, <3>1, Chain
    <3>3. CASE j = i
        BY <2>1, <2>2, <3>3 DEF Pending
    <3>4. CASE j < i
      <4>1. frame[j].pc \in Pending
          BY <2>1, <2>3, <3>4 DEF IInv, ActiveInv
      <4>2. j # i /\ j # i + 1
          BY <2>1, <3>4, Chain
      <4> QED
          BY <2>2, <4>1, <4>2
    <3> QED
        BY <3>2, <3>3, <3>4
  <2> QED
      BY <2>5 DEF ActiveInv
<1>4. AwaitInv'
    BY Chain DEF IInv, CallDoes, AwaitInv, KeepsLinks, KeepsEnds, Done,
       HasTaken
<1>5. CallerInv'
  <2>1. i \in Frames /\ i + 1 \in Frames /\ i # i + 1
      BY Chain
  <2>2. frame[i].pc = "running" /\ frame[i + 1].pc = "none"
      BY DEF CallDoes, IInv, AwaitInv
  <2>3. /\ \A j \in Frames : /\ frame'[j].caller = frame[j].caller
                             /\ frame'[j].captured = frame[j].captured
        /\ \A j \in Frames : frame'[j].pc = IF j = i THEN "calling"
                                            ELSE IF j = i + 1 THEN "running"
                                            ELSE frame[j].pc
      BY DEF CallDoes, KeepsLinks
  <2>4. frame[i + 1].caller = None
      BY <2>1, <2>2 DEF IInv, CallerInv
  <2>5. ASSUME NEW j \in Inner
        PROVE  /\ frame'[j].pc = "suspended" <=> frame[j].pc = "suspended"
               /\ frame'[j + 1].pc = "ended" <=> frame[j + 1].pc = "ended"
               /\ frame'[j].pc \in Pending => frame[j].pc \in Pending \/ j = i
    <3>1. j \in Frames /\ j + 1 \in Frames
        BY Chain
    <3>2. j = i + 1 => frame[j].pc = "none" /\ frame'[j].pc = "running"
        BY <2>1, <2>2, <2>3, <3>1
    <3>3. j # i /\ j # i + 1 => frame'[j].pc = frame[j].pc
        BY <2>3, <3>1
    <3>4. frame'[j + 1].pc = "ended" <=> frame[j + 1].pc = "ended"
        BY <2>1, <2>2, <2>3, <3>1
    <3>5. frame'[i].pc = "calling"
        BY <2>1, <2>3
    <3> QED
        BY <2>2, <3>2, <3>3, <3>4, <3>5 DEF Pending
  <2>6. ASSUME NEW j \in Frames
        PROVE  /\ frame[j].captured # None => frame'[j].pc \in HasResult
               /\ frame'[j].pc = "none" => frame[j].pc = "none"
      BY <2>1, <2>2, <2>3 DEF IInv, CallerInv, HasResult
  <2> QED
      BY <2>1, <2>3, <2>4, <2>5, <2>6, Chain DEF IInv, CallerInv
<1>6. CheckInv'
    BY DEF IInv, CallDoes, CheckInv, KeepsEnds, HasResult
<1>7. ErrorInv'
    BY DEF IInv, CallDoes, ErrorInv, AwaitInv, KeepsLinks, KeepsErrors,
       HasResult, Carries, Inner
<1>8. AliveInv'
    BY DEF IInv, CallDoes, AliveInv, AwaitInv, KeepsLinks, KeepsErrors,
       KeepsEnds, AwaitsAfterEnd, Done
<1>9. ResultInv'
  <2>1. i \in Frames /\ i + 1 \in Frames
      BY Chain
  <2>2. frame[i].pc = "running" /\ frame[i + 1].pc = "none"
      BY DEF CallDoes, IInv, AwaitInv
  <2>3. /\ \A j \in Frames : /\ frame'[j].result = frame[j].result
                             /\ frame'[j].alive = frame[j].alive
                             /\ Carried(j)' = Carried(j)
        /\ \A j \in Frames : frame'[j].pc = IF j = i THEN "calling"
                                            ELSE IF j = i + 1 THEN "running"
                                            ELSE frame[j].pc
      BY DEF CallDoes, KeepsErrors, KeepsEnds, Carried
  <2>4. ASSUME NEW j \in Frames
        PROVE  /\ frame'[j].pc \in HasResult <=> frame[j].pc \in HasResult
               /\ frame'[j].pc \in {"flagging", "notifying", "leaving"} =>
                      frame'[j].pc = frame[j].pc
      BY <2>1, <2>2, <2>3 DEF HasResult
  <2> QED
      BY <2>3, <2>4, Chain DEF IInv, ResultInv, Promised!Passed
<1> QED
    BY <1>1, <1>2, <1>3, <1>4, <1>5, <1>6, <1>7, <1>8, <1>9 DEF FrameInv

(* A held coroutine runs again, on the thread of its caller.                *)
LEMMA ResumeSuspendedDoesKeeps ==
    ASSUME IInv, crash = "no", frame' \in [Frames -> FrameTypes], NEW i \in
           Inner, ResumeSuspendedDoes(i)
    PROVE  FrameInv'
<1>1. LinkInv'
    BY DEF IInv, ResumeSuspendedDoes, LinkInv, TypeOK, KeepsLinks
<1>2. PCInv'
    BY DEF IInv, ResumeSuspendedDoes, PCInv, Frames, Inner, Pending
<1>3. ActiveInv'
    BY Chain DEF IInv, ResumeSuspendedDoes, ActiveInv, Active, Pending, PCs
<1>4. AwaitInv'
  <2>1. i \in Frames /\ i + 1 = Depth /\ i # Depth /\ Depth \in Frames
      BY Chain DEF ResumeSuspendedDoes
  <2>2. /\ frame[i].pc = "calling" /\ frame[Depth].pc = "parked"
        /\ frame'[i].pc = "nested" /\ frame'[Depth].pc = "running"
        /\ \A j \in Frames : j # i /\ j # Depth => frame'[j].pc = frame[j].pc
        /\ \A j \in Frames : /\ frame'[j].caller = frame[j].caller
                             /\ frame'[j].captured = frame[j].captured
                             /\ frame'[j].alive <=> frame[j].alive
                             /\ frame'[j].exception = frame[j].exception
        /\ crash' = "no"
      BY <2>1 DEF ResumeSuspendedDoes, KeepsLinks, KeepsErrors, KeepsEnds
  <2>3. ASSUME NEW j \in Inner
        PROVE  /\ frame'[j].pc \in {"none", "running"} =>
                      frame'[j + 1].pc = "none"
               /\ frame'[j].pc \in Pending => frame'[j + 1].pc # "none"
               /\ frame'[j].pc = "result" =>
                      Done(j + 1)' /\ (frame'[j + 1].pc = "final"
                                           => frame'[j + 1].captured = None)
               /\ frame'[j + 1].alive <=> frame'[j].pc \notin HasTaken
    <3>1. j \in Frames /\ j + 1 \in Frames /\ j # Depth
        BY Chain
    <3>2. CASE j = i
        BY <2>1, <2>2, <3>1, <3>2 DEF IInv, AwaitInv, Pending, HasTaken
    <3>3. CASE j # i
      <4>1. j + 1 # Depth
          BY <2>1, <3>3, Chain
      <4>2. frame'[j].pc = frame[j].pc
          BY <2>2, <3>1, <3>3
      <4>3. CASE j + 1 = i
          BY <2>1, <2>2, <3>1, <4>2, <4>3 DEF IInv, AwaitInv, Done
      <4>4. CASE j + 1 # i
          BY <2>2, <3>1, <4>1, <4>2, <4>4 DEF IInv, AwaitInv, Done
      <4> QED
          BY <4>3, <4>4
    <3> QED
        BY <3>2, <3>3
  <2> QED
      BY <2>3 DEF AwaitInv
<1>5. CallerInv'
  <2>1. i \in Frames /\ i + 1 = Depth /\ i # Depth /\ Depth \in Frames
      BY Chain DEF ResumeSuspendedDoes
  <2>2. /\ frame[i].pc = "calling" /\ frame[Depth].pc = "parked"
        /\ frame'[i].pc = "nested" /\ frame'[Depth].pc = "running"
        /\ \A j \in Frames : j # i /\ j # Depth => frame'[j].pc = frame[j].pc
        /\ \A j \in Frames : /\ frame'[j].caller = frame[j].caller
                             /\ frame'[j].captured = frame[j].captured
                             /\ frame'[j].alive <=> frame[j].alive
                             /\ frame'[j].exception = frame[j].exception
        /\ crash' = "no"
      BY <2>1 DEF ResumeSuspendedDoes, KeepsLinks, KeepsErrors, KeepsEnds
  <2>3. ASSUME NEW j \in Frames
        PROVE  /\ frame'[j].pc = "suspended" <=> frame[j].pc = "suspended"
               /\ frame'[j].pc \in Pending <=> frame[j].pc \in Pending
               /\ frame'[j].pc = "ended" <=> frame[j].pc = "ended"
               /\ frame'[j].pc \in HasResult <=> frame[j].pc \in HasResult
               /\ frame'[j].pc = "none" <=> frame[j].pc = "none"
      BY <2>1, <2>2 DEF Pending, HasResult
  <2> QED
      BY <2>2, <2>3, Chain DEF IInv, CallerInv
<1>6. CheckInv'
    BY DEF IInv, ResumeSuspendedDoes, CheckInv, KeepsEnds, HasResult
<1>7. ErrorInv'
    BY DepthAssumption DEF IInv, ResumeSuspendedDoes, ErrorInv, TypeOK,
       ActiveInv, AliveInv, ResultInv, KeepsLinks, KeepsErrors, HasResult,
       Carries
<1>8. AliveInv'
  <2>1. i \in Frames /\ i + 1 = Depth /\ i # Depth /\ Depth \in Frames
      BY Chain DEF ResumeSuspendedDoes
  <2>2. /\ frame[i].pc = "calling" /\ frame[Depth].pc = "parked"
        /\ frame'[i].pc = "nested" /\ frame'[Depth].pc = "running"
        /\ \A j \in Frames : j # i /\ j # Depth => frame'[j].pc = frame[j].pc
        /\ \A j \in Frames : /\ frame'[j].caller = frame[j].caller
                             /\ frame'[j].captured = frame[j].captured
                             /\ frame'[j].alive <=> frame[j].alive
                             /\ frame'[j].exception = frame[j].exception
        /\ crash' = "no"
      BY <2>1 DEF ResumeSuspendedDoes, KeepsLinks, KeepsErrors, KeepsEnds
  <2>3. ASSUME NEW j \in Frames
        PROVE  /\ Done(j)' <=> Done(j)
               /\ frame'[j].pc = "final" <=> frame[j].pc = "final"
               /\ frame'[j].pc = "ended" <=> frame[j].pc = "ended"
      BY <2>1, <2>2 DEF Done
  <2> QED
      BY <2>2, <2>3 DEF IInv, AliveInv, AwaitsAfterEnd
<1>9. ResultInv'
    BY DEF IInv, ResumeSuspendedDoes, ResultInv, Frames, KeepsErrors,
       KeepsEnds, HasResult, Carried, Inner
<1> QED
    BY <1>1, <1>2, <1>3, <1>4, <1>5, <1>6, <1>7, <1>8, <1>9 DEF FrameInv

(* If the awaited coroutine is done, everything above has ended.            *)
LEMMA ReadyDoesKeeps ==
    ASSUME IInv, crash = "no", frame' \in [Frames -> FrameTypes], NEW i \in
           Inner, ReadyDoes(i)
    PROVE  FrameInv'
<1>1. LinkInv'
    BY DEF IInv, ReadyDoes, LinkInv, TypeOK, KeepsLinks
<1>2. PCInv'
    BY DepthAssumption DEF IInv, ReadyDoes, PCInv, Moves, Inner, Frames
<1>3. ActiveInv'
  <2>1. i \in Frames /\ i + 1 \in Frames
      BY Chain
  <2>2. \A j \in Frames : j # i => frame'[j].pc = frame[j].pc
      BY DEF ReadyDoes, Moves
  <2>3. frame[i].pc \in Active /\ frame[i].pc \in Pending
      BY DEF ReadyDoes, Active, Pending, PCs
  <2>4. CASE ~Done(i + 1)
    <3>1. frame'[i].pc = "storing"
        BY <2>1, <2>4 DEF ReadyDoes, Moves
    <3> QED
        BY <2>2, <2>3, <3>1 DEF IInv, ActiveInv, Pending
  <2>5. CASE Done(i + 1)
    <3>1. ASSUME NEW j \in Frames, i < j
          PROVE  frame[j].pc \notin Active
      <4>1. CASE j = i + 1
          BY <2>5, <4>1 DEF Done, Active
      <4>2. CASE j # i + 1
        <5>1. i + 1 < j
            BY <3>1, <4>2, Chain DEF Frames
        <5>2. frame[i + 1].pc \notin Pending
            BY <2>5 DEF Done, Pending
        <5> QED
            BY <2>1, <5>1, <5>2 DEF IInv, ActiveInv
      <4> QED
          BY <4>1, <4>2
    <3>2. ASSUME NEW j \in Frames, NEW k \in Frames, j < k,
                 frame'[k].pc \in Active
          PROVE  frame'[j].pc \in Pending
      <4>1. CASE j = i
        <5>1. k # i
            BY <3>2, <4>1, Chain
        <5> QED
            BY <2>2, <3>1, <3>2, <4>1, <5>1
      <4>2. CASE j # i
        <5>1. frame[k].pc \in Active
            BY <2>2, <2>3, <3>2
        <5> QED
            BY <2>2, <3>2, <4>2, <5>1 DEF IInv, ActiveInv
      <4> QED
          BY <4>1, <4>2
    <3> QED
        BY <3>2 DEF ActiveInv
  <2> QED
      BY <2>4, <2>5
<1>4. AwaitInv'
  <2>1. /\ frame[i].pc \in {"calling", "nested"} /\ KeepsLinks /\ KeepsEnds
        /\ \/ Done(i + 1) /\ Moves(i, "result")
           \/ Moves(i, "storing")
      BY DEF ReadyDoes
  <2>2. i \in Frames /\ i + 1 \in Frames
      BY Chain
  <2>3. frame[i + 1].captured = None
      BY <2>1, <2>2 DEF IInv, CallerInv, Pending
  <2>4. CASE Done(i + 1) /\ Moves(i, "result")
      BY <2>1, <2>2, <2>3, <2>4, MovesAwait
      DEF KeepsLinks, KeepsEnds, Pending,
         HasTaken, Done
  <2>5. CASE Moves(i, "storing")
      BY <2>1, <2>2, <2>5, MovesAwait
      DEF KeepsLinks, KeepsEnds, Pending,
         HasTaken, Done
  <2> QED
      BY <2>1, <2>4, <2>5
<1>5. CallerInv'
  <2>1. /\ frame[i].pc \in {"calling", "nested"} /\ KeepsLinks
        /\ Moves(i, "result") \/ Moves(i, "storing")
      BY DEF ReadyDoes
  <2> QED
      BY <2>1, MovesCaller, Chain DEF Pending, HasResult
<1>6. CheckInv'
    BY DEF IInv, ReadyDoes, CheckInv, Moves, KeepsEnds, HasResult
<1>7. ErrorInv'
    BY DEF IInv, ReadyDoes, ErrorInv, Moves, KeepsLinks, KeepsErrors,
       HasResult, Carries
<1>8. AliveInv'
    BY DEF IInv, ReadyDoes, AliveInv, Done, Moves, KeepsLinks, KeepsErrors,
       KeepsEnds, AwaitsAfterEnd
<1>9. ResultInv'
    BY DepthAssumption DEF IInv, ReadyDoes, ResultInv, Moves, KeepsErrors,
       KeepsEnds, Frames, HasResult, Carried, Inner
<1> QED
    BY <1>1, <1>2, <1>3, <1>4, <1>5, <1>6, <1>7, <1>8, <1>9 DEF FrameInv

(* The awaited coroutine gets its caller once.                              *)
LEMMA StoreDoesKeeps ==
    ASSUME IInv, crash = "no", frame' \in [Frames -> FrameTypes], NEW i \in
           Inner, StoreDoes(i)
    PROVE  FrameInv'
<1>1. LinkInv'
    BY DepthAssumption DEF IInv, StoreDoes, LinkInv, TypeOK, Frames,
       FrameTypes
<1>2. PCInv'
    BY DepthAssumption DEF IInv, StoreDoes, PCInv, Moves, Frames, Inner
<1>3. ActiveInv'
    BY DEF IInv, StoreDoes, ActiveInv, Moves, Active, Pending, PCs
<1>4. AwaitInv'
  <2>1. /\ frame[i].pc = "storing" /\ Moves(i, "suspended") /\ KeepsEnds
        /\ \A j \in Frames : frame'[j].captured = frame[j].captured
      BY DEF StoreDoes
  <2> QED
      BY <2>1, MovesAwait, Chain DEF KeepsEnds, Pending, HasTaken, Done
<1>5. CallerInv'
  <2>1. i \in Frames /\ i + 1 \in Frames /\ i # i + 1 /\ i # None
      BY Chain
  <2>2. frame[i].pc = "storing" /\ frame[i + 1].caller = None
      BY DEF StoreDoes
  <2>3. /\ \A j \in Frames :
              /\ frame'[j].caller = IF j = i + 1 THEN i ELSE frame[j].caller
              /\ frame'[j].captured = frame[j].captured
        /\ \A j \in Frames : j # i => frame'[j].pc = frame[j].pc
        /\ frame'[i].pc = "suspended"
      BY <2>1 DEF StoreDoes, Moves
  <2>4. frame[i + 1].captured = None /\ frame[i + 1].pc # "none"
      BY <2>1, <2>2 DEF IInv, CallerInv, AwaitInv, Pending
  <2>5. ASSUME NEW j \in Inner, j # i
        PROVE  /\ frame'[j].pc = frame[j].pc
               /\ frame'[j + 1].pc = "ended" <=> frame[j + 1].pc = "ended"
               /\ frame'[j + 1].caller = frame[j + 1].caller
               /\ frame'[j + 1].captured = frame[j + 1].captured
      BY <2>1, <2>2, <2>3, <2>5, Chain
  <2>6. /\ frame'[i + 1].caller = i
        /\ frame'[i + 1].captured = None
      BY <2>1, <2>3, <2>4
  <2>7. ASSUME NEW j \in Frames
        PROVE  /\ frame'[j].captured # None =>
                      frame'[j].caller # None /\ frame'[j].pc \in HasResult
               /\ frame'[j].caller # None => frame'[j].pc # "none"
      BY <2>1, <2>2, <2>3, <2>4 DEF IInv, CallerInv, HasResult
  <2> QED
      BY <2>1, <2>3, <2>5, <2>6, <2>7 DEF IInv, CallerInv, Pending
<1>6. CheckInv'
    BY DEF IInv, StoreDoes, CheckInv, Moves, KeepsEnds, HasResult
<1>7. ErrorInv'
    BY DEF IInv, StoreDoes, ErrorInv, Moves, KeepsErrors, HasResult, Carries
<1>8. AliveInv'
    BY Chain, DepthAssumption DEF IInv, StoreDoes, AliveInv, TypeOK, PCInv,
       ResultInv, Moves, KeepsErrors, KeepsEnds, AwaitsAfterEnd, Done
<1>9. ResultInv'
    BY DepthAssumption DEF IInv, StoreDoes, ResultInv, Moves, Frames,
       KeepsErrors, KeepsEnds, HasResult, Carried, Inner
<1> QED
    BY <1>1, <1>2, <1>3, <1>4, <1>5, <1>6, <1>7, <1>8, <1>9 DEF FrameInv

(* The outcome moves down with its exception, if any; nobody is going to    *)
(* resume for or join the frame that is destroyed.                          *)
LEMMA TakeDoesKeeps ==
    ASSUME IInv, crash = "no", frame' \in [Frames -> FrameTypes], NEW i \in
           Inner, TakeDoes(i)
    PROVE  FrameInv'
<1>1. LinkInv'
    BY DEF IInv, TakeDoes, LinkInv, TypeOK, KeepsLinks
<1>2. PCInv'
    BY DepthAssumption DEF IInv, TakeDoes, PCInv, Moves, Frames, Inner
<1>3. ActiveInv'
    BY DEF IInv, TakeDoes, ActiveInv, Moves, Active, Pending, PCs
<1>4. AwaitInv'
  <2>1. i \in Frames /\ i + 1 \in Frames /\ i # i + 1
      BY Chain
  <2>2. /\ frame[i].pc = "result" /\ Done(i + 1)
        /\ frame'[i].pc \in {"flagging", "leaving"}
        /\ \A j \in Frames : j # i => frame'[j].pc = frame[j].pc
        /\ \A j \in Frames : frame'[j].captured = frame[j].captured
        /\ \A j \in Frames : frame'[j].alive <=> j # i + 1 /\ frame[j].alive
      BY <2>1 DEF TakeDoes, Moves, KeepsLinks
  <2>3. ASSUME NEW j \in Inner, j # i
        PROVE  /\ frame'[j].pc = frame[j].pc
               /\ frame'[j + 1].alive <=> frame[j + 1].alive
               /\ frame'[j + 1].pc = "none" <=> frame[j + 1].pc = "none"
               /\ Done(j + 1) => frame'[j + 1].pc = frame[j + 1].pc
      BY <2>1, <2>2, <2>3, Chain DEF Done
  <2>4. ASSUME NEW j \in Inner, j # i
        PROVE  /\ frame'[j].pc \in {"none", "running"} =>
                      frame'[j + 1].pc = "none"
               /\ frame'[j].pc \in Pending => frame'[j + 1].pc # "none"
               /\ frame'[j].pc = "result" =>
                      Done(j + 1)' /\ (frame'[j + 1].pc = "final"
                                           => frame'[j + 1].captured = None)
               /\ frame'[j + 1].alive <=> frame'[j].pc \notin HasTaken
      BY <2>2, <2>3, <2>4, Chain DEF IInv, AwaitInv, Done
  <2>5. /\ frame'[i].pc \in HasTaken
        /\ frame'[i].pc \notin {"none", "running", "result"} \cup Pending
        /\ ~frame'[i + 1].alive
      BY <2>1, <2>2 DEF HasTaken, Pending
  <2> QED
      BY <2>4, <2>5 DEF AwaitInv
<1>5. CallerInv'
  <2>1. /\ frame[i].pc = "result" /\ KeepsLinks
        /\ Moves(i, "flagging") \/ Moves(i, "leaving")
      BY DEF TakeDoes
  <2> QED
      BY <2>1, MovesCaller, Chain DEF Pending, HasResult
<1>6. CheckInv'
    BY DEF IInv, TakeDoes, CheckInv, Moves, HasResult
<1>7. ErrorInv'
  <2>1. i \in Frames /\ i + 1 \in Frames /\ i # i + 1 /\ i # Depth
      BY Chain
  <2>2. /\ frame[i].pc = "result" /\ Done(i + 1)
        /\ frame'[i].pc \in {"flagging", "leaving"}
        /\ \A j \in Frames : j # i => frame'[j].pc = frame[j].pc
        /\ \A j \in Frames : frame'[j].caller = frame[j].caller
      BY <2>1 DEF TakeDoes, Moves, KeepsLinks
  <2>3. /\ \A j \in Frames :
              /\ frame'[j].exception = IF j = i + 1 THEN "none"
                                       ELSE frame[j].exception
              /\ j # i => frame'[j].thrown = frame[j].thrown
        /\ frame'[i].thrown = IF Catches(i) THEN "none"
                              ELSE frame[i + 1].exception
        /\ error' = IF Catches(i) THEN "none" ELSE error
      BY DEF TakeDoes
  <2>4. ~Carries(i) /\ frame[i + 1].thrown = "none"
      BY <2>1, <2>2 DEF IInv, ErrorInv, Carries, Done, HasResult
  <2>5. CASE frame[i + 1].exception = "none"
    <3>1. ~Catches(i) /\ error' = error /\ frame'[i].thrown = "none"
        BY <2>3, <2>5 DEF Catches
    <3>2. \A j \in Frames : /\ frame'[j].exception = frame[j].exception
                            /\ frame'[j].thrown = frame[j].thrown
        BY <2>3, <2>4, <2>5, <3>1 DEF Carries
    <3>3. \A j \in Frames : Carries(j)' <=> Carries(j)
        BY <3>2 DEF Carries
    <3>4. \A j \in Frames : Carries(j) => frame'[j].pc = frame[j].pc
        BY <2>2, <2>4
    <3> QED
        BY <2>2, <3>1, <3>2, <3>3, <3>4 DEF IInv, ErrorInv, Carries
  <2>6. CASE frame[i + 1].exception # "none"
    <3>1. frame[i + 1].exception = error /\ Carries(i + 1)
        BY <2>1, <2>6 DEF IInv, ErrorInv, Carries
    <3>2. \A j \in Frames : j # i + 1 => ~Carries(j)
        BY <2>1, <3>1 DEF IInv, ErrorInv
    <3>3. \A j \in Frames : frame'[j].exception = "none"
        BY <2>3, <3>2 DEF Carries
    <3>4. \A j \in Frames : j # i => frame'[j].thrown = "none"
        BY <2>3, <2>4, <3>2 DEF Carries
    <3>5. \A j \in Frames : Carries(j)' => j = i /\ ~Catches(i)
        BY <2>3, <3>3, <3>4 DEF Carries
    <3>6. error' # "none" => Carries(i)'
        BY <2>1, <2>3, <3>1 DEF Carries
    <3>7. frame'[i].thrown # "none" => frame'[i].thrown = error'
        BY <2>3, <3>1
    <3> QED
        BY <2>1, <2>2, <3>3, <3>4, <3>5, <3>6, <3>7 DEF ErrorInv
  <2> QED
      BY <2>5, <2>6
<1>8. AliveInv'
  <2>1. i \in Frames /\ i + 1 \in Frames /\ i # i + 1
      BY Chain
  <2>2. /\ frame[i].pc = "result" /\ Done(i + 1)
        /\ \A j \in Frames : j # i => frame'[j].pc = frame[j].pc
        /\ \A j \in Frames : frame'[j].captured = frame[j].captured
        /\ \A j \in Frames :
              /\ frame'[j].alive <=> j # i + 1 /\ frame[j].alive
              /\ frame'[j].exception = IF j = i + 1 THEN "none"
                                       ELSE frame[j].exception
        /\ crash' = "no"
      BY <2>1 DEF TakeDoes, Moves, KeepsLinks
  <2>3. frame[i].captured = None /\ frame[i].alive
      BY <2>1, <2>2 DEF IInv, CallerInv, AliveInv, AwaitsAfterEnd, HasResult,
         Done
  <2>4. frame[i + 1].pc = "final" => frame[i + 1].captured = None
      BY <2>2 DEF IInv, AwaitInv
  <2>5. ASSUME NEW k \in Frames, frame[k].captured = i + 1
        PROVE  frame[k].pc = "ended"
    <3>1. k = i + 2 /\ i + 1 \in Inner
      <4>1. i + 1 = k - 1
          BY <2>1, <2>5, Chain DEF IInv, TypeOK
      <4> QED
          BY <4>1, DepthAssumption DEF Inner, Frames
    <3>2. frame[k].caller # None
        BY <2>1, <2>5, Chain DEF IInv, CallerInv
    <3>3. frame[k].caller = i + 1
      <4>1. k - 1 = i + 1
          BY <2>1, <3>1, Chain
      <4> QED
          BY <3>2, <4>1 DEF IInv, TypeOK
    <3>4. frame[i + 1].pc # "suspended"
        BY <2>2 DEF Done
    <3>5. k = (i + 1) + 1
        BY <2>1, <3>1, Chain
    <3> QED
        BY <2>5, <3>1, <3>3, <3>4, <3>5 DEF IInv, CallerInv
  <2>6. ASSUME NEW j \in Frames, ~frame'[j].alive
        PROVE  /\ Done(j)'
               /\ frame'[j].pc = "final" => frame'[j].captured = None
               /\ \A k \in Frames : frame'[k].captured = j =>
                                        frame'[k].pc = "ended"
               /\ frame'[j].exception = "none"
    <3>1. j # i
        BY <2>1, <2>2, <2>3, <2>6
    <3>2. CASE j = i + 1
        BY <2>1, <2>2, <2>3, <2>4, <2>5, <3>1, <3>2, Chain DEF Done
    <3>3. CASE j # i + 1
        BY <2>1, <2>2, <2>3, <2>6, <3>1, <3>3, Chain
        DEF IInv, AliveInv, AwaitsAfterEnd, Done
    <3> QED
        BY <3>2, <3>3
  <2> QED
      BY <2>2, <2>6 DEF AliveInv, AwaitsAfterEnd
<1>9. ResultInv'
  <2>1. i \in Frames /\ i + 1 \in Frames /\ i # i + 1 /\ i # Depth
      BY Chain
  <2>2. /\ frame[i].pc = "result" /\ Done(i + 1)
        /\ frame'[i].pc \in {"flagging", "leaving"}
        /\ \A j \in Frames : j # i => frame'[j].pc = frame[j].pc
        /\ \A j \in Frames : frame'[j].result = frame[j].result
        /\ \A j \in Frames : frame'[j].alive <=> j # i + 1 /\ frame[j].alive
      BY <2>1 DEF TakeDoes, Moves
  <2>3. \A j \in Frames : j # i /\ j # i + 1 => Carried(j)' = Carried(j)
      BY DEF TakeDoes, Carried
  <2>4. frame[i].exception = "none" /\ frame[i + 1].thrown = "none"
      BY <2>1, <2>2 DEF IInv, ErrorInv, Done, HasResult
  <2>5. frame[i + 1].result = IF frame[i + 1].exception # "none"
                              THEN frame[i + 1].exception ELSE "value"
    <3>1. frame[i + 1].alive /\ frame[i + 1].pc \in HasResult
        BY <2>2 DEF IInv, AwaitInv, HasTaken, HasResult, Done
    <3> QED
        BY <2>1, <2>4, <3>1 DEF IInv, ResultInv, Carried
  <2>6. Carried(i)' = IF Catches(i) \/ frame[i + 1].exception = "none"
                      THEN "value" ELSE frame[i + 1].exception
      BY <2>1, <2>4 DEF TakeDoes, Carried, Catches
  <2>7. Carried(i)' \in Promised!Passed(i, frame'[i + 1].result)
      BY <2>1, <2>2, <2>5, <2>6 DEF Catches, Promised!Passed
  <2>8. ASSUME NEW j \in Frames
        PROVE  /\ frame'[j].result = "pending" <=> frame'[j].pc \notin HasResult
               /\ frame'[j].pc \in HasResult /\ frame'[j].alive =>
                      frame'[j].result = Carried(j)'
      BY <2>1, <2>2, <2>3, <2>8 DEF IInv, ResultInv, HasResult
  <2>9. ASSUME NEW j \in Inner, j # i,
               frame'[j].pc \in {"flagging", "notifying", "leaving"}
        PROVE  Carried(j)' \in Promised!Passed(j, frame'[j + 1].result)
    <3>1. j \in Frames /\ j + 1 \in Frames /\ j # i + 1
        BY <2>1, <2>2, <2>9, Chain DEF Done
    <3> QED
        BY <2>2, <2>3, <2>9, <3>1 DEF IInv, ResultInv, Promised!Passed
  <2> QED
      BY <2>7, <2>8, <2>9 DEF ResultInv
<1> QED
    BY <1>1, <1>2, <1>3, <1>4, <1>5, <1>6, <1>7, <1>8, <1>9 DEF FrameInv

(* The exception moves into the promise of a coroutine whose frame exists.  *)
LEMMA UnhandledDoesKeeps ==
    ASSUME IInv, crash = "no", frame' \in [Frames -> FrameTypes], NEW i \in
           Frames, UnhandledDoes(i)
    PROVE  FrameInv'
<1>1. LinkInv'
    BY DEF IInv, UnhandledDoes, LinkInv, TypeOK, Fails, KeepsLinks
<1>2. PCInv'
    BY DepthAssumption DEF IInv, UnhandledDoes, PCInv, Fails, Frames, Inner
<1>3. ActiveInv'
    BY DEF IInv, UnhandledDoes, ActiveInv, Fails
<1>4. AwaitInv'
    BY Chain DEF IInv, UnhandledDoes, AwaitInv, Fails, KeepsLinks, Done
<1>5. CallerInv'
    BY DepthAssumption DEF IInv, UnhandledDoes, CallerInv, TypeOK, Fails,
       Frames, KeepsLinks, Inner, FrameTypes
<1>6. CheckInv'
    BY DEF IInv, UnhandledDoes, CheckInv, Fails
<1>7. ErrorInv'
  <2>1. CASE Fails("unhandled")
      BY <2>1 DEF Fails, IInv, ErrorInv, Carries
  <2>2. CASE ~Fails("unhandled")
    <3>1. /\ frame[i].pc = "leaving" /\ frame[i].thrown # "none"
          /\ frame[i].caller # None /\ frame[i].exception = "none"
          /\ \A j \in Frames :
                /\ frame'[j].pc = frame[j].pc
                /\ frame'[j].exception = IF j = i THEN frame[i].thrown
                                         ELSE frame[j].exception
                /\ frame'[j].thrown = IF j = i THEN "none" ELSE frame[j].thrown
                /\ frame'[j].alive <=> frame[j].alive
                /\ frame'[j].result = frame[j].result
          /\ KeepsLinks /\ error' = error /\ crash' = "no"
        BY <2>2 DEF UnhandledDoes
    <3>2. \A j \in Frames : Carries(j)' <=> Carries(j)
        BY <3>1 DEF Carries
    <3>3. /\ frame'[i].exception = error /\ frame'[i].thrown = "none"
          /\ frame'[i].caller # None
        BY <3>1 DEF IInv, ErrorInv, KeepsLinks
    <3> QED
        BY <3>1, <3>2, <3>3 DEF IInv, ErrorInv, KeepsLinks
  <2> QED
      BY <2>1, <2>2
<1>8. AliveInv'
  <2>1. CASE Fails("unhandled")
      BY <2>1 DEF Fails, IInv, AliveInv, AwaitsAfterEnd, Done
  <2>2. CASE ~Fails("unhandled")
    <3>1. /\ frame[i].pc = "leaving" /\ frame[i].thrown # "none"
          /\ frame[i].caller # None /\ frame[i].exception = "none"
          /\ \A j \in Frames :
                /\ frame'[j].pc = frame[j].pc
                /\ frame'[j].exception = IF j = i THEN frame[i].thrown
                                         ELSE frame[j].exception
                /\ frame'[j].thrown = IF j = i THEN "none" ELSE frame[j].thrown
                /\ frame'[j].alive <=> frame[j].alive
                /\ frame'[j].result = frame[j].result
          /\ KeepsLinks /\ error' = error /\ crash' = "no"
        BY <2>2 DEF UnhandledDoes
    <3>2. frame[i].alive
        BY <3>1 DEF IInv, AliveInv, AwaitsAfterEnd, Done
    <3> QED
        BY <3>1, <3>2 DEF IInv, AliveInv, AwaitsAfterEnd, Done, KeepsLinks
  <2> QED
      BY <2>1, <2>2
<1>9. ResultInv'
  <2>1. CASE Fails("unhandled")
      BY <2>1 DEF Fails, IInv, ResultInv, Carried, Promised!Passed
  <2>2. CASE ~Fails("unhandled")
    <3>1. /\ frame[i].pc = "leaving" /\ frame[i].thrown # "none"
          /\ frame[i].caller # None /\ frame[i].exception = "none"
          /\ \A j \in Frames :
                /\ frame'[j].pc = frame[j].pc
                /\ frame'[j].exception = IF j = i THEN frame[i].thrown
                                         ELSE frame[j].exception
                /\ frame'[j].thrown = IF j = i THEN "none" ELSE frame[j].thrown
                /\ frame'[j].alive <=> frame[j].alive
                /\ frame'[j].result = frame[j].result
          /\ KeepsLinks /\ error' = error /\ crash' = "no"
        BY <2>2 DEF UnhandledDoes
    <3>2. \A j \in Frames : Carried(j)' = Carried(j)
        BY <3>1 DEF Carried
    <3> QED
        BY <3>1, <3>2, Chain DEF IInv, ResultInv, Promised!Passed
  <2> QED
      BY <2>1, <2>2
<1> QED
    BY <1>1, <1>2, <1>3, <1>4, <1>5, <1>6, <1>7, <1>8, <1>9 DEF FrameInv

(* A caller that FinalAwait gets is suspended, so its frame exists.         *)
LEMMA FinalizeDoesKeeps ==
    ASSUME IInv, crash = "no", frame' \in [Frames -> FrameTypes], NEW i \in
           Frames, FinalizeDoes(i)
    PROVE  FrameInv'
<1>1. LinkInv'
    BY DEF IInv, FinalizeDoes, LinkInv, TypeOK
<1>2. PCInv'
    BY DepthAssumption DEF IInv, FinalizeDoes, PCInv, Moves, Frames, Inner,
       Pending
<1>3. ActiveInv'
    BY DEF IInv, FinalizeDoes, ActiveInv, Moves, Active, Pending, PCs
<1>4. AwaitInv'
  <2>1. /\ frame[i].pc = "leaving"
        /\ \A j \in Frames : /\ j = i => frame'[j].pc = "finalizing"
                             /\ j # i => frame'[j].pc = frame[j].pc
                             /\ j # i => frame'[j].captured = frame[j].captured
                             /\ frame'[j].alive = frame[j].alive
      BY DEF FinalizeDoes, Moves
  <2>2. ASSUME NEW j \in Inner
        PROVE  /\ frame'[j].pc \in {"none", "running"}
                     => frame'[j + 1].pc = "none"
               /\ frame'[j].pc \in Pending => frame'[j + 1].pc # "none"
               /\ frame'[j].pc = "result" =>
                     Done(j + 1)' /\ (frame'[j + 1].pc = "final"
                                        => frame'[j + 1].captured = None)
               /\ frame'[j + 1].alive <=> frame'[j].pc \notin HasTaken
    <3>1. j \in Frames /\ j + 1 \in Frames
        BY DepthAssumption DEF Frames, Inner
    <3>2. /\ j = i => frame'[j].pc = "finalizing"
          /\ j # i => frame'[j].pc = frame[j].pc
          /\ j + 1 = i => frame'[j + 1].pc = "finalizing"
          /\ j + 1 # i => /\ frame'[j + 1].pc = frame[j + 1].pc
                          /\ frame'[j + 1].captured = frame[j + 1].captured
          /\ frame'[j + 1].alive = frame[j + 1].alive
        BY <2>1, <3>1
    <3>3. /\ frame[j].pc \in {"none", "running"} => frame[j + 1].pc = "none"
          /\ frame[j].pc \in Pending => frame[j + 1].pc # "none"
          /\ frame[j].pc = "result" =>
                Done(j + 1) /\ (frame[j + 1].pc = "final"
                                  => frame[j + 1].captured = None)
          /\ frame[j + 1].alive <=> frame[j].pc \notin HasTaken
        BY DEF IInv, AwaitInv
    <3> QED
        BY <2>1, <3>2, <3>3 DEF Pending, HasTaken, Done
  <2> QED
      BY <2>2 DEF AwaitInv
<1>5. CallerInv'
  <2>1. (\A j \in Inner :
          frame[j].pc = "suspended" <=>
             /\ frame[j + 1].caller = j
             /\ ~(frame[j + 1].pc = "ended" /\ frame[j + 1].captured = j))'
    <3>1. /\ frame[i].pc = "leaving"
          /\ \A j \in Frames :
                /\ j = i => frame'[j].pc = "finalizing"
                /\ j # i => frame'[j].pc = frame[j].pc
                /\ j # i => frame'[j].captured = frame[j].captured
                /\ frame'[j].caller = frame[j].caller
        BY DEF FinalizeDoes, Moves
    <3>2. ASSUME NEW j \in Inner
          PROVE  frame'[j].pc = "suspended" <=>
                    /\ frame'[j + 1].caller = j
                    /\ ~(frame'[j + 1].pc = "ended"
                           /\ frame'[j + 1].captured = j)
      <4>1. j \in Frames /\ j + 1 \in Frames
          BY DepthAssumption DEF Frames, Inner
      <4>2. /\ j = i => frame'[j].pc = "finalizing"
            /\ j # i => frame'[j].pc = frame[j].pc
            /\ j + 1 = i => frame'[j + 1].pc = "finalizing"
            /\ j + 1 # i => /\ frame'[j + 1].pc = frame[j + 1].pc
                            /\ frame'[j + 1].captured = frame[j + 1].captured
            /\ frame'[j + 1].caller = frame[j + 1].caller
          BY <3>1, <4>1
      <4>3. frame[j].pc = "suspended" <=>
               /\ frame[j + 1].caller = j
               /\ ~(frame[j + 1].pc = "ended" /\ frame[j + 1].captured = j)
          BY DEF IInv, CallerInv
      <4> QED
          BY <3>1, <4>2, <4>3
    <3> QED
        BY <3>2
  <2>2. (\A j \in Inner : frame[j].pc \in Pending \ {"suspended"} =>
                             frame[j + 1].caller = None)'
      BY DepthAssumption DEF IInv, FinalizeDoes, CallerInv, Moves, Frames,
         Inner, Pending
  <2>3. (\A j \in Frames :
          /\ frame[j].captured # None =>
                frame[j].caller # None /\ frame[j].pc \in HasResult
          /\ frame[j].caller # None => frame[j].pc # "none")'
      BY Chain DEF IInv, FinalizeDoes, CallerInv, Moves, Frames, HasResult
  <2> QED
      BY <2>1, <2>2, <2>3 DEF CallerInv
<1>6. CheckInv'
    BY DEF IInv, FinalizeDoes, CheckInv, Moves
<1>7. ErrorInv'
    BY DEF IInv, FinalizeDoes, ErrorInv, Moves, KeepsErrors, HasResult,
       Carries
<1>8. AliveInv'
  <2>1. /\ frame[i].pc = "leaving" /\ crash' = "no"
        /\ \A j \in Frames :
              /\ frame'[j].pc = IF j = i THEN "finalizing" ELSE frame[j].pc
              /\ frame'[j].captured = IF j = i THEN frame[i].caller
                                      ELSE frame[j].captured
              /\ frame'[j].alive <=> frame[j].alive
              /\ frame'[j].exception = frame[j].exception
      BY DEF FinalizeDoes, Moves, KeepsErrors
  <2>2. frame[i].alive
      BY <2>1 DEF IInv, AliveInv, AwaitsAfterEnd, Done
  <2>3. ASSUME NEW j \in Frames, frame[i].caller = j
        PROVE  frame[j].alive
    <3>1. j = i - 1
        BY <2>3, Chain DEF IInv, TypeOK
    <3>2. j \in Inner /\ j + 1 = i
        BY <3>1, DepthAssumption DEF Frames, Inner
    <3>3. frame[j].pc = "suspended"
        BY <2>1, <2>3, <3>2 DEF IInv, CallerInv
    <3> QED
        BY <3>3 DEF IInv, AliveInv, AwaitsAfterEnd, Done
  <2>4. ASSUME NEW j \in Frames, ~frame'[j].alive
        PROVE  /\ Done(j)'
               /\ frame'[j].pc = "final" => frame'[j].captured = None
               /\ \A k \in Frames : frame'[k].captured = j =>
                                        frame'[k].pc = "ended"
               /\ frame'[j].exception = "none"
      BY <2>1, <2>2, <2>3, <2>4 DEF IInv, AliveInv, AwaitsAfterEnd, Done
  <2> QED
      BY <2>1, <2>4 DEF AliveInv, AwaitsAfterEnd
<1>9. ResultInv'
  <2>1. /\ frame[i].pc = "leaving" /\ frame[i].thrown = "none"
        /\ \A j \in Frames :
              /\ frame'[j].pc = IF j = i THEN "finalizing" ELSE frame[j].pc
              /\ frame'[j].alive <=> frame[j].alive
              /\ Carried(j)' = Carried(j)
              /\ j # i => frame'[j].result = frame[j].result
        /\ frame'[i].result = Carried(i)
      BY DEF FinalizeDoes, Moves, KeepsErrors, Carried
  <2>2. Carried(i) # "pending"
    <3>1. frame[i].exception \in Errors
        BY DEF IInv, TypeOK, FrameTypes
    <3> QED
        BY <2>1, <3>1 DEF Carried, Errors
  <2>3. ASSUME NEW j \in Frames
        PROVE  /\ frame'[j].result = "pending" <=> frame'[j].pc \notin HasResult
               /\ frame'[j].pc \in HasResult /\ frame'[j].alive =>
                      frame'[j].result = Carried(j)'
      BY <2>1, <2>2, <2>3 DEF IInv, ResultInv, HasResult
  <2>4. ASSUME NEW j \in Inner,
               frame'[j].pc \in {"flagging", "notifying", "leaving"}
        PROVE  Carried(j)' \in Promised!Passed(j, frame'[j + 1].result)
    <3>1. j \in Frames /\ j + 1 \in Frames /\ j # i
        BY <2>1, <2>4, Chain
    <3>2. frame'[j].pc = frame[j].pc
        BY <2>1, <3>1
    <3>3. ~frame[j + 1].alive
        BY <2>4, <3>2 DEF IInv, AwaitInv, HasTaken
    <3>4. j + 1 # i
        BY <2>1, <3>1, <3>3 DEF IInv, AliveInv, AwaitsAfterEnd, Done
    <3>5. frame'[j + 1].result = frame[j + 1].result
        BY <2>1, <3>1, <3>4
    <3> QED
        BY <2>1, <2>4, <3>1, <3>2, <3>5 DEF IInv, ResultInv, Promised!Passed
  <2> QED
      BY <2>3, <2>4 DEF ResultInv
<1> QED
    BY <1>1, <1>2, <1>3, <1>4, <1>5, <1>6, <1>7, <1>8, <1>9 DEF FrameInv

(* What the call of the next coroutine left behind is what a co_await that  *)
(* has taken its outcome leaves behind.                                     *)
LEMMA EscapeDoesKeeps ==
    ASSUME IInv, crash = "no", frame' \in [Frames -> FrameTypes],
           NEW i \in Frames, EscapeDoes(i)
    PROVE  FrameInv'
<1>1. CASE Fails("unchecked_destroy")
  <2>1. LinkInv' /\ PCInv' /\ ActiveInv' /\ AwaitInv' /\ CallerInv' /\ CheckInv'
      BY <1>1 DEF IInv, Fails, TypeOK, LinkInv, PCInv, ActiveInv, AwaitInv,
         CallerInv, CheckInv, Done
  <2>2. ErrorInv' /\ ResultInv'
      BY <1>1 DEF IInv, Fails, ErrorInv, ResultInv, Carries, Carried,
         Promised!Passed
  <2>3. AliveInv'
      BY <1>1 DEF IInv, Fails, AliveInv, AwaitsAfterEnd, Done
  <2> QED
      BY <2>1, <2>2, <2>3 DEF FrameInv
<1>2. CASE ~Fails("unchecked_destroy")
  <2>0. PICK c : c = i - 1
      OBVIOUS
  <2>1. /\ frame[i].pc = "leaving" /\ frame[i].thrown # "none"
        /\ frame[i].caller = None
        /\ frame[c].pc \in {"calling", "nested"}
        /\ \A j \in Frames :
              /\ frame'[j].pc = IF j = i THEN "ended"
                                ELSE IF j = c THEN "leaving"
                                ELSE frame[j].pc
              /\ frame'[j].exception = frame[j].exception
              /\ frame'[j].thrown = IF j = i THEN "none"
                                    ELSE IF j = c THEN Escaping(i)
                                    ELSE frame[j].thrown
              /\ frame'[j].mayBeChecked = (j = i \/ frame[j].mayBeChecked)
              /\ frame'[j].alive = (j # i /\ frame[j].alive)
              /\ frame'[j].result = IF j = i THEN frame[i].thrown
                                    ELSE frame[j].result
              /\ frame'[j].caller = frame[j].caller
              /\ frame'[j].captured = frame[j].captured
        /\ error' = Escaping(i) /\ crash' = "no"
      BY <1>2, <2>0 DEF EscapeDoes, KeepsLinks
  <2>2. /\ c \in Inner /\ c \in Frames /\ c # i /\ i = c + 1
        /\ i # 0 /\ c # 0 /\ c # Depth
        /\ \A j \in Inner : j + 1 = i => j = c
    <3>1. i > 1
        BY <1>2 DEF EscapeDoes
    <3> QED
        BY <2>0, <3>1, DepthAssumption DEF Frames, Inner
  <2>3. frame[i].captured = None
      BY <2>1 DEF IInv, CallerInv
  <2>4. frame[i].exception = "none" /\ ~Carries(c)
    <3>1. frame[i].exception = "none"
        BY <2>1 DEF IInv, ErrorInv
    <3>2. Carries(i)
        BY <2>1 DEF Carries
    <3> QED
        BY <2>2, <3>1, <3>2 DEF IInv, ErrorInv
  <2>5. LinkInv'
      BY <2>1 DEF IInv, TypeOK, LinkInv
  <2>6. PCInv'
      BY <2>1, <2>2, Chain DEF IInv, PCInv, Pending
  <2>7. ActiveInv'
    <3>1. ASSUME NEW j \in Frames, NEW k \in Frames, j < k,
                 frame'[k].pc \in Active
          PROVE  frame'[j].pc \in Pending
      <4>1. k # i
          BY <2>1, <3>1 DEF Active
      <4>2. k <= i
        <5>1. frame[i].pc \notin Pending
            BY <2>1 DEF Pending
        <5>2. k # c => frame[k].pc \in Active
            BY <2>1, <3>1, <4>1
        <5> QED
            BY <2>2, <3>1, <5>1, <5>2, Chain DEF IInv, ActiveInv, Inner
      <4>3. j < c /\ j # i
          BY <2>2, <3>1, <4>1, <4>2, Chain
      <4>4. frame[c].pc \in Active
          BY <2>1 DEF Active, PCs
      <4>5. frame[j].pc \in Pending
          BY <2>2, <4>3, <4>4 DEF IInv, ActiveInv
      <4>6. j # c
          BY <2>2, <4>3, Chain
      <4> QED
          BY <2>1, <4>3, <4>5, <4>6
    <3> QED
        BY <3>1 DEF ActiveInv
  <2>8. AwaitInv'
    <3>1. ASSUME NEW j \in Inner
          PROVE  /\ frame'[j].pc \in {"none", "running"} =>
                        frame'[j + 1].pc = "none"
                 /\ frame'[j].pc \in Pending => frame'[j + 1].pc # "none"
                 /\ frame'[j].pc = "result" =>
                        Done(j + 1)' /\ (frame'[j + 1].pc = "final"
                                             => frame'[j + 1].captured = None)
                 /\ frame'[j + 1].alive <=> frame'[j].pc \notin HasTaken
      <4>1. j \in Frames /\ j + 1 \in Frames /\ j # j + 1
          BY Chain
      <4>2. CASE j = c
        <5>1. j + 1 = i /\ frame'[j].pc = "leaving" /\ ~frame'[j + 1].alive
            BY <2>1, <2>2, <4>1, <4>2
        <5> QED
            BY <5>1 DEF HasTaken, Pending
      <4>3. CASE j = i
        <5>1. j + 1 # i /\ j + 1 # c
            BY <2>2, <4>1, <4>3, Chain
        <5>2. frame'[j].pc = "ended" /\ ~frame[j + 1].alive
            BY <2>1, <4>1, <4>3 DEF IInv, AwaitInv, HasTaken
        <5>3. ~frame'[j + 1].alive
            BY <2>1, <4>1, <5>1, <5>2
        <5> QED
            BY <5>2, <5>3 DEF HasTaken, Pending
      <4>4. CASE j # c /\ j # i
        <5>1. j + 1 # i
            BY <2>2, <4>4
        <5>2. /\ frame'[j].pc = frame[j].pc
              /\ frame'[j + 1].alive <=> frame[j + 1].alive
              /\ frame'[j + 1].captured = frame[j + 1].captured
              /\ j + 1 # c => frame'[j + 1].pc = frame[j + 1].pc
              /\ j + 1 = c => frame'[j + 1].pc = "leaving"
            BY <2>1, <4>1, <4>4, <5>1
        <5>3. /\ frame[j].pc \in {"none", "running"} => frame[j + 1].pc = "none"
              /\ frame[j].pc \in Pending => frame[j + 1].pc # "none"
              /\ frame[j].pc = "result" =>
                    /\ frame[j + 1].pc \in {"final", "ended"}
                    /\ (frame[j + 1].pc = "final"
                           => frame[j + 1].captured = None)
              /\ frame[j + 1].alive <=> frame[j].pc \notin HasTaken
            BY DEF IInv, AwaitInv, Done
        <5>4. j + 1 = c => frame[j + 1].pc \in {"calling", "nested"}
            BY <2>1
        <5>5. /\ frame[j].pc \in {"none", "running"} =>
                    frame'[j + 1].pc = "none"
              /\ frame[j].pc = "result" =>
                    /\ frame'[j + 1].pc \in {"final", "ended"}
                    /\ (frame'[j + 1].pc = "final"
                           => frame'[j + 1].captured = None)
            BY <5>2, <5>3, <5>4
        <5> QED
            BY <5>2, <5>3, <5>5 DEF Done
      <4> QED
          BY <4>2, <4>3, <4>4
    <3> QED
        BY <3>1 DEF AwaitInv
  <2>9. CallerInv'
    <3>1. ASSUME NEW j \in Inner
          PROVE  /\ frame'[j].pc = "suspended" <=>
                       /\ frame'[j + 1].caller = j
                       /\ ~(/\ frame'[j + 1].pc = "ended"
                            /\ frame'[j + 1].captured = j)
                 /\ frame'[j].pc \in Pending \ {"suspended"} =>
                       frame'[j + 1].caller = None
      <4>1. j \in Frames /\ j + 1 \in Frames /\ j # None
          BY Chain
      <4>2. CASE j = c
          BY <2>1, <2>2, <4>1, <4>2 DEF Pending
      <4>3. CASE j # c
        <5>1. /\ j + 1 # i
              /\ frame'[j].pc \in Pending => frame'[j].pc = frame[j].pc
              /\ frame'[j].pc = "suspended" <=> frame[j].pc = "suspended"
              /\ frame'[j + 1].pc = "ended" <=> frame[j + 1].pc = "ended"
            BY <2>1, <2>2, <4>1, <4>3 DEF Pending
        <5> QED
            BY <2>1, <4>1, <5>1 DEF IInv, CallerInv, Pending
      <4> QED
          BY <4>2, <4>3
    <3>2. ASSUME NEW j \in Frames
          PROVE  /\ frame'[j].captured # None =>
                        frame'[j].caller # None /\ frame'[j].pc \in HasResult
                 /\ frame'[j].caller # None => frame'[j].pc # "none"
      <4>1. frame[c].captured = None
          BY <2>1, <2>2 DEF IInv, CallerInv, HasResult
      <4> QED
          BY <2>1, <2>2, <2>3, <4>1 DEF IInv, CallerInv
    <3> QED
        BY <3>1, <3>2 DEF CallerInv
  <2>10. CheckInv'
      BY <2>1 DEF IInv, CheckInv, HasResult
  <2>11. ErrorInv'
    <3>1. \A j \in Frames : Carries(j) => j = i
      <4>1. Carries(i)
          BY <2>1 DEF Carries
      <4> QED
          BY <4>1 DEF IInv, ErrorInv
    <3>2. \A j \in Frames : /\ frame'[j].exception = "none"
                            /\ j # c => frame'[j].thrown = "none"
        BY <2>1, <2>4, <3>1 DEF Carries
    <3>3. frame'[c].thrown = error' /\ frame'[c].pc = "leaving"
        BY <2>1, <2>2
    <3>4. ASSUME NEW j \in Frames
          PROVE  /\ Carries(j)' => j = c
                 /\ frame'[j].thrown # "none" =>
                       /\ frame'[j].thrown = error'
                       /\ frame'[j].pc = "leaving"
      <4>1. CASE j = c
          BY <3>3, <4>1
      <4>2. CASE j # c
          BY <3>2, <4>2 DEF Carries
      <4> QED
          BY <4>1, <4>2
    <3>5. error' # "none" => \E j \in Frames : Carries(j)'
        BY <2>2, <3>3 DEF Carries
    <3> QED
        BY <3>2, <3>4, <3>5 DEF ErrorInv
  <2>12. AliveInv'
    <3>1. ASSUME NEW j \in Frames
          PROVE  /\ Done(j) => Done(j)'
                 /\ frame[j].pc = "ended" => frame'[j].pc = "ended"
                 /\ frame'[j].pc = "final" => frame[j].pc = "final"
      <4>1. j = i \/ j = c => ~Done(j)
          BY <2>1 DEF Done
      <4> QED
          BY <2>1, <4>1 DEF Done
    <3>2. \A j \in Frames : frame[j].captured = i => frame[j].pc = "ended"
      <4> SUFFICES ASSUME NEW j \in Frames, frame[j].captured = i
                   PROVE  frame[j].pc = "ended"
          OBVIOUS
      <4>1. i # None /\ j - 1 = i
          BY Chain DEF IInv, TypeOK
      <4>2. frame[j].caller = i
          BY <4>1 DEF IInv, TypeOK, CallerInv
      <4>3. i \in Inner /\ j = i + 1
          BY <4>1, DepthAssumption DEF Frames, Inner
      <4> QED
          BY <2>1, <4>2, <4>3 DEF IInv, CallerInv
    <3>3. Done(i)' /\ frame'[i].pc # "final"
        BY <2>1 DEF Done
    <3>4. ASSUME NEW j \in Frames, ~frame'[j].alive
          PROVE  /\ Done(j)'
                 /\ frame'[j].pc = "final" => frame'[j].captured = None
                 /\ \A k \in Frames : frame'[k].captured = j =>
                                          frame'[k].pc = "ended"
                 /\ frame'[j].exception = "none"
      <4>1. CASE j = i
          BY <2>1, <2>4, <3>1, <3>2, <3>3, <4>1
      <4>2. CASE j # i
        <5>1. ~frame[j].alive
            BY <2>1, <3>4, <4>2
        <5>2. /\ Done(j)
              /\ frame[j].pc = "final" => frame[j].captured = None
              /\ \A k \in Frames : frame[k].captured = j =>
                                       frame[k].pc = "ended"
              /\ frame[j].exception = "none"
            BY <5>1 DEF IInv, AliveInv, AwaitsAfterEnd
        <5>3. \A k \in Frames : /\ frame'[k].captured = frame[k].captured
                                /\ frame'[k].exception = frame[k].exception
            BY <2>1
        <5> QED
            BY <3>1, <5>2, <5>3
      <4> QED
          BY <4>1, <4>2
    <3> QED
        BY <2>1, <3>4 DEF AliveInv, AwaitsAfterEnd
  <2>13. ResultInv'
    <3>1. /\ frame[i].thrown \in Errors
          /\ frame[c].exception = "none" /\ frame[c].pc \notin HasResult
        BY <2>1, <2>2, <2>4 DEF IInv, TypeOK, FrameTypes, Carries, HasResult
    <3>2. ASSUME NEW j \in Frames
          PROVE  /\ frame'[j].result = "pending" <=>
                        frame'[j].pc \notin HasResult
                 /\ frame'[j].pc \in HasResult /\ frame'[j].alive =>
                        frame'[j].result = Carried(j)'
      <4>1. CASE j = i
          BY <2>1, <3>1, <4>1 DEF HasResult, Errors
      <4>2. CASE j = c
          BY <2>1, <2>2, <3>1, <4>2 DEF IInv, ResultInv, HasResult
      <4>3. CASE j # i /\ j # c
        <5>1. /\ frame'[j].pc = frame[j].pc
              /\ frame'[j].result = frame[j].result
              /\ frame'[j].exception = frame[j].exception
              /\ frame'[j].thrown = frame[j].thrown
              /\ frame'[j].alive => frame[j].alive
            BY <2>1, <4>3
        <5>2. /\ frame[j].result = "pending" <=> frame[j].pc \notin HasResult
              /\ frame[j].pc \in HasResult /\ frame[j].alive =>
                    frame[j].result = Carried(j)
            BY DEF IInv, ResultInv
        <5>3. Carried(j)' = Carried(j)
            BY <5>1 DEF Carried
        <5> QED
            BY <5>1, <5>2, <5>3
      <4> QED
          BY <4>1, <4>2, <4>3
    <3>3. ASSUME NEW j \in Inner,
                 frame'[j].pc \in {"flagging", "notifying", "leaving"}
          PROVE  Carried(j)' \in Promised!Passed(j, frame'[j + 1].result)
      <4>1. j \in Frames /\ j + 1 \in Frames /\ j # i
          BY <2>1, <3>3, Chain
      <4>2. CASE j = c
          BY <2>1, <2>2, <3>1, <4>1, <4>2
          DEF Carried, Escaping, Promised!Passed, Errors
      <4>3. CASE j # c
        <5>1. j + 1 # i
            BY <2>2, <4>3
        <5>2. frame[j].pc \in {"flagging", "notifying", "leaving"}
            BY <2>1, <3>3, <4>1, <4>3
        <5> QED
            BY <2>1, <4>1, <4>3, <5>1, <5>2 DEF IInv, ResultInv, Carried,
               Promised!Passed
      <4> QED
          BY <4>2, <4>3
    <3> QED
        BY <3>2, <3>3 DEF ResultInv
  <2> QED
      BY <2>5, <2>6, <2>7, <2>8, <2>9, <2>10, <2>11, <2>12, <2>13
      DEF FrameInv
<1> QED
    BY <1>1, <1>2

(* done() becomes true when the promise may be checked.                     *)
LEMMA SuspendFinallyDoesKeeps ==
    ASSUME IInv, crash = "no", frame' \in [Frames -> FrameTypes], NEW i \in
           Frames, SuspendFinallyDoes(i)
    PROVE  FrameInv'
<1>1. LinkInv'
    BY DEF IInv, SuspendFinallyDoes, LinkInv, TypeOK, Passes, KeepsLinks
<1>2. PCInv'
    BY DepthAssumption DEF IInv, SuspendFinallyDoes, PCInv, Passes, Inner,
       Pending, Frames, Moves
<1>3. ActiveInv'
    BY DEF IInv, SuspendFinallyDoes, ActiveInv, Passes, Active, Pending,
       Moves
<1>4. AwaitInv'
  <2>1. /\ frame[i].pc = "finalizing" /\ Moves(i, "final") /\ KeepsLinks
        /\ KeepsEnds
      BY DEF SuspendFinallyDoes, Passes
  <2> QED
      BY <2>1, MovesAwait, Chain DEF KeepsLinks, KeepsEnds, Pending,
         HasTaken, Done
<1>5. CallerInv'
  <2>1. /\ frame[i].pc = "finalizing" /\ Moves(i, "final") /\ KeepsLinks
        /\ KeepsEnds
      BY DEF SuspendFinallyDoes, Passes
  <2> QED
      BY <2>1, MovesCaller, Chain DEF Pending, HasResult
<1>6. CheckInv'
    BY DEF IInv, SuspendFinallyDoes, CheckInv, Passes, HasResult, Moves,
       KeepsEnds
<1>7. ErrorInv'
    BY DEF IInv, SuspendFinallyDoes, ErrorInv, Passes, HasResult, Carries,
       Moves, KeepsLinks, KeepsErrors
<1>8. AliveInv'
    BY DEF IInv, SuspendFinallyDoes, AliveInv, Passes, AwaitsAfterEnd, Moves,
       KeepsLinks, KeepsErrors, KeepsEnds, Done
<1>9. ResultInv'
    BY DepthAssumption DEF IInv, SuspendFinallyDoes, ResultInv, Passes,
       Frames, HasResult, Carried, Inner, Moves, KeepsErrors, KeepsEnds
<1> QED
    BY <1>1, <1>2, <1>3, <1>4, <1>5, <1>6, <1>7, <1>8, <1>9 DEF FrameInv

(* The frame was taken by a caller that had found it done.                  *)
LEMMA TransferDestroyedDoesKeeps ==
    ASSUME IInv, crash = "no", frame' \in [Frames -> FrameTypes], NEW i \in
           Frames, TransferDestroyedDoes(i)
    PROVE  FrameInv'
<1>1. LinkInv'
    BY DEF IInv, TransferDestroyedDoes, LinkInv, TypeOK, Fails, Passes,
       KeepsLinks
<1>2. PCInv'
    BY DepthAssumption DEF IInv, TransferDestroyedDoes, PCInv, Fails, Passes,
       Inner, Pending, Frames, Moves
<1>3. ActiveInv'
    BY DEF IInv, TransferDestroyedDoes, ActiveInv, Fails, Passes, Active,
       Pending, Moves
<1>4. AwaitInv'
  <2>1. CASE Fails("use_after_destroy")
      BY <2>1 DEF Fails, IInv, AwaitInv, Done
  <2>2. CASE ~Fails("use_after_destroy")
    <3>1. /\ frame[i].pc = "final" /\ Moves(i, "ended") /\ KeepsLinks
          /\ KeepsEnds
        BY <2>2 DEF TransferDestroyedDoes, Passes
    <3> QED
        BY <3>1, MovesAwait DEF KeepsLinks, KeepsEnds, Pending, HasTaken
  <2> QED
      BY <2>1, <2>2
<1>5. CallerInv'
  <2>1. CASE Fails("use_after_destroy")
      BY <2>1 DEF Fails, IInv, CallerInv
  <2>2. CASE ~Fails("use_after_destroy")
    <3>1. /\ frame[i].pc = "final" /\ Moves(i, "ended") /\ KeepsLinks
          /\ ~frame[i].alive
        BY <2>2 DEF TransferDestroyedDoes, Passes
    <3>2. frame[i].captured = None
        BY <3>1 DEF IInv, AliveInv, AwaitsAfterEnd
    <3> QED
        BY <3>1, <3>2, MovesCaller DEF Pending, HasResult
  <2> QED
      BY <2>1, <2>2
<1>6. CheckInv'
    BY DEF IInv, TransferDestroyedDoes, CheckInv, Fails, Passes, HasResult,
       Moves, KeepsEnds
<1>7. ErrorInv'
    BY DEF IInv, TransferDestroyedDoes, ErrorInv, TypeOK, Fails, Passes,
       HasResult, Carries, Moves, KeepsLinks, KeepsErrors
<1>8. AliveInv'
    BY DEF IInv, TransferDestroyedDoes, AliveInv, TypeOK, Fails, Passes,
       AwaitsAfterEnd, Moves, KeepsLinks, KeepsErrors, KeepsEnds, Done
<1>9. ResultInv'
    BY DepthAssumption DEF IInv, TransferDestroyedDoes, ResultInv, Fails,
       Passes, Frames, HasResult, Carried, Inner, Moves, KeepsErrors,
       KeepsEnds
<1> QED
    BY <1>1, <1>2, <1>3, <1>4, <1>5, <1>6, <1>7, <1>8, <1>9 DEF FrameInv

(* The helper sets the flag after its co_await.                             *)
LEMMA FlagDoesKeeps ==
    ASSUME IInv, crash = "no", frame' \in [Frames -> FrameTypes], FlagDoes
    PROVE  FrameInv'
<1>1. LinkInv'
    BY DEF IInv, FlagDoes, LinkInv, TypeOK, Passes, KeepsLinks
<1>2. PCInv'
    BY DepthAssumption DEF IInv, FlagDoes, PCInv, Passes, Inner, Frames,
       Moves
<1>3. ActiveInv'
    BY DEF IInv, FlagDoes, ActiveInv, Passes, Active, Pending, Moves, PCs
<1>4. AwaitInv'
  <2>1. /\ frame[0].pc = "flagging" /\ Moves(0, "notifying") /\ KeepsLinks
        /\ KeepsEnds
      BY DEF FlagDoes, Passes
  <2> QED
      BY <2>1, MovesAwait, Chain DEF KeepsLinks, KeepsEnds, Pending,
         HasTaken, Done
<1>5. CallerInv'
  <2>1. /\ frame[0].pc = "flagging" /\ Moves(0, "notifying") /\ KeepsLinks
        /\ KeepsEnds
      BY DEF FlagDoes, Passes
  <2> QED
      BY <2>1, MovesCaller, Chain DEF Pending, HasResult
<1>6. CheckInv'
    BY DEF IInv, FlagDoes, CheckInv, Passes, HasResult, Moves, KeepsEnds
<1>7. ErrorInv'
    BY DEF IInv, FlagDoes, ErrorInv, Passes, HasResult, Carries, Moves,
       KeepsLinks, KeepsErrors
<1>8. AliveInv'
    BY DEF IInv, FlagDoes, AliveInv, Passes, AwaitsAfterEnd, Moves,
       KeepsLinks, KeepsErrors, KeepsEnds, Done
<1>9. ResultInv'
    BY DepthAssumption DEF IInv, FlagDoes, ResultInv, Passes, Frames,
       HasResult, Carried, Inner, Moves, KeepsErrors, KeepsEnds
<1> QED
    BY <1>1, <1>2, <1>3, <1>4, <1>5, <1>6, <1>7, <1>8, <1>9 DEF FrameInv

(* Then it ends.                                                            *)
LEMMA NotifyDoesKeeps ==
    ASSUME IInv, crash = "no", frame' \in [Frames -> FrameTypes], NotifyDoes
    PROVE  FrameInv'
<1>1. LinkInv'
    BY DEF IInv, NotifyDoes, LinkInv, TypeOK, Passes, KeepsLinks
<1>2. PCInv'
    BY DepthAssumption DEF IInv, NotifyDoes, PCInv, Passes, Inner, Frames,
       Moves
<1>3. ActiveInv'
    BY DEF IInv, NotifyDoes, ActiveInv, Passes, Active, Pending, Moves, PCs
<1>4. AwaitInv'
  <2>1. /\ frame[0].pc = "notifying" /\ Moves(0, "leaving") /\ KeepsLinks
        /\ KeepsEnds
      BY DEF NotifyDoes, Passes
  <2> QED
      BY <2>1, MovesAwait, Chain DEF KeepsLinks, KeepsEnds, Pending,
         HasTaken, Done
<1>5. CallerInv'
  <2>1. /\ frame[0].pc = "notifying" /\ Moves(0, "leaving") /\ KeepsLinks
        /\ KeepsEnds
      BY DEF NotifyDoes, Passes
  <2> QED
      BY <2>1, MovesCaller, Chain DEF Pending, HasResult
<1>6. CheckInv'
    BY DEF IInv, NotifyDoes, CheckInv, Passes, HasResult, Moves, KeepsEnds
<1>7. ErrorInv'
    BY DEF IInv, NotifyDoes, ErrorInv, Passes, Carries, Moves, KeepsLinks,
       KeepsErrors
<1>8. AliveInv'
    BY DEF IInv, NotifyDoes, AliveInv, Passes, AwaitsAfterEnd, Moves,
       KeepsLinks, KeepsErrors, KeepsEnds, Done
<1>9. ResultInv'
    BY DepthAssumption DEF IInv, NotifyDoes, ResultInv, Passes, Frames,
       HasResult, Carried, Inner, Moves, KeepsErrors, KeepsEnds
<1> QED
    BY <1>1, <1>2, <1>3, <1>4, <1>5, <1>6, <1>7, <1>8, <1>9 DEF FrameInv

(* The frame of the helper has no caller and no exception.                  *)
LEMMA ReturnDoesKeeps ==
    ASSUME IInv, crash = "no", frame' \in [Frames -> FrameTypes], ReturnDoes
    PROVE  FrameInv'
<1>1. LinkInv'
    BY DEF IInv, ReturnDoes, LinkInv, TypeOK, Fails, KeepsLinks
<1>2. PCInv'
    BY DepthAssumption DEF IInv, ReturnDoes, PCInv, Fails, Frames, Inner
<1>3. ActiveInv'
    BY DEF IInv, ReturnDoes, ActiveInv, Fails
<1>4. AwaitInv'
    BY DepthAssumption DEF IInv, ReturnDoes, AwaitInv, TypeOK, Fails, Done,
       Frames, KeepsLinks, Inner, FrameTypes
<1>5. CallerInv'
    BY DepthAssumption DEF IInv, ReturnDoes, CallerInv, TypeOK, Fails,
       Frames, KeepsLinks, Inner
<1>6. CheckInv'
    BY DEF IInv, ReturnDoes, CheckInv, Fails
<1>7. ErrorInv'
    BY DEF IInv, ReturnDoes, ErrorInv, TypeOK, Fails, KeepsLinks,
       KeepsErrors, Carries
<1>8. AliveInv'
    BY Chain, DepthAssumption DEF IInv, ReturnDoes, AliveInv, TypeOK,
       CallerInv, ErrorInv, Fails, Done, KeepsLinks, KeepsErrors,
       AwaitsAfterEnd, FrameTypes
<1>9. ResultInv'
    BY DepthAssumption DEF IInv, ReturnDoes, ResultInv, TypeOK, Fails,
       Frames, KeepsLinks, KeepsErrors, HasResult, Carried, Inner,
       Promised!Passed, FrameTypes
<1> QED
    BY <1>1, <1>2, <1>3, <1>4, <1>5, <1>6, <1>7, <1>8, <1>9 DEF FrameInv

(* A caller that is resumed finds the coroutine it awaits ended, and        *)
(* nothing above it runs.                                                   *)
LEMMA TransferDoesKeeps ==
    ASSUME IInv, crash = "no", frame' \in [Frames -> FrameTypes],
           NEW i \in Frames, TransferDoes(i)
    PROVE  FrameInv'
<1>1. /\ frame[i].pc = "final" /\ frame[i].alive
      /\ \A j \in Frames :
            frame'[j].pc = IF j = frame[i].captured THEN "result"
                           ELSE IF j = i THEN "ended" ELSE frame[j].pc
      /\ \A j \in Frames : /\ frame'[j].caller = frame[j].caller
                           /\ frame'[j].captured = frame[j].captured
      /\ \A j \in Frames : /\ frame'[j].alive <=> frame[j].alive
                           /\ frame'[j].exception = frame[j].exception
      /\ crash' = "no"
    BY DEF TransferDoes, KeepsLinks, KeepsErrors, KeepsEnds
<1>2. ASSUME NEW j \in Frames
      PROVE  \/ /\ j = frame[i].captured /\ j # i
                /\ frame[j].pc = "suspended" /\ frame'[j].pc = "result"
             \/ /\ j = i /\ j # frame[i].captured
                /\ frame[j].pc = "final" /\ frame'[j].pc = "ended"
             \/ /\ j # i /\ j # frame[i].captured
                /\ frame'[j].pc = frame[j].pc
    BY <1>1, FinalCaller
<1>3. LinkInv'
    BY DEF IInv, TransferDoes, LinkInv, TypeOK, KeepsLinks
<1>4. PCInv'
  <2>1. frame[i].captured # Depth
      BY <1>1, FinalCaller, Chain
  <2> QED
      BY <1>2, <2>1, Chain DEF IInv, PCInv, Pending
<1>5. ActiveInv'
  <2>1. ASSUME NEW j \in Frames, NEW k \in Frames, j < k,
               frame'[k].pc \in Active
        PROVE  frame'[j].pc \in Pending
    <3>1. frame[k].pc \in Active
        BY <1>2, <2>1 DEF Active, PCs
    <3>2. frame[j].pc \in Pending
        BY <2>1, <3>1 DEF IInv, ActiveInv
    <3>3. j # i
        BY <1>1, <3>2 DEF Pending
    <3>4. j # frame[i].captured
      <4>1. SUFFICES ASSUME j = frame[i].captured
                     PROVE  FALSE
          OBVIOUS
      <4>2. j \in Inner /\ i = j + 1
          BY <1>1, <4>1, FinalCaller
      <4>3. CASE k = i
          BY <1>1, <3>1, <4>3 DEF Active
      <4>4. CASE k # i
        <5>1. i < k
            BY <2>1, <4>2, <4>4, Chain
        <5> QED
            BY <1>1, <3>1, <5>1 DEF IInv, ActiveInv, Pending
      <4> QED
          BY <4>3, <4>4
    <3> QED
        BY <1>2, <3>2, <3>3, <3>4
  <2> QED
      BY <2>1 DEF ActiveInv
<1>6. AwaitInv'
  <2>1. ASSUME NEW j \in Inner
        PROVE  /\ frame'[j].pc \in {"none", "running"} =>
                      frame'[j + 1].pc = "none"
               /\ frame'[j].pc \in Pending => frame'[j + 1].pc # "none"
               /\ frame'[j].pc = "result" =>
                      Done(j + 1)' /\ (frame'[j + 1].pc = "final"
                                           => frame'[j + 1].captured = None)
               /\ frame'[j + 1].alive <=> frame'[j].pc \notin HasTaken
    <3>1. j \in Frames /\ j + 1 \in Frames
        BY Chain
    <3>2. /\ frame[j + 1].pc = "none" => frame'[j + 1].pc = "none"
          /\ frame[j + 1].pc # "none" => frame'[j + 1].pc # "none"
          /\ Done(j + 1) => Done(j + 1)'
          /\ frame'[j + 1].pc = "final" => frame[j + 1].pc = "final"
        BY <1>2, <3>1 DEF Done
    <3>3. CASE j = frame[i].captured
      <4>1. i = j + 1 /\ i # j
          BY <1>1, <3>1, <3>3, FinalCaller, Chain
      <4>2. frame'[j].pc = "result" /\ frame[j].pc = "suspended"
          BY <1>2, <3>1, <3>3
      <4>3. frame'[j + 1].pc = "ended"
          BY <1>2, <3>1, <4>1
      <4> QED
          BY <1>1, <3>1, <4>2, <4>3
          DEF IInv, AwaitInv, HasTaken, Pending, Done
    <3>4. CASE j # frame[i].captured
      <4>1. \/ frame'[j].pc = frame[j].pc
            \/ frame'[j].pc = "ended" /\ frame[j].pc = "final"
          BY <1>2, <3>1, <3>4
      <4> QED
          BY <1>1, <3>1, <3>2, <4>1
          DEF IInv, AwaitInv, HasTaken, Pending
    <3> QED
        BY <3>3, <3>4
  <2> QED
      BY <2>1 DEF AwaitInv
<1>7. CallerInv'
  <2>1. ASSUME NEW j \in Inner
        PROVE  frame'[j].pc = "suspended" <=>
                  /\ frame'[j + 1].caller = j
                  /\ ~(frame'[j + 1].pc = "ended" /\ frame'[j + 1].captured = j)
    <3>1. j \in Frames /\ j + 1 \in Frames
        BY Chain
    <3>2. CASE j = frame[i].captured
      <4>1. i = j + 1 /\ i # j
          BY <1>1, <3>1, <3>2, FinalCaller, Chain
      <4> QED
          BY <1>1, <1>2, <3>1, <3>2, <4>1
    <3>3. CASE j # frame[i].captured
      <4>1. frame'[j].pc = "suspended" <=> frame[j].pc = "suspended"
          BY <1>2, <3>1, <3>3
      <4>2. CASE j + 1 = i
          BY <1>1, <3>1, <3>3, <4>1, <4>2 DEF IInv, CallerInv
      <4>3. CASE j + 1 # i
        <5>1. frame'[j + 1].pc = "ended" <=> frame[j + 1].pc = "ended"
            BY <1>2, <3>1, <4>3
        <5> QED
            BY <1>1, <3>1, <4>1, <5>1 DEF IInv, CallerInv
      <4> QED
          BY <4>2, <4>3
    <3> QED
        BY <3>2, <3>3
  <2>2. ASSUME NEW j \in Inner, frame'[j].pc \in Pending \ {"suspended"}
        PROVE  frame'[j + 1].caller = None
    <3>1. j \in Frames /\ j + 1 \in Frames
        BY Chain
    <3>2. frame[j].pc \in Pending \ {"suspended"}
        BY <1>2, <2>2, <3>1 DEF Pending
    <3> QED
        BY <1>1, <3>1, <3>2 DEF IInv, CallerInv
  <2>3. ASSUME NEW j \in Frames
        PROVE  /\ frame'[j].captured # None =>
                      frame'[j].caller # None /\ frame'[j].pc \in HasResult
               /\ frame'[j].caller # None => frame'[j].pc # "none"
      BY <1>1, <1>2 DEF IInv, CallerInv, HasResult
  <2> QED
      BY <2>1, <2>2, <2>3 DEF CallerInv
<1>8. CheckInv'
    BY DEF IInv, TransferDoes, CheckInv, KeepsEnds, HasResult
<1>9. ErrorInv'
  <2>1. /\ error' = error
        /\ \A j \in Frames : /\ frame'[j].exception = frame[j].exception
                             /\ frame'[j].thrown = frame[j].thrown
                             /\ Carries(j)' <=> Carries(j)
      BY DEF TransferDoes, KeepsErrors, Carries
  <2>2. ASSUME NEW j \in Frames
        PROVE  /\ frame[j].exception # "none" =>
                      \/ frame'[j].pc \in {"leaving"} \cup HasResult
                      \/ j = Depth /\ frame'[j].pc \in {"scheduled", "running"}
               /\ frame[j].thrown # "none" =>
                      frame'[j].pc \in {"flagging", "notifying", "leaving"}
      BY <1>2 DEF IInv, ErrorInv, HasResult
  <2> QED
      BY <1>1, <2>1, <2>2 DEF IInv, ErrorInv
<1>10. AliveInv'
  <2>1. ASSUME NEW j \in Frames, ~frame'[j].alive
        PROVE  /\ Done(j)'
               /\ frame'[j].pc = "final" => frame'[j].captured = None
               /\ \A k \in Frames : frame'[k].captured = j =>
                                        frame'[k].pc = "ended"
               /\ frame'[j].exception = "none"
    <3>1. /\ ~frame[j].alive /\ Done(j) /\ frame[j].exception = "none"
          /\ frame[j].pc = "final" => frame[j].captured = None
          /\ \A k \in Frames : frame[k].captured = j => frame[k].pc = "ended"
        BY <1>1, <2>1 DEF IInv, AliveInv, AwaitsAfterEnd
    <3>2. frame'[j].pc = frame[j].pc
        BY <1>1, <1>2, <3>1 DEF Done
    <3>3. \A k \in Frames : frame[k].pc = "ended" => frame'[k].pc = "ended"
        BY <1>2
    <3> QED
        BY <1>1, <3>1, <3>2, <3>3 DEF Done
  <2> QED
      BY <1>1, <2>1 DEF AliveInv, AwaitsAfterEnd
<1>11. ResultInv'
  <2>1. \A j \in Frames : /\ frame'[j].result = frame[j].result
                          /\ Carried(j)' = Carried(j)
      BY DEF TransferDoes, KeepsErrors, KeepsEnds, Carried
  <2>2. ASSUME NEW j \in Frames
        PROVE  /\ frame'[j].pc \in HasResult <=> frame[j].pc \in HasResult
               /\ frame'[j].pc \in {"flagging", "notifying", "leaving"} =>
                      frame'[j].pc = frame[j].pc
      BY <1>2 DEF HasResult
  <2> QED
      BY <1>1, <2>1, <2>2, Chain DEF IInv, ResultInv, Promised!Passed
<1> QED
    BY <1>3, <1>4, <1>5, <1>6, <1>7, <1>8, <1>9, <1>10, <1>11 DEF FrameInv

-----------------------------------------------------------------------------
(* A step of the waiting thread, or one that ends the process, leaves the   *)
(* frames as they are.                                                      *)
LEMMA StillKeeps ==
    ASSUME IInv, UNCHANGED <<frame, error>>,
           crash' \in {crash, "checked_early"}
    PROVE  frame' \in [Frames -> FrameTypes] /\ FrameInv'
<1>1. frame' \in [Frames -> FrameTypes] /\ LinkInv'
    BY DEF IInv, TypeOK, LinkInv
<1>2. PCInv' /\ ActiveInv' /\ AwaitInv' /\ CallerInv' /\ CheckInv'
    BY DEF IInv, PCInv, ActiveInv, AwaitInv, CallerInv, CheckInv, Done
<1>3. ErrorInv' /\ ResultInv'
    BY DEF IInv, ErrorInv, ResultInv, Carries, Carried, Promised!Passed
<1>4. AliveInv'
    BY DEF IInv, AliveInv, AwaitsAfterEnd, Done
<1> QED
    BY <1>1, <1>2, <1>3, <1>4 DEF FrameInv

(* The other variables have their types after every step.                   *)
RestTypes ==
    /\ main \in MainPCs /\ doneFlag \in BOOLEAN /\ held \in BOOLEAN
    /\ suspends \in 0 .. MaxSuspends + 1
    /\ error \in Errors /\ crash \in Crashes

LEMMA RestTyped == IInv /\ [Next]_vars => RestTypes'
<1> SUFFICES ASSUME IInv, [Next]_vars PROVE RestTypes'
    OBVIOUS
<1>1. RestTypes
    BY DEF IInv, TypeOK, RestTypes
<1>2. CASE Last
  <2>1. UNCHANGED <<main, doneFlag, held>>
      BY <1>2 DEF Last, Suspend, Schedule, Raise, Resume, Leave, waiting
  <2>2. error' \in Errors
      BY <1>1, <1>2 DEF Last, Suspend, Schedule, Raise, Resume, Leave,
         RestTypes, Errors
  <2>3. crash' \in Crashes
      BY <1>1, <1>2 DEF Last, Suspend, Schedule, Raise, Resume, Leave,
         RestTypes, Crashes
  <2>4. suspends' \in 0 .. MaxSuspends + 1
    <3>1. CASE Suspend
      <4>1. suspends < MaxSuspends \/ suspends < 1
          BY <3>1 DEF Suspend
      <4>2. suspends' = suspends + 1
          BY <3>1 DEF Suspend
      <4> QED
          BY <1>1, <4>1, <4>2, SuspendsAssumption DEF RestTypes
    <3>2. CASE Schedule \/ Raise \/ Resume \/ Leave
        BY <1>1, <3>2 DEF Schedule, Raise, Resume, Leave, RestTypes
    <3> QED
        BY <1>2, <3>1, <3>2 DEF Last
  <2> QED
      BY <1>1, <2>1, <2>2, <2>3, <2>4 DEF RestTypes
<1>3. ASSUME NEW i \in Inner, Await(i)
      PROVE  RestTypes'
    BY <1>1, <1>3 DEF Await, Call, ResumeSuspended, Ready, Store, Take,
       TakeResult, waiting, RestTypes, Errors, Crashes
<1>4. ASSUME NEW i \in Frames, Exit(i)
      PROVE  RestTypes'
  <2>1. error' \in Errors
    <3>1. CASE Escape(i)
      <4>1. frame[i].thrown \in Errors
          BY DEF IInv, TypeOK, FrameTypes
      <4> QED
          BY <1>1, <3>1, <4>1 DEF Escape, Escaping, RestTypes, Errors
    <3>2. CASE ~Escape(i)
        BY <1>1, <1>4, <3>2 DEF Exit, Unhandled, Finalize, SuspendFinally,
           Transfer, TransferDestroyed, RestTypes
    <3> QED
        BY <3>1, <3>2
  <2>2. crash' \in Crashes
      BY <1>1, <1>4 DEF Exit, Unhandled, Escape, Finalize, SuspendFinally,
         Transfer, TransferDestroyed, RestTypes, Crashes
  <2>3. UNCHANGED <<main, doneFlag, suspends, held>>
      BY <1>4 DEF Exit, Unhandled, Escape, Finalize, SuspendFinally, Transfer,
         TransferDestroyed, waiting
  <2> QED
      BY <1>1, <2>1, <2>2, <2>3 DEF RestTypes
<1>5. CASE Wait \/ WakeSpuriously
    BY <1>1, <1>5 DEF Wait, WakeSpuriously, Flag, Notify, Test, Sleep, Check,
       Return, RestTypes, MainPCs, Crashes
<1>6. CASE UNCHANGED vars
    BY <1>1, <1>6 DEF vars, RestTypes
<1> QED
    BY <1>2, <1>3, <1>4, <1>5, <1>6 DEF Next, Inner

(* The frames have their types and their invariants after every step.       *)
LEMMA FrameKeeps ==
    IInv /\ [Next]_vars => frame' \in [Frames -> FrameTypes] /\ FrameInv'
<1> DEFINE Kept == frame' \in [Frames -> FrameTypes] /\ FrameInv'
<1> SUFFICES ASSUME IInv, [Next]_vars PROVE Kept
    OBVIOUS
<1>1. CASE crash = "no" /\ Last
    BY <1>1, SuspendEffect, SuspendDoesKeeps, ScheduleEffect,
       ScheduleDoesKeeps, RaiseEffect, RaiseDoesKeeps, ResumeEffect,
       ResumeDoesKeeps, LeaveEffect, LeaveDoesKeeps
    DEF Last
<1>2. ASSUME NEW i \in Inner, crash = "no", Await(i)
      PROVE  Kept
    BY <1>2, CallEffect, CallDoesKeeps, ResumeSuspendedEffect,
       ResumeSuspendedDoesKeeps, ReadyEffect, ReadyDoesKeeps, StoreEffect,
       StoreDoesKeeps, TakeEffect, TakeDoesKeeps
    DEF Await
<1>3. ASSUME NEW i \in Frames, crash = "no", Exit(i)
      PROVE  Kept
    BY <1>3, UnhandledEffect, UnhandledDoesKeeps, EscapeEffect,
       EscapeDoesKeeps, FinalizeEffect,
       FinalizeDoesKeeps, SuspendFinallyEffect, SuspendFinallyDoesKeeps,
       TransferEffect, TransferDoesKeeps, TransferDestroyedEffect,
       TransferDestroyedDoesKeeps
    DEF Exit
<1>4. CASE crash = "no" /\ (Flag \/ Notify \/ Return)
    BY <1>4, FlagEffect, FlagDoesKeeps, NotifyEffect, NotifyDoesKeeps,
       ReturnEffect, ReturnDoesKeeps
<1>5. CASE Test \/ Sleep \/ Check \/ WakeSpuriously \/ UNCHANGED vars
  <2>1. UNCHANGED <<frame, error>> /\ crash' \in {crash, "checked_early"}
      BY <1>5 DEF Test, Sleep, Check, WakeSpuriously, vars
  <2> QED
      BY <2>1, StillKeeps
<1> QED
    BY <1>1, <1>2, <1>3, <1>4, <1>5 DEF Next, Wait, Inner

(* Only four steps end a coroutine's result or its frame.                   *)
LEMMA EndsKept ==
    ASSUME IInv, [Next]_vars,
           \A i \in Inner : ~(crash = "no" /\ Take(i)),
           \A i \in Frames : ~(crash = "no" /\ (Finalize(i) \/ Escape(i))),
           ~(crash = "no" /\ Return)
    PROVE  /\ \A j \in Frames : /\ frame'[j].alive = frame[j].alive
                                /\ frame'[j].result = frame[j].result
           /\ main' # main => main' # "returned" /\ main # "returned"
<1> DEFINE Kept == \A j \in Frames : /\ frame'[j].alive = frame[j].alive
                                     /\ frame'[j].result = frame[j].result
<1>1. CASE crash = "no" /\ Last
  <2>1. Kept
      BY <1>1, SuspendEffect, ScheduleEffect, RaiseEffect, ResumeEffect,
         LeaveEffect
      DEF Last, SuspendDoes, ScheduleDoes, RaiseDoes, ResumeDoes, LeaveDoes,
          Passes, Fails, KeepsEnds
  <2>2. main' = main
      BY <1>1 DEF Last, Suspend, Schedule, Raise, Resume, Leave, waiting
  <2> QED
      BY <2>1, <2>2
<1>2. ASSUME NEW i \in Inner, crash = "no", Await(i)
      PROVE  Kept /\ main' = main
  <2>1. Kept
      BY <1>2, CallEffect, ResumeSuspendedEffect, ReadyEffect, StoreEffect
      DEF Await, CallDoes, ResumeSuspendedDoes, ReadyDoes, StoreDoes,
          KeepsEnds
  <2>2. main' = main
      BY <1>2 DEF Await, Call, ResumeSuspended, Ready, Store, waiting
  <2> QED
      BY <2>1, <2>2
<1>3. ASSUME NEW i \in Frames, crash = "no", Exit(i)
      PROVE  Kept /\ main' = main
  <2>1. Kept
      BY <1>3, UnhandledEffect, SuspendFinallyEffect, TransferEffect,
         TransferDestroyedEffect
      DEF Exit, UnhandledDoes, SuspendFinallyDoes, TransferDoes,
          TransferDestroyedDoes, Passes, Fails, KeepsEnds
  <2>2. main' = main
      BY <1>3 DEF Exit, Unhandled, SuspendFinally, Transfer,
         TransferDestroyed, waiting
  <2> QED
      BY <2>1, <2>2
<1>4. CASE crash = "no" /\ (Flag \/ Notify)
  <2>1. Kept
      BY <1>4, FlagEffect, NotifyEffect
      DEF FlagDoes, NotifyDoes, Passes, KeepsEnds
  <2>2. main' # main => main' # "returned" /\ main # "returned"
      BY <1>4 DEF Flag, Notify
  <2> QED
      BY <2>1, <2>2
<1>5. CASE Test \/ Sleep \/ Check \/ WakeSpuriously \/ UNCHANGED vars
    BY <1>5 DEF Test, Sleep, Check, WakeSpuriously, vars
<1> QED
    BY <1>1, <1>2, <1>3, <1>4, <1>5 DEF Next, Wait, Inner

(* The helper's frame is destroyed when the waiting thread returns.         *)
LEMMA MainKeeps == IInv /\ [Next]_vars => MainInv'
<1> SUFFICES ASSUME IInv, [Next]_vars PROVE MainInv'
    OBVIOUS
<1>1. MainInv /\ 0 \in Frames
    BY Chain DEF IInv
<1>2. ASSUME NEW i \in Inner, crash = "no", Take(i)
      PROVE  MainInv'
  <2>1. 0 # i + 1
      BY Chain
  <2>2. \A j \in Frames : frame'[j].alive = (j # i + 1 /\ frame[j].alive)
      BY <1>2, TakeEffect DEF TakeDoes
  <2>3. frame'[0].alive <=> frame[0].alive
      BY <1>1, <2>1, <2>2
  <2>4. main' = main
      BY <1>2 DEF Take, waiting
  <2> QED
      BY <1>1, <2>3, <2>4 DEF MainInv
<1>3. ASSUME NEW i \in Frames, crash = "no", Finalize(i)
      PROVE  MainInv'
  <2>1. FinalizeDoes(i)
      BY <1>3, FinalizeEffect
  <2>2. frame'[0].alive = frame[0].alive
      BY <1>1, <2>1 DEF FinalizeDoes
  <2>3. main' = main
      BY <1>3 DEF Finalize, waiting
  <2> QED
      BY <1>1, <2>2, <2>3 DEF MainInv
<1>4. CASE crash = "no" /\ Return
  <2>1. CASE Done(0)
    <3>1. main' = "returned"
        BY <1>4, <2>1 DEF Return
    <3>2. frame' = [frame EXCEPT ![0].alive = FALSE]
        BY <1>4, <2>1 DEF Return
    <3> QED
        BY <1>1, <3>1, <3>2 DEF MainInv, IInv, TypeOK, FrameTypes
  <2>2. CASE ~Done(0)
      BY <1>1, <1>4, <2>2 DEF Return, MainInv
  <2> QED
      BY <2>1, <2>2
<1>5. CASE /\ \A i \in Inner : ~(crash = "no" /\ Take(i))
           /\ \A i \in Frames : ~(crash = "no" /\ (Finalize(i) \/ Escape(i)))
           /\ ~(crash = "no" /\ Return)
    BY <1>1, <1>5, EndsKept DEF MainInv
<1>6. ASSUME NEW i \in Frames, crash = "no", Escape(i)
      PROVE  MainInv'
  <2>1. EscapeDoes(i) /\ i > 1
      BY <1>6, EscapeEffect DEF Escape, InCall
  <2>2. frame'[0].alive = frame[0].alive
    <3>1. CASE Fails("unchecked_destroy")
        BY <3>1 DEF Fails
    <3>2. CASE ~Fails("unchecked_destroy")
        BY <1>1, <2>1, <3>2 DEF EscapeDoes, IInv, TypeOK, FrameTypes
    <3> QED
        BY <3>1, <3>2
  <2>3. main' = main
      BY <1>6 DEF Escape, waiting
  <2> QED
      BY <1>1, <2>2, <2>3 DEF MainInv
<1> QED
    BY <1>2, <1>3, <1>4, <1>5, <1>6

-----------------------------------------------------------------------------
(* At first waitHelper runs, and no other coroutine was called.             *)
LEMMA InitIInv == Init => IInv
<1> SUFFICES ASSUME Init PROVE IInv
    OBVIOUS
<1>1. /\ 0 \in Frames
      /\ frame[0].pc = "running"
      /\ \A i \in Frames :
            /\ i # 0 => frame[i].pc = "none"
            /\ frame[i].caller = None /\ frame[i].captured = None
            /\ frame[i].exception = "none" /\ frame[i].thrown = "none"
            /\ frame[i].alive /\ frame[i].result = "pending"
      /\ error = "none" /\ crash = "no" /\ main = "testing"
    BY Chain DEF Init
<1>2. TypeOK
  <2>1. ASSUME NEW i \in Frames
        PROVE  frame[i] \in FrameTypes
    <3>1. CASE i = 0
        BY <3>1 DEF Init, FrameTypes, PCs, Errors
    <3>2. CASE i # 0
        BY <3>2 DEF Init, FrameTypes, PCs, Errors
    <3> QED
        BY <3>1, <3>2
  <2>2. frame = [i \in Frames |-> frame[i]]
      BY DEF Init
  <2>3. frame \in [Frames -> FrameTypes]
      BY <2>1, <2>2
  <2>4. suspends \in 0 .. MaxSuspends + 1
      BY SuspendsAssumption DEF Init
  <2>5. /\ main \in MainPCs /\ error \in Errors /\ crash \in Crashes
        /\ doneFlag \in BOOLEAN /\ held \in BOOLEAN
      BY DEF Init, MainPCs, Errors, Crashes
  <2> QED
      BY <1>1, <2>3, <2>4, <2>5 DEF TypeOK
<1>3. PCInv /\ CheckInv
    BY <1>1, Chain DEF PCInv, CheckInv, Pending, HasResult
<1>4. ActiveInv
    BY <1>1 DEF ActiveInv, Active, Frames
<1>5. AwaitInv
    BY <1>1, Chain DEF AwaitInv, Pending, HasTaken
<1>6. CallerInv
    BY <1>1, Chain DEF CallerInv, Pending
<1>7. ErrorInv /\ AliveInv /\ MainInv
    BY <1>1 DEF ErrorInv, Carries, AliveInv, AwaitsAfterEnd, MainInv
<1>8. ResultInv
    BY <1>1, Chain DEF ResultInv, HasResult
<1> QED
    BY <1>2, <1>3, <1>4, <1>5, <1>6, <1>7, <1>8 DEF IInv

(* Frames, exceptions and results of the chain fit together in every state. *)
THEOREM Invariance == Spec => []IInv
<1>1. Init => IInv
    BY InitIInv
<1>2. IInv /\ [Next]_vars => IInv'
  <2> SUFFICES ASSUME IInv, [Next]_vars PROVE IInv'
      OBVIOUS
  <2>1. FrameInv' /\ RestTypes' /\ MainInv'
      BY FrameKeeps, RestTyped, MainKeeps
  <2>2. frame' \in [Frames -> FrameTypes]
      BY FrameKeeps
  <2>3. TypeOK'
      BY <2>1, <2>2 DEF FrameInv, LinkInv, RestTypes, TypeOK
  <2> QED
      BY <2>1, <2>3 DEF FrameInv, IInv
<1> QED
    BY <1>1, <1>2, PTL DEF Spec

-----------------------------------------------------------------------------
(* Every variable has its type, and the caller of a coroutine is the one    *)
(* before it.                                                               *)
THEOREM TypeCorrect == Spec => []TypeOK
<1>1. IInv => TypeOK
    BY DEF IInv
<1> QED
    BY <1>1, Invariance, PTL

(* No co_await checks, joins or destroys a coroutine before its end, on     *)
(* whatever thread that end comes (Promise.h:19, 80, 86, Coroutine.h:60).   *)
THEOREM AwaitedEnded == Spec => []AwaitsAfterEnd
<1>1. IInv => AwaitsAfterEnd
    BY DEF IInv, AliveInv
<1> QED
    BY <1>1, Invariance, PTL

(* An exception that nobody has caught is in one frame, once (Promise.h:    *)
(* 13-20, 77-83, 97-98).                                                    *)
THEOREM ErrorsKept == Spec => []ErrorKept
<1>1. IInv => ErrorKept
  <2> SUFFICES ASSUME IInv PROVE ErrorKept
      OBVIOUS
  <2>1. /\ \A i \in Holders : frame[i].exception = error /\ frame[i].alive
        /\ \A i \in Throwers : frame[i].thrown = error
      BY DEF IInv, ErrorInv, AliveInv, Holders, Throwers
  <2>2. CASE error = "none"
    <3>1. Holders = {} /\ Throwers = {}
        BY <2>2 DEF IInv, ErrorInv, Holders, Throwers
    <3>2. Cardinality(Holders) = 0 /\ Cardinality(Throwers) = 0
        BY <3>1, FS_EmptySet
    <3> QED
        BY <2>1, <2>2, <3>2 DEF ErrorKept
  <2>3. CASE error # "none"
    <3>1. PICK i \in Frames : Carries(i)
        BY <2>3 DEF IInv, ErrorInv
    <3>2. \A j \in Frames : Carries(j) => j = i
        BY <3>1 DEF IInv, ErrorInv
    <3>3. Holders \subseteq {i} /\ Throwers \subseteq {i}
        BY <3>2 DEF Holders, Throwers, Carries
    <3>4. \/ Holders = {i} /\ Throwers = {}
          \/ Holders = {} /\ Throwers = {i}
      <4>1. CASE frame[i].exception # "none"
        <5>1. i \in Holders /\ i \notin Throwers
            BY <4>1 DEF IInv, ErrorInv, Holders, Throwers
        <5> QED
            BY <3>3, <5>1
      <4>2. CASE frame[i].exception = "none"
        <5>1. i \notin Holders /\ i \in Throwers
            BY <3>1, <4>2 DEF Carries, Holders, Throwers
        <5> QED
            BY <3>3, <5>1
      <4> QED
          BY <4>1, <4>2
    <3>5. Cardinality({i}) = 1 /\ Cardinality({}) = 0
        BY FS_Singleton, FS_EmptySet
    <3>6. Cardinality(Holders) + Cardinality(Throwers) = 1
        BY <3>4, <3>5
    <3> QED
        BY <2>1, <2>3, <3>6 DEF ErrorKept
  <2> QED
      BY <2>2, <2>3
<1> QED
    BY <1>1, Invariance, PTL

-----------------------------------------------------------------------------
outcome == [i \in Frames |-> frame[i].result]
takenFrom == {i \in Frames : ~frame[i].alive}

(* A step ends one coroutine with an outcome it may have, or takes one      *)
(* outcome, or does both at once, or is none of AwaitChain.                 *)
LEMMA StepMaps ==
    ASSUME IInv, [Next]_vars
    PROVE  Promised!Next \/ UNCHANGED <<outcome, takenFrom>>
<1> DEFINE Mapped == Promised!Next \/ UNCHANGED <<outcome, takenFrom>>
<1>1. Frames = Promised!Frames
    BY DEF Frames, Promised!Frames
<1>2. ASSUME NEW i \in Inner, crash = "no", Take(i)
      PROVE  Mapped
  <2>1. i + 1 \in Frames /\ i + 1 # 0 /\ i \in Frames
      BY Chain
  <2>2. /\ frame[i].pc = "result" /\ Done(i + 1)
        /\ \A j \in Frames : /\ frame'[j].alive <=> j # i + 1 /\ frame[j].alive
                             /\ frame'[j].result = frame[j].result
      BY <1>2, TakeEffect DEF TakeDoes
  <2>3. frame[i + 1].alive
      BY <2>2 DEF IInv, AwaitInv, HasTaken
  <2>4. frame[i + 1].result # "pending"
      BY <2>1, <2>2 DEF IInv, ResultInv, HasResult, Done
  <2>5. takenFrom' = takenFrom \cup {i + 1}
      BY <2>1, <2>2 DEF takenFrom
  <2>6. outcome' = outcome
      BY <2>2 DEF outcome
  <2>7. Promised!Take(i + 1)
      BY <2>1, <2>3, <2>4, <2>5, <2>6 DEF Promised!Take, outcome, takenFrom
  <2> QED
      BY <1>1, <2>1, <2>7 DEF Promised!Next
<1>3. ASSUME NEW i \in Frames, crash = "no", Finalize(i)
      PROVE  Mapped
  <2>1. /\ frame[i].pc = "leaving" /\ frame[i].thrown = "none"
        /\ \A j \in Frames :
              /\ frame'[j].alive = frame[j].alive
              /\ frame'[j].result = IF j = i THEN Carried(i)
                                    ELSE frame[j].result
      BY <1>3, FinalizeEffect DEF FinalizeDoes, Carried
  <2>2. Carried(i) \in Promised!Outcomes
    <3>1. frame[i].exception \in Errors
        BY DEF IInv, TypeOK, FrameTypes
    <3> QED
        BY <2>1, <3>1 DEF Carried, Errors, Promised!Outcomes
  <2>3. outcome[i] = "pending"
      BY <2>1 DEF outcome, IInv, ResultInv, HasResult
  <2>4. ASSUME i < Depth
        PROVE  /\ i + 1 \in takenFrom
               /\ Carried(i) \in Promised!Passed(i, outcome[i + 1])
    <3>1. i \in Inner /\ i + 1 \in Frames
        BY <2>4, Chain
    <3>2. ~frame[i + 1].alive
        BY <2>1, <3>1 DEF IInv, AwaitInv, HasTaken
    <3>3. outcome[i + 1] = frame[i + 1].result
        BY <3>1 DEF outcome
    <3>4. Carried(i) \in Promised!Passed(i, frame[i + 1].result)
        BY <2>1, <3>1 DEF IInv, ResultInv
    <3> QED
        BY <3>1, <3>2, <3>3, <3>4 DEF takenFrom
  <2>5. outcome' = [outcome EXCEPT ![i] = Carried(i)]
      BY <2>1 DEF outcome
  <2>6. takenFrom' = takenFrom
      BY <2>1 DEF takenFrom
  <2>7. \E o \in Promised!Outcomes : Promised!End(i, o)
      BY <2>2, <2>3, <2>4, <2>5, <2>6
      DEF Promised!End, Promised!MayEndWith, outcome, takenFrom
  <2> QED
      BY <1>1, <2>7 DEF Promised!Next
<1>4. CASE crash = "no" /\ Return
  <2>1. CASE Fails("destroyed_early")
      BY <2>1 DEF Fails, outcome, takenFrom
  <2>2. CASE ~Fails("destroyed_early")
    <3>1. /\ Done(0)
          /\ \A j \in Frames : /\ frame'[j].alive <=> j # 0 /\ frame[j].alive
                               /\ frame'[j].result = frame[j].result
        BY <1>4, <2>2, ReturnEffect DEF ReturnDoes
    <3>2. frame[0].alive /\ 0 \in Frames
        BY <1>4, Chain DEF Return, IInv, MainInv
    <3>3. frame[0].result = "value"
      <4>1. frame[0].caller = None
        <5>1. 0 - 1 \notin Frames
            BY DEF Frames
        <5> QED
            BY <3>2, <5>1 DEF IInv, TypeOK, FrameTypes
      <4>2. frame[0].exception = "none" /\ frame[0].thrown = "none"
          BY <3>1, <3>2, <4>1 DEF IInv, ErrorInv, Done
      <4> QED
          BY <3>1, <3>2, <4>2 DEF IInv, ResultInv, Carried, HasResult, Done
    <3>4. takenFrom' = takenFrom \cup {0} /\ outcome' = outcome
        BY <3>1, <3>2 DEF takenFrom, outcome
    <3>5. Promised!Take(0)
        BY <3>2, <3>3, <3>4 DEF Promised!Take, outcome, takenFrom
    <3> QED
        BY <1>1, <3>2, <3>5 DEF Promised!Next
  <2> QED
      BY <2>1, <2>2
<1>5. CASE /\ \A i \in Inner : ~(crash = "no" /\ Take(i))
           /\ \A i \in Frames : ~(crash = "no" /\ (Finalize(i) \/ Escape(i)))
           /\ ~(crash = "no" /\ Return)
    BY <1>5, EndsKept DEF outcome, takenFrom
<1>6. ASSUME NEW i \in Frames, crash = "no", Escape(i)
      PROVE  Mapped
  <2>1. CASE Fails("unchecked_destroy")
      BY <2>1 DEF Fails, outcome, takenFrom
  <2>2. CASE ~Fails("unchecked_destroy")
    <3> DEFINE o == frame[i].thrown
    <3>1. /\ frame[i].pc = "leaving" /\ o # "none" /\ i > 1
          /\ \A j \in Frames :
                /\ frame'[j].alive <=> j # i /\ frame[j].alive
                /\ frame'[j].result = IF j = i THEN o ELSE frame[j].result
        BY <1>6, <2>2, EscapeEffect DEF EscapeDoes
    <3>2. o \in Promised!Outcomes /\ o # "value" /\ o = Carried(i)
      <4>1. frame[i].thrown \in Errors /\ frame[i].exception = "none"
          BY <3>1 DEF IInv, TypeOK, FrameTypes, ErrorInv
      <4> QED
          BY <3>1, <4>1 DEF Errors, Promised!Outcomes, Carried
    <3> HIDE DEF o
    <3>3. outcome[i] = "pending"
        BY <3>1 DEF outcome, IInv, ResultInv, HasResult
    <3>4. ASSUME i < Depth
          PROVE  /\ i + 1 \in takenFrom
                 /\ o \in Promised!Passed(i, outcome[i + 1])
      <4>1. i \in Inner /\ i + 1 \in Frames
          BY <3>4, Chain
      <4>2. ~frame[i + 1].alive
          BY <3>1, <4>1 DEF IInv, AwaitInv, HasTaken
      <4>3. outcome[i + 1] = frame[i + 1].result
          BY <4>1 DEF outcome
      <4>4. o \in Promised!Passed(i, frame[i + 1].result)
          BY <3>1, <3>2, <4>1 DEF IInv, ResultInv
      <4> QED
          BY <4>1, <4>2, <4>3, <4>4 DEF takenFrom
    <3>5. outcome' = [outcome EXCEPT ![i] = o]
        BY <3>1 DEF outcome
    <3>6. takenFrom' = takenFrom \cup {i}
        BY <3>1 DEF takenFrom
    <3>7. \E o0 \in Promised!Outcomes : Promised!Fail(i, o0)
        BY <3>1, <3>2, <3>3, <3>4, <3>5, <3>6
        DEF Promised!Fail, Promised!MayEndWith, outcome, takenFrom
    <3> QED
        BY <1>1, <3>7 DEF Promised!Next
  <2> QED
      BY <2>1, <2>2
<1> QED
    BY <1>2, <1>3, <1>4, <1>5, <1>6

(* Co_await implements AwaitChain: outcomes go up the chain one by one,     *)
(* each after the end it belongs to, unchanged unless caught, for any       *)
(* number of coroutines and of suspensions.                                 *)
THEOREM Refinement == Spec => ImplementsAwaitChain
<1>1. Init => Promised!Init
    BY DEF Init, Promised!Init, Frames, Promised!Frames
<1>2. IInv /\ [Next]_vars =>
        [Promised!Next]_<<[i \in Frames |-> frame[i].result],
                          {i \in Frames : ~frame[i].alive}>>
    BY StepMaps DEF outcome, takenFrom
<1> QED
    BY <1>1, <1>2, Invariance, PTL
    DEF Spec, ImplementsAwaitChain, Promised!Spec, Promised!vars

(* From end to end: a coroutine that has ended has taken the outcome of     *)
(* every one below it, however deep, and has ended with the very same, or   *)
(* with a value where a ClosedTransportException was caught in between.     *)
OutcomesTravel ==
    \A i, j \in Frames :
        i < j /\ frame[i].result # "pending" =>
           /\ ~frame[j].alive
           /\ \/ frame[i].result = frame[j].result
              \/ /\ frame[i].result = "value" /\ frame[j].result = "closed"
                 /\ \E c \in i .. j - 1 : c \in Catchers

TravelInv ==
    /\ \A i \in takenFrom : outcome[i] # "pending"
    /\ \A i, j \in Frames :
          i < j /\ outcome[i] # "pending" =>
             /\ j \in takenFrom
             /\ \/ outcome[i] = outcome[j]
                \/ /\ outcome[i] = "value" /\ outcome[j] = "closed"
                   /\ \E c \in i .. j - 1 : c \in Catchers

(* The steps of AwaitChain keep it: a coroutine ends after the next one,    *)
(* with what that one passed on.                                            *)
LEMMA EndTravels ==
    ASSUME TravelInv, NEW k \in Frames, NEW o, o # "pending",
           Promised!End(k, o) \/ Promised!Fail(k, o)
    PROVE  TravelInv'
<1>1. /\ outcome[k] = "pending"
      /\ k < Depth => /\ k + 1 \in takenFrom
                      /\ \/ o = outcome[k + 1]
                         \/ /\ k \in Catchers /\ outcome[k + 1] = "closed"
                            /\ o = "value"
      /\ outcome' = [outcome EXCEPT ![k] = o]
      /\ takenFrom \subseteq takenFrom' /\ takenFrom' \subseteq takenFrom \cup {k}
    BY DEF Promised!End, Promised!Fail, Promised!MayEndWith, Promised!Passed,
       outcome, takenFrom
<1>2. \A i \in Frames : i \in Nat /\ i <= Depth
    BY DepthAssumption DEF Frames
<1>3. DOMAIN outcome = Frames
    BY DEF outcome
<1>4. \A i \in Frames : outcome'[i] = IF i = k THEN o ELSE outcome[i]
    BY <1>1, <1>3
<1>5. (\A i \in takenFrom : outcome[i] # "pending")'
    BY <1>1, <1>4 DEF TravelInv, takenFrom
<1>6. ASSUME NEW i \in Frames, NEW j \in Frames, i < j,
             outcome'[i] # "pending"
      PROVE  /\ j \in takenFrom'
             /\ \/ outcome'[i] = outcome'[j]
                \/ /\ outcome'[i] = "value" /\ outcome'[j] = "closed"
                   /\ \E c \in i .. j - 1 : c \in Catchers
  <2>1. CASE i # k
    <3>1. outcome[i] # "pending"
        BY <1>4, <1>6, <2>1
    <3>2. j \in takenFrom
        BY <1>6, <3>1 DEF TravelInv
    <3>3. j # k
        BY <1>1, <3>2 DEF TravelInv
    <3> QED
        BY <1>1, <1>4, <1>6, <2>1, <3>1, <3>3 DEF TravelInv
  <2>2. CASE i = k
    <3>1. /\ k < Depth /\ k + 1 \in Frames /\ j # k
          /\ j = k + 1 \/ k + 1 < j
        BY <1>2, <1>6, <2>2, DepthAssumption DEF Frames
    <3>2. outcome[k + 1] # "pending"
        BY <1>1, <3>1 DEF TravelInv
    <3>3. \/ j = k + 1
          \/ /\ j \in takenFrom
             /\ \/ outcome[k + 1] = outcome[j]
                \/ /\ outcome[k + 1] = "value" /\ outcome[j] = "closed"
                   /\ \E c \in k + 1 .. j - 1 : c \in Catchers
        BY <1>6, <3>1, <3>2 DEF TravelInv
    <3>4. outcome'[i] = o /\ outcome'[j] = outcome[j]
        BY <1>4, <1>6, <2>2, <3>1
    <3>5. k \in k .. j - 1 /\ k + 1 .. j - 1 \subseteq k .. j - 1
        BY <1>2, <1>6, <2>2
    <3>6. j \in takenFrom'
        BY <1>1, <3>1, <3>3
    <3> QED
        BY <1>1, <2>2, <3>1, <3>3, <3>4, <3>5, <3>6
  <2> QED
      BY <2>1, <2>2
<1> QED
    BY <1>5, <1>6 DEF TravelInv

LEMMA TravelKept ==
    ASSUME TravelInv, Promised!Next \/ UNCHANGED <<outcome, takenFrom>>
    PROVE  TravelInv'
<1>1. ASSUME NEW k \in Frames, Promised!Take(k)
      PROVE  TravelInv'
  <2>1. /\ outcome[k] # "pending" /\ outcome' = outcome
        /\ takenFrom' = takenFrom \cup {k}
      BY <1>1 DEF Promised!Take, outcome, takenFrom
  <2> QED
      BY <2>1 DEF TravelInv
<1>2. ASSUME NEW k \in Frames, NEW o \in Promised!Outcomes,
             Promised!End(k, o) \/ Promised!Fail(k, o)
      PROVE  TravelInv'
    BY <1>2, EndTravels DEF Promised!Outcomes
<1>3. CASE UNCHANGED <<outcome, takenFrom>>
    BY <1>3 DEF TravelInv
<1>4. Frames = Promised!Frames
    BY DEF Frames, Promised!Frames
<1> QED
    BY <1>1, <1>2, <1>3, <1>4 DEF Promised!Next

(* The outcome of the last coroutine reaches waitHelper through any number  *)
(* of co_awaits: no value hides an exception that nobody caught, and no     *)
(* exception takes the place of a value (Promise.h:77-83,                   *)
(* AwaitResumeResult.h:31-36, ChainedAwaitObject.h:43-53).                  *)
THEOREM OutcomesTravelUp == Spec => []OutcomesTravel
<1>1. Init => TravelInv
  <2> SUFFICES ASSUME Init PROVE TravelInv
      OBVIOUS
  <2>1. \A i \in Frames : frame[i].result = "pending" /\ frame[i].alive
      BY DEF Init
  <2> QED
      BY <2>1 DEF TravelInv, outcome, takenFrom
<1>2. IInv /\ TravelInv /\ [Next]_vars => TravelInv'
    BY StepMaps, TravelKept
<1>3. TravelInv => OutcomesTravel
    BY DEF TravelInv, OutcomesTravel, outcome, takenFrom
<1> QED
    BY <1>1, <1>2, <1>3, Invariance, PTL DEF Spec
=============================================================================
