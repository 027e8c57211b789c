-------------------------------- MODULE Pmap --------------------------------
(***************************************************************************)
(* lib/pmap.py: pmap cuts a list into jobs, puts them on one work queue    *)
(* that all executor threads read, and waits for the job's output queue to *)
(* say that each is done.  The function that is mapped may call pmap: an   *)
(* executor then runs jobs off the work queue itself, whosever they are,   *)
(* until the queue is empty, and only then waits.  Results are written     *)
(* through a raw pointer into memory that the calling pmap owns.           *)
(*                                                                         *)
(* The queues are what TypedQueue implements, FifoQueue: a put or a get is *)
(* one step, and getMany(n, n) returns once n values have come.            *)
(***************************************************************************)
EXTENDS Integers, Sequences, FiniteSets

CONSTANTS
  Executor,  \* the threads that run workExecutor
  Caller,    \* other threads, each of which calls pmap once
  Pmap,      \* the calls of pmap there are, numbered from 1
  Programs   \* [work, grain, start]: items of each, jobGranularity, a caller's call

Thread == Executor \cup Caller

\* What the mapped function does with an item: returns, raises, or calls pmap,
\* and does what that does.  A call is numbered below the one it is made in.
Ok == 0
Raise == -1
Item == Pmap \cup {Ok, Raise}

ASSUME PmapAssumption == Pmap \subseteq Nat \ {0} /\ Executor \cap Caller = {}
ASSUME ProgramsAssumption ==
  \A prog \in Programs :
    /\ prog.work \in [Pmap -> Seq(Item)] /\ prog.grain \in [Pmap -> Nat \ {0}] /\ prog.start \in [Caller -> Pmap]
    /\ \A p \in Pmap : \A k \in DOMAIN prog.work[p] : prog.work[p][k] \in Pmap => prog.work[p][k] < p
    /\ \A p, q \in Pmap : \A k \in DOMAIN prog.work[p] : \A l \in DOMAIN prog.work[q] :  \* each call is made once
         prog.work[p][k] \in Pmap /\ prog.work[p][k] = prog.work[q][l] => p = q /\ k = l
    /\ \A c, d \in Caller : c # d => prog.start[c] # prog.start[d]
    /\ \A c \in Caller : \A p \in Pmap : \A k \in DOMAIN prog.work[p] : prog.work[p][k] # prog.start[c]

VARIABLES
  program,     \* which of Programs this is
  work_queue,  \* the jobs nobody has taken: <<call, index of the job>>
  stack,       \* each thread's calls of pmap and execute, innermost last
  result,      \* what became of each call
  outputs,     \* the job indices its outputQueue has seen
  exceptions,  \* its exceptionQueue: the indices of the items that raised
  initialized  \* the items of its result that have been constructed

vars == <<program, work_queue, stack, result, outputs, exceptions, initialized>>

Work(p) == program.work[p]
Size(p) == Len(Work(p))
Grain(p) == program.grain[p]
Items(p) == 0 .. Size(p) - 1

JobCount(p) == (Size(p) \div Grain(p)) + (IF (Size(p) \div Grain(p)) * Grain(p) < Size(p) THEN 1 ELSE 0)
Jobs(p) == 0 .. JobCount(p) - 1
End(p, i) == IF Size(p) < (i + 1) * Grain(p) THEN Size(p) ELSE (i + 1) * Grain(p)

\* Frames: execute(i) of a job of p, which is at item "at" (all done at the
\* job's end), and pmap, which has put so many jobs.
JobFrame(p, i) == [call |-> p, job |-> i, at |-> i * Grain(p), phase |-> "execute"]
PmapFrame(p) == [call |-> p, job |-> -1, at |-> 0, phase |-> "put"]

Top(t) == stack[t][Len(stack[t])]
Below(t) == SubSeq(stack[t], 1, Len(stack[t]) - 1)
In(t, phase) == stack[t] # <<>> /\ Top(t).phase = phase
Push(t, frame) == stack' = [stack EXCEPT ![t] = Append(@, frame)]
Pop(t) == stack' = [stack EXCEPT ![t] = Below(t)]
Replace(t, frame) == stack' = [stack EXCEPT ![t] = Append(Below(t), frame)]

Frames == [call : Pmap, job : Int, at : Nat, phase : {"put", "work", "wait", "execute"}]
TypeOK ==
  /\ program \in Programs
  /\ work_queue \in Seq(Pmap \X Nat)
  /\ stack \in [Thread -> Seq(Frames)]
  /\ result \in [Pmap -> Nat \cup {-3, -2, -1}]
  /\ \A p \in Pmap : outputs[p] \subseteq Jobs(p) /\ exceptions[p] \subseteq Items(p) /\ initialized[p] \subseteq Items(p)

\* Not called, called, returned; an index is that of the item whose exception
\* was raised.
Unborn == -3
Running == -2
Returned == -1
Ended(p) == result[p] \notin {Unborn, Running}

Init ==
  /\ program \in Programs
  /\ work_queue = <<>>
  /\ stack = [t \in Thread |-> <<>>]
  /\ result = [p \in Pmap |-> Unborn]
  /\ outputs = [p \in Pmap |-> {}] /\ exceptions = [p \in Pmap |-> {}] /\ initialized = [p \in Pmap |-> {}]

-----------------------------------------------------------------------------
(* pmap.                                                                   *)

Call(c) ==
  /\ c \in Caller /\ result[program.start[c]] = Unborn
  /\ Push(c, PmapFrame(program.start[c]))
  /\ result' = [result EXCEPT ![program.start[c]] = Running]
  /\ UNCHANGED <<program, work_queue, outputs, exceptions, initialized>>

Put(t) ==
  LET p == Top(t).call
      n == Top(t).at
  IN  /\ In(t, "put") /\ n < JobCount(p)
      /\ work_queue' = Append(work_queue, <<p, n>>)
      /\ Replace(t, [Top(t) EXCEPT !.at = n + 1])
      /\ UNCHANGED <<program, result, outputs, exceptions, initialized>>

\* Only an executor has work to do before it blocks.
AllPut(t) ==
  /\ In(t, "put") /\ Top(t).at >= JobCount(Top(t).call)
  /\ Replace(t, [Top(t) EXCEPT !.phase = IF t \in Executor THEN "work" ELSE "wait"])
  /\ UNCHANGED <<program, work_queue, result, outputs, exceptions, initialized>>

TakeJob(t) ==
  /\ work_queue # <<>>
  /\ work_queue' = Tail(work_queue)
  /\ Push(t, JobFrame(Head(work_queue)[1], Head(work_queue)[2]))
  /\ UNCHANGED <<program, result, outputs, exceptions, initialized>>

Help(t) == In(t, "work") /\ TakeJob(t)

\* Mutant: an executor blocks as soon as it has put its jobs.
MutantBlock(t) ==
  /\ In(t, "work")
  /\ Replace(t, [Top(t) EXCEPT !.phase = "wait"])
  /\ UNCHANGED <<program, work_queue, result, outputs, exceptions, initialized>>
Block(t) ==
  /\ In(t, "work") /\ work_queue = <<>>
  /\ Replace(t, [Top(t) EXCEPT !.phase = "wait"])
  /\ UNCHANGED <<program, work_queue, result, outputs, exceptions, initialized>>

-----------------------------------------------------------------------------
(* workExecutor and ListJob.execute.                                       *)

Idle(t) == t \in Executor /\ stack[t] = <<>> /\ TakeJob(t)

\* The function returned for the item of the frame, or raised, which ends the
\* job: exceptionQueue.put comes before outputQueue.put.
Next1(frame) == [frame EXCEPT !.at = frame.at + 1]
Stopped(frame) == [frame EXCEPT !.at = End(frame.call, frame.job)]
Return(frame) == initialized' = [initialized EXCEPT ![frame.call] = @ \cup {frame.at}] /\ UNCHANGED exceptions
Except(frame) == exceptions' = [exceptions EXCEPT ![frame.call] = @ \cup {frame.at}] /\ UNCHANGED initialized

Executing(t) == In(t, "execute") /\ Top(t).at < End(Top(t).call, Top(t).job)
ItemOf(frame) == Work(frame.call)[frame.at + 1]

Apply(t) ==
  /\ Executing(t) /\ ItemOf(Top(t)) = Ok
  /\ Return(Top(t)) /\ Replace(t, Next1(Top(t)))
  /\ UNCHANGED <<program, work_queue, result, outputs>>

Fail(t) ==
  /\ Executing(t) /\ ItemOf(Top(t)) = Raise
  /\ Except(Top(t)) /\ Replace(t, Stopped(Top(t)))
  /\ UNCHANGED <<program, work_queue, result, outputs>>

Nest(t) ==
  /\ Executing(t) /\ ItemOf(Top(t)) \in Pmap
  /\ Push(t, PmapFrame(ItemOf(Top(t))))
  /\ result' = [result EXCEPT ![ItemOf(Top(t))] = Running]
  /\ UNCHANGED <<program, work_queue, outputs, exceptions, initialized>>

Output(t) ==
  /\ In(t, "execute") /\ ~Executing(t)
  /\ outputs' = [outputs EXCEPT ![Top(t).call] = @ \cup {Top(t).job}]
  /\ Pop(t)
  /\ UNCHANGED <<program, work_queue, result, exceptions, initialized>>

-----------------------------------------------------------------------------
(***************************************************************************)
(* getMany has returned: pmap raises the exception of the first item that  *)
(* has one, after it has destroyed the results there are, or returns.  An  *)
(* enclosing execute goes on with its next item, or catches the exception. *)
(***************************************************************************)
MutantAllOut(p) == Cardinality(outputs[p]) >= JobCount(p) - 1   \* mutant: one too few
AllOut(p) == Cardinality(outputs[p]) >= JobCount(p)

MutantEarliest(p) == CHOOSE i \in exceptions[p] : \A j \in exceptions[p] : i >= j   \* mutant: the last
Earliest(p) == CHOOSE i \in exceptions[p] : \A j \in exceptions[p] : i <= j

\* What call p leaves behind, and an enclosing job's frame with that of it.
Leave(t, p) ==
  LET caller == Below(t)[Len(stack[t]) - 1]
      under == SubSeq(stack[t], 1, Len(stack[t]) - 2)
      kept == [initialized EXCEPT ![p] = IF exceptions[p] = {} THEN @ ELSE {}]
  IN  IF Len(stack[t]) = 1
        THEN stack' = [stack EXCEPT ![t] = <<>>] /\ initialized' = kept /\ UNCHANGED exceptions
      ELSE IF exceptions[p] = {}
        THEN /\ stack' = [stack EXCEPT ![t] = Append(under, Next1(caller))]
             /\ initialized' = [kept EXCEPT ![caller.call] = @ \cup {caller.at}]
             /\ UNCHANGED exceptions
        ELSE /\ stack' = [stack EXCEPT ![t] = Append(under, Stopped(caller))]
             /\ initialized' = kept
             /\ exceptions' = [exceptions EXCEPT ![caller.call] = @ \cup {caller.at}]

Finish(t) ==
  LET p == Top(t).call IN
  /\ In(t, "wait") /\ AllOut(p)
  /\ result' = [result EXCEPT ![p] = IF exceptions[p] = {} THEN Returned ELSE Earliest(p)]
  /\ Leave(t, p)
  /\ UNCHANGED <<program, work_queue, outputs>>

-----------------------------------------------------------------------------
Step(t) ==
  \/ Call(t) \/ Put(t) \/ AllPut(t) \/ Help(t) \/ Block(t) \/ Idle(t)
  \/ Apply(t) \/ Fail(t) \/ Nest(t) \/ Output(t) \/ Finish(t)

\* The executors wait on the work queue when everything has been done.
AllDone == (\A c \in Caller : Ended(program.start[c])) /\ (\A t \in Thread : stack[t] = <<>>) /\ UNCHANGED vars

Next == (\E t \in Thread : Step(t)) \/ AllDone

Spec == Init /\ [][Next]_vars

\* A thread that can go on does: the queues wake those that wait on them.
FairSpec == Spec /\ \A t \in Thread : WF_vars(Step(t))

-----------------------------------------------------------------------------
(* "It's OK to block now because if there are no outstanding jobs, then    *)
(* all of _our_ jobs have been picked up": no executor blocks on a job     *)
(* that nobody has begun.                                                  *)
BlockedJobsAreTaken ==
  \A t \in Executor : In(t, "wait") => \A k \in DOMAIN work_queue : work_queue[k][1] # Top(t).call

(* Once pmap has returned or raised, no job of it is on the queue or being *)
(* executed: nobody writes through its pointers any more.  No job writes   *)
(* outside of the list, as TypeOK says.                                    *)
EndedIsQuiet ==
  TypeOK /\ \A p \in Pmap : Ended(p) =>
    /\ \A k \in DOMAIN work_queue : work_queue[k][1] # p
    /\ \A t \in Thread : \A k \in DOMAIN stack[t] : stack[t][k].call # p

\* The items of each call that raise, themselves or out of the pmap they call.
Failing[p \in Pmap] ==
  {i \in Items(p) : Work(p)[i + 1] = Raise \/ (Work(p)[i + 1] \in Pmap /\ Failing[Work(p)[i + 1]] # {})}

(* pmap does what a loop over the list would: it returns with every item   *)
(* constructed, or raises what the first item to raise does, nothing left. *)
LikeALoop ==
  \A p \in Pmap : Ended(p) =>
    IF Failing[p] = {} THEN result[p] = Returned /\ initialized[p] = Items(p)
    ELSE result[p] \in Failing[p] /\ (\A i \in Failing[p] : result[p] <= i) /\ initialized[p] = {}

(* Every call of pmap ends, however calls nest and whoever runs the jobs.  *)
EveryCallEnds == \A p \in Pmap : result[p] = Running ~> Ended(p)
=============================================================================
