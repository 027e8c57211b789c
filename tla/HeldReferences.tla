--------------------------- MODULE HeldReferences ---------------------------
(***************************************************************************)
(* PyTemporaryReferenceTracer.cpp, with the parts of PyInstance and ListOf *)
(* it serves.  In the interpreter an item of a ListOf(H), H a Held class,  *)
(* comes as an object that refers into the list; a trace function makes it *)
(* a copy when its statement has ended.  Threads run functions of which    *)
(* every line's statements are known, in steps that hold the GIL; nobody   *)
(* changes the list's length while a statement still works with an item,   *)
(* or a trace function while there are references.                         *)
(***************************************************************************)
EXTENDS Integers, Sequences, HeldClass

CONSTANTS
  HeldThread,
  Parties,    \* the sets of threads that a program may have
  Frame,      \* addresses of frames; bounds how many there are at once
  Obj,        \* addresses of Python objects; bounds them likewise
  HeldDepth   \* bound on calls within calls, of a thread alone

NoObj == "NoObj"
ASSUME HeldAssumption ==
  /\ \A users \in Parties : users \subseteq HeldThread
  /\ \E frames \in [HeldThread -> Frame] : \A t, u \in HeldThread : frames[t] = frames[u] => t = u
  /\ NoObj \notin Obj /\ HeldDepth \in Nat

VARIABLES
  stack,          \* per thread, the frames it is in
  frameToActions, \* per frame, the objects to resolve and their lines (the order
                  \* in which this is done does not matter)
  tracefunc,      \* per thread, its trace function: "none", its own ("user") or "ours"
  prior,          \* priorTraceFunc
  objs,           \* per address: dead, or a reference (ref) or an instance (own)
  list,           \* one ListOf(H), with memory for one item
  running,        \* history: the references whose statement has not ended
  mine, users     \* each thread's function at first, and the threads of the program

heldVars == <<stack, frameToActions, tracefunc, prior, objs, list, running, mine, users>>

NoInstance == [flag |-> FALSE, built |-> FALSE, spoilt |-> FALSE]
Dead == [ref |-> FALSE, own |-> NoInstance, maker |-> NoObj, line |-> 0, was |-> "not popped"]

\* A function has statements on lines 1 and 3; line 2 continues the first.
Statements == {1, 3}
isLineNewStatement(line) == line \in Statements

NewFrame(f, name) ==
  [id |-> f, line |-> 1, stmt |-> 1, temp |-> NoObj, name |-> name, raised |-> FALSE]
Depth(t) == Len(stack[t])
Top(t) == stack[t][Depth(t)]
FramesInUse == {f \in Frame : \E t \in HeldThread : \E i \in DOMAIN stack[t] : stack[t][i].id = f}

\* The objects that a stack or an action still holds.
HeldBy(st, acts) ==
  {o \in Obj : \/ \E t \in HeldThread : \E i \in DOMAIN st[t] : o \in {st[t][i].temp, st[t][i].name}
               \/ \E f \in Frame : \E a \in acts[f] : a.obj = o}

\* The objects become os; those that nothing holds any more are freed, and of
\* those in run the statement still runs.
Live(os, run) ==
  LET held == HeldBy(stack', frameToActions')
  IN  /\ running' = run \cap held
      /\ objs' = [o \in Obj |-> IF o \notin held THEN Dead
                               ELSE IF o \in run THEN os[o] ELSE [os[o] EXCEPT !.maker = NoObj, !.line = 0]]

InitHeld ==
  /\ users \in Parties
  /\ mine = [t \in HeldThread |-> IF users = {t} THEN "user" ELSE "none"]
  /\ LET frames == CHOOSE fs \in [HeldThread -> Frame] : \A t, u \in HeldThread : fs[t] = fs[u] => t = u
     IN  stack = [t \in HeldThread |-> IF t \in users THEN <<NewFrame(frames[t], NoObj)>> ELSE <<>>]
  /\ frameToActions = [f \in Frame |-> {}]
  /\ tracefunc = mine /\ prior = "none"
  /\ objs = [o \in Obj |-> Dead]
  /\ list = [count |-> 1, item |-> NoInstance]
  /\ running = {}

-----------------------------------------------------------------------------
(* The trace function.                                                     *)

\* resolveTemporaryReference: the copy is made in memory from the allocator.
Resolve(o, raw) ==
  IF objs[o].ref THEN [objs[o] EXCEPT !.ref = FALSE, !.own = HeldCopied(raw, list.item)] ELSE objs[o]

\* What of frame f is due when it gets to a line.
MutantDue(f, line, force) ==  \* mutant: also what the line itself has made
  frameToActions[f]
Due(f, line, force) == {a \in frameToActions[f] : a.line # line \/ force}

\* globalTraceFun, if it is this thread's, for an event in frame f, by which its
\* statement ends or goes on; then the thread's stack is st.
Event(t, f, line, force, ends, st) ==
  LET due == IF tracefunc[t] = "ours" /\ (isLineNewStatement(line) \/ force) THEN Due(f, line, force) ELSE {}
  IN  /\ stack' = [stack EXCEPT ![t] = st]
      /\ frameToActions' = [frameToActions EXCEPT ![f] = @ \ due]
      /\ \E raw \in RawMemory :
           Live([o \in Obj |-> IF \E a \in due : a.obj = o THEN Resolve(o, raw) ELSE objs[o]],
                {o \in running : ~ends \/ objs[o].maker # f})
      /\ IF tracefunc[t] = "ours" /\ \A g \in Frame : frameToActions'[g] = {}
         THEN tracefunc' = [tracefunc EXCEPT ![t] = prior] /\ prior' = "none"
         ELSE UNCHANGED <<tracefunc, prior>>
      /\ UNCHANGED <<list, mine, users>>

\* traceObject, and installGlobalTraceHandlerIfNecessary.
TraceObject(t, o) ==
  /\ frameToActions' = [frameToActions EXCEPT ![Top(t).id] = @ \cup {[obj |-> o, line |-> Top(t).line]}]
  /\ IF tracefunc[t] = "ours" THEN UNCHANGED <<tracefunc, prior>>
     ELSE tracefunc' = [tracefunc EXCEPT ![t] = "ours"] /\ prior' = tracefunc[t]

-----------------------------------------------------------------------------
(* What a program does.                                                    *)

WithTop(t, frame) == [stack[t] EXCEPT ![Depth(t)] = frame]
FreeObj == Obj \ HeldBy(stack, frameToActions)
Computing(t) == ~Top(t).raised

\* Calls, second lines and exceptions are for a thread without others.
Alone(t) == users = {t}

\* l[0], for which the list makes a reference, and l.pop(), which makes one in
\* the same way before it destroys the item.
Extract(t, was) ==
  LET o == CHOOSE p \in FreeObj : TRUE
  IN  /\ Computing(t) /\ Top(t).temp = NoObj /\ FreeObj # {} /\ list.count = 1
      /\ stack' = [stack EXCEPT ![t] = WithTop(t, [Top(t) EXCEPT !.temp = o])]
      /\ TraceObject(t, o)
      /\ Live([objs EXCEPT ![o] = [Dead EXCEPT !.ref = TRUE, !.maker = Top(t).id, !.line = Top(t).line, !.was = was]],
              running \cup {o})
      /\ UNCHANGED <<mine, users>>
GetItem(t) == Extract(t, "not popped") /\ UNCHANGED list
Pop(t) ==
  /\ running = {}
  /\ Extract(t, IF list.item.flag THEN "set" ELSE "unset")
  /\ list' = [count |-> 0, item |-> HeldDestroyed(list.item)]

\* H()
Construct(t) ==
  LET o == CHOOSE p \in FreeObj : TRUE
  IN  /\ Computing(t) /\ Top(t).temp = NoObj /\ FreeObj # {}
      /\ stack' = [stack EXCEPT ![t] = WithTop(t, [Top(t) EXCEPT !.temp = o])]
      /\ UNCHANGED <<frameToActions, tracefunc, prior, list, mine, users>>
      /\ \E raw \in RawMemory : Live([objs EXCEPT ![o] = [Dead EXCEPT !.own = HeldMade(raw)]], running)

\* x = ...
Bind(t) ==
  /\ Top(t).temp # NoObj
  /\ stack' = [stack EXCEPT ![t] = WithTop(t, [Top(t) EXCEPT !.name = Top(t).temp, !.temp = NoObj])]
  /\ UNCHANGED <<frameToActions, tracefunc, prior, list, mine, users>>
  /\ Live(objs, running)

\* What an object refers to, or is.
Data(o) == IF objs[o].ref THEN list.item ELSE objs[o].own

\* x.m = ... and del x.m, which raises if there is none.
ChangeMember(t, o, instance) ==
  /\ Computing(t)
  /\ IF objs[o].ref THEN list' = [list EXCEPT !.item = instance] /\ UNCHANGED objs
     ELSE objs' = [objs EXCEPT ![o].own = instance, ![o].was = "not popped"] /\ UNCHANGED list
  /\ UNCHANGED <<stack, frameToActions, tracefunc, prior, running, mine, users>>
SetMember(t) == \E o \in {Top(t).temp, Top(t).name} \ {NoObj} : ChangeMember(t, o, HeldSet(Data(o)))
DelMember(t) == \E o \in {Top(t).temp, Top(t).name} \ {NoObj} : ChangeMember(t, o, HeldDeleted(Data(o)))

\* l[0] = x and l.append(x).
ChangeList(t, l) ==
  /\ Computing(t) /\ list' = l
  /\ UNCHANGED <<stack, frameToActions, tracefunc, prior, objs, running, mine, users>>
AssignItem(t) ==
  /\ list.count = 1 /\ Top(t).name # NoObj
  /\ ChangeList(t, [list EXCEPT !.item = HeldAssigned(@, Data(Top(t).name))])
AppendItem(t) ==
  /\ list.count = 0 /\ running = {} /\ Top(t).name # NoObj
  /\ \E copied \in {HeldCopied(list.item, Data(Top(t).name)), HeldCopiedCompiled(list.item, Data(Top(t).name))} :
       ChangeList(t, [count |-> 1, item |-> copied])

\* The next statement begins, or the handler of an exception.
NextStatement(t) ==
  \E line \in Statements \ {Top(t).stmt} :
    /\ Top(t).line = Top(t).stmt \/ Top(t).raised
    /\ Event(t, Top(t).id, line, FALSE, TRUE,
             WithTop(t, [Top(t) EXCEPT !.line = line, !.stmt = line, !.temp = NoObj, !.raised = FALSE]))

\* The statement goes on in its second line, and comes back for the call that
\* began in the first.
Continue(t) ==
  /\ Alone(t) /\ Computing(t) /\ Top(t).stmt = 1
  /\ Event(t, Top(t).id, 3 - Top(t).line, FALSE, FALSE, WithTop(t, [Top(t) EXCEPT !.line = 3 - @]))

\* A function is called with an object; what it has is on the caller's stack
\* until it returns, itself or another.
Call(t) ==
  \E o \in {Top(t).temp, Top(t).name} :
    LET f == CHOOSE g \in Frame \ FramesInUse : TRUE
    IN  /\ Computing(t) /\ Top(t).line = Top(t).stmt
        /\ Alone(t) /\ Depth(t) < HeldDepth /\ Frame # FramesInUse
        /\ stack' = [stack EXCEPT ![t] = Append(@, NewFrame(f, o))]
        /\ UNCHANGED <<frameToActions, tracefunc, prior, objs, list, running, mine, users>>
Return(t) ==
  \E o \in {NoObj, Top(t).temp, Top(t).name} :
    /\ Computing(t) /\ Depth(t) > 1
    /\ Event(t, Top(t).id, Top(t).line, TRUE, TRUE,
             [SubSeq(stack[t], 1, Depth(t) - 1) EXCEPT ![Depth(t) - 1].temp = o])

\* An exception is raised, and leaves a function that does not handle it, for
\* which there is nothing left to do, for the one that called it.
Raise(t) ==
  /\ Alone(t) /\ Computing(t)
  /\ Event(t, Top(t).id, Top(t).line, TRUE, TRUE, WithTop(t, [Top(t) EXCEPT !.raised = TRUE, !.temp = NoObj]))
Unwind(t) ==
  LET caller == stack[t][Depth(t) - 1]
  IN  /\ Top(t).raised /\ Depth(t) > 1
      /\ Event(t, caller.id, caller.line, TRUE, TRUE,
               [SubSeq(stack[t], 1, Depth(t) - 1) EXCEPT ![Depth(t) - 1] = [@ EXCEPT !.raised = TRUE, !.temp = NoObj]])

NextHeld ==
  \E t \in users :
    \/ GetItem(t) \/ Pop(t) \/ Construct(t) \/ Bind(t)
    \/ SetMember(t) \/ DelMember(t) \/ AssignItem(t) \/ AppendItem(t)
    \/ NextStatement(t) \/ Continue(t) \/ Call(t) \/ Return(t) \/ Raise(t) \/ Unwind(t)

\* Every behaviour of the containers together, seen in these variables.
HeldSpec == InitHeld /\ [][NextHeld]_heldVars

-----------------------------------------------------------------------------
(* Properties.                                                             *)

\* An object that came from a list refers into it as long as the statement runs
\* that asked for it, through the functions it calls and their statements, and
\* no longer, however the statement ends; and where one thread alone does this
\* the thread has its own trace function back after the last.  (A reference made
\* in the second line of a statement ends when the first is resumed.)
ReferencesEnd ==
  /\ \A o \in Obj : objs[o].ref => o \in running
  /\ \A o \in running : objs[o].line \in Statements => objs[o].ref
  /\ (\E t \in HeldThread : users = {t}) /\ (\A f \in Frame : frameToActions[f] = {}) => tracefunc = mine

\* A member is constructed exactly if its flag says so, in the list and in what
\* the program holds, as long as nobody assigns a member to an instance without
\* one, copies an instance without one where one was, or reads what was popped.
Owned(i) == i.spoilt \/ i.flag = i.built
MembersAreOwned ==
  /\ list.count = 1 => Owned(list.item)
  /\ \A o \in Obj : ~objs[o].ref => Owned(objs[o].own)

\* pop gives the item that it removes.
PopGivesItem ==
  \A o \in Obj : objs[o].was # "not popped" => Data(o).built = (objs[o].was = "set")
=============================================================================
