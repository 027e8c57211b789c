------------------------------ MODULE Runtime -------------------------------
(***************************************************************************)
(* compiler/runtime.py: compiling takes runtimeLock, the same that         *)
(* TypeFunctions take.  A function that is compiled calls TypeFunctions,   *)
(* whose types may be classes, and its call sites get slots in the         *)
(* dispatch tables when it is linked (loaded_module.py).  Threads run      *)
(* programs: they ask for types, have functions compiled, and run compiled *)
(* code that calls methods, which may compile some more.                   *)
(***************************************************************************)
EXTENDS TypeFunction, ClassDispatch

\* Besides the bodies a program has: the class, if any, that a key's function
\* makes; the classes there are at the start; the code of functions, by name or
\* <<class, signature>>: the types it uses, its call sites, and whether
\* compiling it raises; and the plan of each thread.  A call through a class is
\* of an object of a class derived from it.
NoClass == "none"
Operation(p) ==
  [op : {"type"}, key : Key] \cup [op : {"compile"}, function : DOMAIN p.code]
    \cup [op : {"call"}, site : Class \X Signature, class : Class, pending : BOOLEAN]
ASSUME ProgramsAssumption ==
  \A n \in DOMAIN Programs :
    LET p == Programs[n]
    IN  /\ p.class \in [Key -> Class \cup {NoClass}]
        /\ p.classes \subseteq Class /\ \A c \in p.classes : Ancestors[c] \subseteq p.classes
        /\ Class \X Signature \subseteq DOMAIN p.code
        /\ \A f \in DOMAIN p.code :
             /\ p.code[f].uses \in Seq(Key) /\ p.code[f].raises \in BOOLEAN
             /\ p.code[f].sites \in Seq(Class \X Signature)
        /\ p.plan \in [Thread -> Seq(Operation(p))]
        /\ \A t \in Thread : \A i \in DOMAIN p.plan[t] :
             p.plan[t][i].op = "call" => p.plan[t][i].site[1] \in Ancestors[p.plan[t][i].class]

VARIABLE
  at  \* how far each thread is in its plan

Program == Programs[program]

vars == <<program, typeVars, callVars, dispatchVars, at>>

Init ==
  /\ program \in DOMAIN Programs /\ at = [t \in Thread |-> 1]
  /\ InitTypes /\ InitDispatch(Thread, Program.classes)

Free(t) == held[t] = <<>> /\ asked[t] = NoKey /\ reading[t] = Idle

-----------------------------------------------------------------------------
(* What a thread does next.                                                *)

Next1(t) == Program.plan[t][at[t]]
Starts(t, op) ==
  /\ Free(t) /\ at[t] <= Len(Program.plan[t]) /\ Next1(t).op = op
  /\ at' = [at EXCEPT ![t] = @ + 1] /\ UNCHANGED program

AskType(t) == Starts(t, "type") /\ Unheld /\ Ask(t, Next1(t).key) /\ UNCHANGED dispatchVars

CompileFrame(f, target, slot) ==
  [kind |-> "compile", function |-> f, target |-> target, slot |-> slot, results |-> <<>>, linked |-> 0]
NoTable == <<>>
Push(t, frame) ==
  /\ Unheld /\ Mine(t)
  /\ held' = [held EXCEPT ![t] = Append(@, frame)]
  /\ UNCHANGED <<types, memo, madeBy, lost, runs, raising, asked, answers, interrupts>>
  /\ UNCHANGED dispatchVars

\* compileFunctionOverload
Compile(t) == Starts(t, "compile") /\ Push(t, CompileFrame(Next1(t).function, NoTable, 0))

\* Compiled code calls a method of an object.  Without the code or the object,
\* because what was to make them failed, there is no call.
CallMethod(t) ==
  LET op == Next1(t)
  IN  /\ Starts(t, "call") /\ UNCHANGED <<typeVars, callVars>>
      /\ IF op.site \in DOMAIN slotOf /\ Exists(op.class)
           THEN Invoke(t, op.site, op.class, op.pending)
           ELSE UNCHANGED dispatchVars

\* np_compileClassDispatch, called without the GIL, takes it and then the lock.
CompileMethod(t) ==
  LET r == reading[t]
      s == slotOf[r.site]
  IN  /\ r.at = "compile" /\ held[t] = <<>>
      /\ Push(t, CompileFrame(Method(r.class, tables[TableOf(r)].slots[s]), TableOf(r), s))
      /\ UNCHANGED at /\ UNCHANGED program

-----------------------------------------------------------------------------
(* Compiling: the types, the link, the pointer.                            *)

Code(t) == Program.code[Top(t).function]
Compiling(t) == In(t, "compile") /\ raising[t] = Calm /\ Unheld
Typed(t) == Compiling(t) /\ Len(Top(t).results) = Len(Code(t).uses)

UseType(t) ==
  /\ Compiling(t) /\ CallInside(t, Code(t).uses)
  /\ UNCHANGED <<dispatchVars, at>> /\ UNCHANGED program

LinkSite(t) ==
  /\ Typed(t) /\ ~Code(t).raises /\ Top(t).linked < Len(Code(t).sites)
  /\ Allocate(t, Code(t).sites[Top(t).linked + 1])
  /\ held' = [held EXCEPT ![t] = Append(Below(t), [Top(t) EXCEPT !.linked = @ + 1])]
  /\ UNCHANGED <<typeVars, raising, asked, answers, interrupts, at>> /\ UNCHANGED program
AddSlots(t) ==
  /\ Grow(t) \/ AddSlot(t) \/ NextTable(t)
  /\ UNCHANGED <<typeVars, callVars, at>> /\ UNCHANGED program

Pop(t) ==
  /\ held' = [held EXCEPT ![t] = Below(t)]
  /\ UNCHANGED <<typeVars, asked, answers, interrupts, at>> /\ UNCHANGED program

Compiled(t) ==
  /\ Typed(t) /\ ~Code(t).raises /\ Top(t).linked = Len(Code(t).sites)
  /\ Pop(t) /\ UNCHANGED raising
  /\ IF Top(t).target = NoTable THEN UNCHANGED dispatchVars
     ELSE /\ Install(Top(t).target, Top(t).slot, Top(t).function)
          /\ reading' = [reading EXCEPT ![t] = Again(@)]

\* The compiler raises, or the exception of a type function is no Exception.
CompileFails(t) ==
  /\ In(t, "compile") /\ Unheld /\ (raising[t] = Interrupt \/ (Typed(t) /\ Code(t).raises))
  /\ Pop(t) /\ raising' = [raising EXCEPT ![t] = Calm]
  /\ reading' = [reading EXCEPT ![t] =
       IF @ = Idle THEN Idle ELSE IF @.pending THEN [Again(@) EXCEPT !.failed = TRUE] ELSE Idle]
  /\ UNCHANGED <<tables, slotOf, gil, called, thrown>>

\* A type function that makes a class gives it its tables.
MakesClass(t) == Ran(t) /\ Program.class[Top(t).key] # NoClass /\ types' # types
TypeStep(t) ==
  /\ Unheld /\ UNCHANGED at /\ UNCHANGED program
  /\ \/ (Locked(t) \/ Call(t) \/ Interrupted(t) \/ Unwind(t)) /\ UNCHANGED dispatchVars
     \/ /\ Return(t) \/ Fail(t)
        /\ IF MakesClass(t) THEN MakeClass(Program.class[Top(t).key]) ELSE UNCHANGED dispatchVars

RunCode(t) ==
  /\ LoadTable(t) \/ LoadSlot(t)
  /\ UNCHANGED <<typeVars, callVars, at>> /\ UNCHANGED program

Step(t) ==
  \/ AskType(t) \/ Compile(t) \/ CallMethod(t) \/ CompileMethod(t)
  \/ UseType(t) \/ LinkSite(t) \/ AddSlots(t) \/ Compiled(t) \/ CompileFails(t)
  \/ TypeStep(t) \/ RunCode(t)
Finished == \A t \in Thread : Free(t) /\ at[t] > Len(Program.plan[t])
Done == Finished /\ UNCHANGED vars

Next == Done \/ \E t \in Thread : Step(t)

\* Threads run on: in native code, and in the interpreter, which hands the GIL
\* around.  No step can be taken away for ever by another thread's.
Spec == Init /\ [][Next]_vars /\ \A t \in Thread : WF_vars(Step(t))

-----------------------------------------------------------------------------
TypeOK ==
  /\ program \in DOMAIN Programs
  /\ \A k \in Key : memo[k] \in DOMAIN types \cup {Undefined, Raised}
  /\ raising \in [Thread -> {Calm, Error, Interrupt}]
  /\ asked \in [Thread -> Key \cup {NoKey}]
  /\ \A s \in DOMAIN slotOf : slotOf[s] \in DOMAIN tables[<<s[1], s[1]>>].slots

\* runtimeLock is one thread's, however often the operations on its stack take
\* it, and however they end.
LockProtects ==
  /\ TypeOK
  /\ \A u, t \in Thread : held[t] # <<>> /\ held[u] # <<>> => t = u

\* Whatever threads and type functions wait for or call each other, through
\* the memo and through the lock, each comes to the end of what it does.
EveryoneReturns == <>[]Finished
=============================================================================
