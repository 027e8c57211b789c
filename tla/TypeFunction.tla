---------------------------- MODULE TypeFunction ----------------------------
(***************************************************************************)
(* type_function.py: a TypeFunction is memoized by its arguments.  The     *)
(* first call for a key puts a Forward into the memo, runs the function    *)
(* under runtimeLock (compiler/runtime_lock.py), and defines the forward   *)
(* with what comes back; calls for the key that are made meanwhile by the  *)
(* function itself get the forward.  A call that finds a type or an error  *)
(* in the memo does not take the lock.  A key here is a function with its  *)
(* arguments.                                                              *)
(*                                                                         *)
(* runtimeLock is reentrant and is held for exactly as long as an          *)
(* operation that took it is on the thread's stack.  The stacks are shared *)
(* with the compiler, module Runtime, which takes the same lock.           *)
(***************************************************************************)
EXTENDS ForwardTypes, Integers, Sequences

CONSTANTS
  Thread,
  Key,
  Programs,      \* a sequence; a program has the functions' bodies: [calls, makes] by key
  MaxInterrupts  \* bound on the KeyboardInterrupts during type functions

VARIABLES
  program,     \* which of Programs this is
  types,       \* the type graph
  memo,        \* _memoForKey: what is known of a key
  madeBy,      \* _type_to_typefunction
  held,        \* each thread's operations inside runtimeLock, innermost last
  raising,     \* what each thread's innermost operation has just raised, or none
  asked,       \* the key of a call that missed the memo and goes for the lock
  answers,     \* what calls have returned: <<key, answer, how>>
  lost,        \* the types that used a forward when it became another forward
  runs,        \* how often the function of a key has been run
  interrupts

body == Programs[program].body
ASSUME BodyAssumption ==
  \A p \in DOMAIN Programs :
    Programs[p].body \in [Key -> [calls : Seq(Key), makes : {"tuple", "class", "alias", "error"}]]

typeVars == <<types, memo, madeBy, lost, runs>>
callVars == <<held, raising, asked, answers, interrupts>>

\* In the memo: a type, a forward, an exception or nothing.
Raised == <<"raised">>
ForwardOf(k) == <<"forward", k>>
TypeOf(k, n) == <<"type", k, n>>
NoKey == ""

Calm == "calm"
Error == "Exception"
Interrupt == "BaseException"  \* what "except Exception" does not catch

Top(t) == held[t][Len(held[t])]
Below(t) == SubSeq(held[t], 1, Len(held[t]) - 1)
In(t, kind) == held[t] # <<>> /\ Top(t).kind = kind
\* The lock is free or t's own.
MutantMine(t) == TRUE
Mine(t) == \A u \in Thread \ {t} : held[u] = <<>>

TypeFrame(k) == [kind |-> "type", key |-> k, results |-> <<>>]

InitTypes ==
  /\ types = [t \in {} |-> Undefined] /\ madeBy = [t \in {} |-> NoKey] /\ lost = {}
  /\ memo = [k \in Key |-> Undefined] /\ runs = [k \in Key |-> 0]
  /\ held = [t \in Thread |-> <<>>] /\ raising = [t \in Thread |-> Calm]
  /\ asked = [t \in Thread |-> NoKey] /\ answers = {} /\ interrupts = 0

Extend(f, x, v) == [y \in DOMAIN f \cup {x} |-> IF y = x THEN v ELSE f[y]]
Without(f, x) == [y \in DOMAIN f \ {x} |-> f[y]]

-----------------------------------------------------------------------------
(* Calls.                                                                  *)

\* A type that is not a forward, or an error, is returned without the lock.
Hit(k) == memo[k] # Undefined /\ (memo[k] = Raised \/ ~IsForward(types, memo[k]))

Ask(t, k) ==
  /\ held[t] = <<>> /\ asked[t] = NoKey
  /\ IF Hit(k)
       THEN answers' = answers \cup {<<k, memo[k], "unlocked">>} /\ UNCHANGED asked
       ELSE asked' = [asked EXCEPT ![t] = k] /\ UNCHANGED answers
  /\ UNCHANGED <<types, memo, madeBy, lost, runs, held, raising, interrupts>>

\* Under the lock: the first to come runs the function.
Begin(t, k, stack) ==
  /\ memo' = [memo EXCEPT ![k] = ForwardOf(k)]
  /\ types' = Extend(types, ForwardOf(k), NewForward)
  /\ madeBy' = Extend(madeBy, ForwardOf(k), k)
  /\ held' = [held EXCEPT ![t] = Append(stack, TypeFrame(k))]
  /\ runs' = [runs EXCEPT ![k] = @ + 1]

\* The memo is looked at again when the lock has been got.
MutantFirst(k) == TRUE
First(k) == memo[k] = Undefined

Locked(t) ==
  /\ asked[t] # NoKey /\ held[t] = <<>> /\ Mine(t)
  /\ asked' = [asked EXCEPT ![t] = NoKey]
  /\ IF First(asked[t])
       THEN Begin(t, asked[t], <<>>) /\ UNCHANGED answers
       ELSE /\ answers' = answers \cup {<<asked[t], memo[asked[t]], "locked">>}
            /\ UNCHANGED <<types, memo, madeBy, runs, held>>
  /\ UNCHANGED <<lost, raising, interrupts>>

\* A call from inside an operation that has the lock, of a list of them.
Pending(t, calls) == held[t] # <<>> /\ raising[t] = Calm /\ Len(Top(t).results) < Len(calls)
CallInside(t, calls) ==
  LET k == calls[Len(Top(t).results) + 1]
      got == Append(Below(t), [Top(t) EXCEPT !.results = Append(@, memo[k])])
  IN  /\ Pending(t, calls) /\ Mine(t)
      /\ IF memo[k] = Undefined THEN Begin(t, k, held[t]) /\ UNCHANGED <<raising, answers>>
         ELSE /\ answers' = answers \cup {<<k, memo[k], "inside">>}
              /\ IF memo[k] = Raised /\ Top(t).kind = "type"
                   THEN raising' = [raising EXCEPT ![t] = Error] /\ UNCHANGED held
                   ELSE held' = [held EXCEPT ![t] = got] /\ UNCHANGED raising
              /\ UNCHANGED <<types, memo, madeBy, runs>>
      /\ UNCHANGED <<lost, asked, interrupts>>

-----------------------------------------------------------------------------
(* The function runs.                                                      *)

Running(t) == In(t, "type") /\ raising[t] = Calm
Ran(t) == Running(t) /\ Len(Top(t).results) = Len(body[Top(t).key].calls)

Call(t) == Running(t) /\ CallInside(t, body[Top(t).key].calls)

\* The operation below the innermost gets its answer.
Told(stack, a) == IF stack = <<>> THEN <<>> ELSE [stack EXCEPT ![Len(stack)].results = Append(@, a)]
Answer(t, k, a) ==
  /\ held' = [held EXCEPT ![t] = Told(Below(t), a)]
  /\ answers' = answers \cup {<<k, a, IF Len(held[t]) = 1 THEN "locked" ELSE "inside">>}

\* What it returns: a new type made of the answers it got, or the last of them.
Made(k) == TypeOf(k, runs[k])
Result(t) ==
  LET k == Top(t).key
      got == Top(t).results
  IN  CASE body[k].makes = "alias" -> got[Len(got)]
        [] body[k].makes \in {"tuple", "class"} -> Made(k)
        [] body[k].makes = "error" -> Undefined
Graph(t) ==
  LET k == Top(t).key
      got == {Top(t).results[i] : i \in DOMAIN Top(t).results}
  IN  IF body[k].makes \in {"tuple", "class"} /\ CanMake(types, got)
      THEN Make(types, Made(k), body[k].makes, got) ELSE types
Returns(t) ==
  /\ Result(t) \in DOMAIN Graph(t)
  /\ CanDefine(Graph(t), ForwardOf(Top(t).key), Result(t))

Return(t) ==
  LET k == Top(t).key
      f == ForwardOf(k)
      r == Result(t)
      others == Without(madeBy, f)
  IN  /\ Ran(t) /\ Returns(t)
      /\ types' = Define(Graph(t), f, r)
      /\ lost' = lost \cup (IF IsForward(Graph(t), Chased(Graph(t), r)) THEN Graph(t)[f].users ELSE {})
      /\ madeBy' = IF r \in DOMAIN others THEN others ELSE Extend(others, r, k)
      /\ memo' = [memo EXCEPT ![k] = r]
      /\ Answer(t, k, r)
      /\ UNCHANGED <<runs, raising, asked, interrupts>>

\* The function, or the type's constructor, or the definition, raises.
Fail(t) ==
  /\ Ran(t) /\ ~Returns(t)
  /\ raising' = [raising EXCEPT ![t] = Error]
  /\ types' = Graph(t)
  /\ UNCHANGED <<memo, madeBy, lost, runs, held, asked, answers, interrupts>>

Interrupted(t) ==
  /\ Running(t) /\ interrupts < MaxInterrupts
  /\ raising' = [raising EXCEPT ![t] = Interrupt] /\ interrupts' = interrupts + 1
  /\ UNCHANGED <<types, memo, madeBy, lost, runs, held, asked, answers>>

\* The exception leaves the innermost call, which memoizes it if it is an
\* Exception.  The compiler catches those too, and compiles a raise.
Caught(stack) ==
  IF stack # <<>> /\ stack[Len(stack)].kind = "compile" THEN Told(stack, Raised) ELSE stack
Unwind(t) ==
  LET k == Top(t).key
      below == Below(t)
      error == raising[t] = Error
      ends == below = <<>> \/ (error /\ below[Len(below)].kind = "compile")
  IN  /\ In(t, "type") /\ raising[t] # Calm
      /\ memo' = IF error THEN [memo EXCEPT ![k] = Raised] ELSE memo
      /\ answers' = IF error THEN answers \cup {<<k, Raised, "locked">>} ELSE answers
      /\ held' = [held EXCEPT ![t] = IF error THEN Caught(below) ELSE below]
      /\ raising' = IF ends THEN [raising EXCEPT ![t] = Calm] ELSE raising
      /\ UNCHANGED <<types, madeBy, lost, runs, asked, interrupts>>

TypeNext(t) == Locked(t) \/ Call(t) \/ Return(t) \/ Fail(t) \/ Interrupted(t) \/ Unwind(t)

-----------------------------------------------------------------------------
(* Properties.                                                             *)

\* The forwards that each type has marked are those it really refers to,
\* whatever the order in which types were made and forwards defined: a type
\* never waits for a forward that is defined, nor is used while one is not.
\* The exception are types that used a forward when it became another forward
\* (Type.cpp:378), and those made of them.
ForwardsAreKnown ==
  \A t \in DOMAIN types :
    IsForward(types, t) \/ Closure(types, {t}, Refers) \cap lost # {} \/ BooksAgree(types, t)

\* A call that had to take the lock never returns a type that somebody is still
\* completing: what a type it has returned refers to is defined, but for the
\* forwards of functions that raised or were interrupted.
InProgress(k) == \E t \in Thread : \E i \in DOMAIN held[t] : held[t][i].kind = "type" /\ held[t][i].key = k
LeftOpen(k) == memo[k] = Raised \/ (memo[k] = ForwardOf(k) /\ interrupts > 0 /\ ~InProgress(k))
LockedIsComplete ==
  \A p \in answers : p[3] = "locked" /\ p[2] # Raised =>
    \A k \in Key : ForwardOf(k) \in Incomplete(types, p[2]) => LeftOpen(k)

\* All calls with the same arguments get the same type or all of them an error,
\* however they interleave, forwards being what they were defined with; the
\* key of a type, from which it is deserialized, gives that type; and those who
\* waited for the lock get it complete.
OneAnswer ==
  LET Final(a) == a = Raised \/ ~UndefinedForward(types, Chased(types, a))
      Same(a, b) == IF Raised \in {a, b} THEN a = b ELSE Chased(types, a) = Chased(types, b)
  IN  /\ \A p, q \in answers : p[1] = q[1] /\ Final(p[2]) /\ Final(q[2]) => Same(p[2], q[2])
      /\ \A t \in DOMAIN madeBy : IsForward(types, t) \/ memo[madeBy[t]] = t
      /\ LockedIsComplete

\* type_function.py:109, of the way that does not lock: "only return fully
\* resolved TypeFunction values without locking".
UnlockedIsResolved ==
  \A p \in answers : p[3] = "unlocked" /\ p[2] # Raised => types[p[2]].resolved
=============================================================================
