----------------------------- MODULE HeldClass -----------------------------
(***************************************************************************)
(* HeldClassType.cpp and the compiled held_class_wrapper.py: the memory of *)
(* one instance of a Held class, with one member that is not constructed   *)
(* by default.  The flag is the instance's own word for whether the member *)
(* is there; built is the truth.  spoilt remembers, for the properties,    *)
(* that one of the two operations that get the flag wrong was here, or     *)
(* that it is a copy of destroyed memory.                                  *)
(***************************************************************************)

\* Memory from the allocator, and what a destructor leaves: the byte of the
\* flags is what it happens to be.
RawMemory == {[flag |-> b, built |-> FALSE, spoilt |-> FALSE] : b \in BOOLEAN}

\* constructor
HeldMade(self) == [self EXCEPT !.flag = FALSE, !.built = FALSE]

\* What is true of an instance that is spoilt does not matter any more.
Spoilt(flag) == [flag |-> flag, built |-> FALSE, spoilt |-> TRUE]

\* copy_constructor: a member that the other does not have leaves the flag
\* alone; compiled code clears it.
HeldCopied(self, other) ==
  CASE other.spoilt \/ other.flag # other.built -> Spoilt(other.flag \/ self.flag)
    [] ~other.spoilt /\ other.flag = other.built ->
         IF other.flag THEN other ELSE IF self.flag THEN Spoilt(TRUE) ELSE self
HeldCopiedCompiled(self, other) == HeldCopied(HeldMade(self), other)

\* assign, where a member that is new is copied and its flag stays clear
\* (compiled code makes the expression that would set it and drops it).
MutantHeldAssigned(self, other) ==  \* mutant: the member that only this one has is destroyed, its flag stays
  IF ~self.spoilt /\ ~other.spoilt /\ self.flag /\ ~other.flag THEN [self EXCEPT !.built = FALSE]
  ELSE self
HeldAssigned(self, other) ==
  CASE self.spoilt \/ other.spoilt \/ other.flag # other.built \/ (other.flag /\ ~self.flag) ->
         Spoilt(self.flag /\ other.flag)
    [] OTHER -> [self EXCEPT !.flag = @ /\ other.flag, !.built = @ /\ other.flag]

\* setAttribute and delAttribute.
HeldSet(self) == IF self.flag THEN self ELSE [self EXCEPT !.flag = TRUE, !.built = ~self.spoilt]
HeldDeleted(self) == [self EXCEPT !.flag = FALSE, !.built = FALSE]

\* destroy
HeldDestroyed(self) == [self EXCEPT !.built = FALSE, !.spoilt = FALSE]
=============================================================================
