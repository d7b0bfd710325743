----------------------------- MODULE ScopeGuards -----------------------------
(***************************************************************************)
(* ScopeExit, ScopeFail and TransactionalScope of src/utilities/include/   *)
(* FinalAction.hpp, in a thread that opens scopes, throws and catches.     *)
(*                                                                         *)
(* The thread is the stack of what it has open, innermost last: guards,    *)
(* try blocks, and destructors that run because an exception passes.  Such *)
(* a destructor opens scopes and throws and catches exceptions of its own, *)
(* with the first one still in flight.                                     *)
(***************************************************************************)
EXTENDS Integers, Sequences, SequencesExt

CONSTANTS
  CountRange,   \* the values of exceptionCount, 2^8 of them
  MaxOpen,      \* bound on what is open at once
  MaxCalls      \* bound on the calls of commit and rollback of one guard

VARIABLES
  open,        \* the stack
  unwinding,   \* an exception is passing the top of the stack
  uncaught,    \* std::uncaught_exceptions
  left         \* the guard left last, how, and what it had run by then

vars == <<open, unwinding, uncaught, left>>

Guards == {"ScopeExit", "ScopeFail", "TransactionalScope"}
Nothing == [kind |-> "none", thrown |-> FALSE, dismissed |-> FALSE, byHand |-> <<>>, ran |-> <<>>]

(* A guard as constructed; the other things open have no use of the rest.  *)
Opened(kind) ==
  [kind |-> kind, active |-> TRUE, exceptionCount |-> uncaught % CountRange, ran |-> <<>>]

Top == Last(open)
Below == Front(open)

Init == open = <<>> /\ unwinding = FALSE /\ uncaught = 0 /\ left = Nothing
-----------------------------------------------------------------------------
(* A scope with a guard, or a try block, is entered.                       *)
Enter(kind) ==
  /\ ~unwinding
  /\ Len(open) < MaxOpen
  /\ open' = Append(open, Opened(kind))
  /\ UNCHANGED <<unwinding, uncaught, left>>

(* ScopeExit::release and ScopeFail::release; TransactionalScope::commit   *)
(* and rollback, which act at once, and again when called again.           *)
Dismiss(call) ==
  /\ ~unwinding
  /\ open # <<>>
  /\ \/ call = "release" /\ Top.kind \in {"ScopeExit", "ScopeFail"}
     \/ call \in {"commit", "rollback"} /\ Top.kind = "TransactionalScope"
  /\ Len(Top.ran) < MaxCalls
  /\ open' = Append(Below, [Top EXCEPT !.active = FALSE,
                                       !.ran = IF call = "release" THEN @ ELSE Append(@, call)])
  /\ UNCHANGED <<unwinding, uncaught, left>>

(* Mutant of Failing: any exception in flight will do.                     *)
MutantAnyException(guard) == uncaught > 0

(* There are more exceptions in flight than when the guard was made.       *)
Failing(guard) == uncaught > guard.exceptionCount

(* What the destructor of a guard runs.                                    *)
AtExit(guard) ==
  CASE ~guard.active -> <<>>
    [] guard.active /\ guard.kind = "ScopeExit" -> <<"exit">>
    [] guard.active /\ guard.kind = "ScopeFail" ->
         IF Failing(guard) THEN <<"exit">> ELSE <<>>
    [] OTHER ->  \* TransactionalScope
         IF Failing(guard) THEN <<"rollback">> ELSE <<"commit">>

Leave(guard) ==
  left' = [kind |-> guard.kind, thrown |-> unwinding, dismissed |-> ~guard.active,
           byHand |-> guard.ran, ran |-> guard.ran \o AtExit(guard)]

(* A guard's scope ends, or is passed by an exception.                     *)
Destroy ==
  /\ open # <<>>
  /\ Top.kind \in Guards
  /\ Leave(Top)
  /\ open' = Below
  /\ UNCHANGED <<unwinding, uncaught>>

(* An exception that a try block waits for; a destructor lets none out.    *)
Caught ==
  \E k \in DOMAIN open :
    open[k].kind = "try" /\ \A j \in DOMAIN open : j > k => open[j].kind # "destructor"

Throw ==
  /\ ~unwinding
  /\ Caught
  /\ unwinding' = TRUE
  /\ uncaught' = uncaught + 1
  /\ UNCHANGED <<open, left>>

(* A destructor of some other object of the scopes that are passed.        *)
RunDestructor ==
  /\ unwinding
  /\ Len(open) < MaxOpen
  /\ open' = Append(open, Opened("destructor"))
  /\ unwinding' = FALSE
  /\ UNCHANGED <<uncaught, left>>

EndDestructor ==
  /\ ~unwinding
  /\ open # <<>>
  /\ Top.kind = "destructor"
  /\ open' = Below
  /\ unwinding' = TRUE
  /\ UNCHANGED <<uncaught, left>>

(* The try block is left, by its handler if an exception has come.         *)
LeaveTry ==
  /\ open # <<>>
  /\ Top.kind = "try"
  /\ open' = Below
  /\ unwinding' = FALSE
  /\ uncaught' = IF unwinding THEN uncaught - 1 ELSE uncaught
  /\ UNCHANGED left

Next ==
  \/ \E kind \in Guards \cup {"try"} : Enter(kind)
  \/ \E call \in {"release", "commit", "rollback"} : Dismiss(call)
  \/ Destroy
  \/ Throw
  \/ RunDestructor
  \/ EndDestructor
  \/ LeaveTry

Spec == Init /\ [][Next]_vars
-----------------------------------------------------------------------------
(* A guard judges by the exceptions that leave its own scope, and by no    *)
(* other in flight: ScopeFail acts exactly when one does, a transaction is *)
(* rolled back exactly when one does and committed once otherwise; one     *)
(* that was released, or ended by hand, does nothing more.                 *)
GuardsJudgeTheirScope ==
  LET Runs(calls) == left.ran = IF left.dismissed THEN left.byHand ELSE calls
  IN  /\ left.kind = "ScopeExit" => Runs(<<"exit">>)
      /\ left.kind = "ScopeFail" => Runs(IF left.thrown THEN <<"exit">> ELSE <<>>)
      /\ left.kind = "TransactionalScope" =>
           Runs(IF left.thrown THEN <<"rollback">> ELSE <<"commit">>)
=============================================================================
