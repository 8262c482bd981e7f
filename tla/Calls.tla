------------------------------- MODULE Calls -------------------------------
(***************************************************************************)
(* A SQL function that is called and answers.  A call is the function's    *)
(* name and its arguments.  The functions keep no state, so a call starts  *)
(* from nothing and is forgotten when its answer has been returned.        *)
(***************************************************************************)
EXTENDS Integers, Sequences, FiniteSets, TLC

VARIABLES call, answer

callVars == <<call, answer>>

NoCall == [f |-> "none", args |-> <<>>]

CallInit == call = NoCall /\ answer = <<>>

Idle == call.f = "none"

\* invoke_with_args: the UDF is given its arguments and answers.
Invoke(f, args, r) ==
    /\ Idle
    /\ call' = [f |-> f, args |-> args]
    /\ answer' = r

Return ==
    /\ ~Idle
    /\ call' = NoCall
    /\ answer' = <<>>

Arg(n) == call.args[n]
=============================================================================
