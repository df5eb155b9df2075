----------------------------- MODULE RemoteCall -----------------------------
(***************************************************************************)
(* What the callers of a field-bus library rely on when they send commands *)
(* to a device one at a time: a command has an effect at most once, and a  *)
(* call that reports success has had its effect.  A call that reports      *)
(* failure promises nothing: its command may take effect before, after or  *)
(* never.                                                                  *)
(***************************************************************************)
EXTENDS Naturals

CONSTANT MaxCalls

VARIABLES result,     \* per call: "unborn", "pending", "success" or "failure"
          executions  \* per call: how often the device has executed it

vars == <<result, executions>>

Calls == 1 .. MaxCalls

Init == /\ result = [c \in Calls |-> "unborn"]
        /\ executions = [c \in Calls |-> 0]

Begin(c) == /\ result[c] = "unborn"
            /\ \A d \in Calls : result[d] # "pending"
            /\ result' = [result EXCEPT ![c] = "pending"]
            /\ UNCHANGED executions

Execute(c) == /\ result[c] # "unborn"
              /\ executions[c] = 0
              /\ executions' = [executions EXCEPT ![c] = 1]
              /\ UNCHANGED result

Succeed(c) == /\ result[c] = "pending"
              /\ executions[c] = 1
              /\ result' = [result EXCEPT ![c] = "success"]
              /\ UNCHANGED executions

Fail(c) == /\ result[c] \in {"unborn", "pending"}
           /\ result' = [result EXCEPT ![c] = "failure"]
           /\ UNCHANGED executions

Next == \E c \in Calls : Begin(c) \/ Execute(c) \/ Succeed(c) \/ Fail(c)

Spec == Init /\ [][Next]_vars
=============================================================================
