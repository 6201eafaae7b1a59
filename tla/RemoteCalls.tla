---------------------------- MODULE RemoteCalls ----------------------------
(***************************************************************************)
(* What the threads of the IOP may expect of the host: driver.  A call is  *)
(* asked, performed by the PC at most once (a write once per segment), and *)
(* returns what the PC answered to that call, or an error.  Two things may *)
(* happen besides: a call that changes descriptors or makes a directory    *)
(* may return without the PC having been asked, and once a connection has  *)
(* failed a call may return another call's answer.                         *)
(***************************************************************************)
EXTENDS Integers

CONSTANTS
    Threads,     \* callers
    Ops,         \* what may be called
    Skipped,     \* the operations that may return without an exchange
    Repeated,    \* the operations performed in several exchanges
    Answers      \* what a call may return

VARIABLES
    call,        \* each thread's call: its operation, phase and result
    broken       \* a connection has failed

rcVars == <<call, broken>>

Idle == [op |-> "none", phase |-> "idle", ret |-> 0]

RCInit ==
    /\ call = [t \in Threads |-> Idle]
    /\ broken = FALSE

Goes(t, phase, r) ==
    call' = [call EXCEPT ![t].phase = phase, ![t].ret = r]

Ask(t) ==
    /\ call[t] = Idle
    /\ \E op \in Ops : call' = [call EXCEPT ![t] = [op |-> op, phase |-> "asked", ret |-> 0]]
    /\ UNCHANGED broken

Perform(t) ==
    /\ call[t].phase = "asked"
    /\ \E r \in Answers :
          Goes(t, "performed", IF r < 0 THEN r ELSE call[t].ret + r)
    /\ UNCHANGED broken

Continue(t) ==
    /\ call[t].phase = "performed"
    /\ call[t].op \in Repeated
    /\ Goes(t, "asked", call[t].ret)
    /\ UNCHANGED broken

Return(t) ==
    /\ call[t].phase = "performed"
    /\ Goes(t, "returned", call[t].ret)
    /\ UNCHANGED broken

Fail(t) ==
    /\ call[t].phase \in {"asked", "performed"}
    /\ Goes(t, "returned", -1)
    /\ UNCHANGED broken

Skip(t) ==
    /\ call[t].phase \in {"idle", "asked"}
    /\ \E op \in Skipped, r \in Answers :
          /\ call[t].phase = "asked" => call[t].op = op
          /\ call' = [call EXCEPT ![t] = [op |-> op, phase |-> "returned", ret |-> r]]
    /\ UNCHANGED broken

Break ==
    /\ broken' = TRUE
    /\ UNCHANGED call

Misreport(t) ==
    /\ broken
    /\ call[t].phase \in {"asked", "performed"}
    /\ \E r \in Answers, phase \in {"asked", "returned"} :
          Goes(t, phase, r)
    /\ UNCHANGED broken

Done(t) ==
    /\ call[t].phase = "returned"
    /\ call' = [call EXCEPT ![t] = Idle]
    /\ UNCHANGED broken

RCNext ==
    \/ Break
    \/ \E t \in Threads :
          \/ Ask(t) \/ Perform(t) \/ Continue(t) \/ Return(t)
          \/ Fail(t) \/ Skip(t) \/ Misreport(t) \/ Done(t)

RCSpec == RCInit /\ [][RCNext]_rcVars
=============================================================================
