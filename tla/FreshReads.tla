----------------------------- MODULE FreshReads -----------------------------
(***************************************************************************)
(* What a cache in front of a row that several instances share promises    *)
(* those who read through it, without the cache: the value a call is       *)
(* answered with was stored at some moment, and not replaced yet when its  *)
(* instance last heard of a change before the call began.  A value is      *)
(* known by its version.  Calls may be answered together, by one query,    *)
(* and a call may end without an answer.                                   *)
(***************************************************************************)
EXTENDS Naturals

CONSTANTS Instances, Calls

VARIABLES newest,     \* the version that is stored
          heard,      \* per instance: the last change it has answered
          call        \* the calls that read

vars == <<newest, heard, call>>

Idle == [pc |-> "idle"]
Open(floor) == [pc |-> "open", floor |-> floor]
Answered(floor, version) == [pc |-> "answered", floor |-> floor, version |-> version]

Init ==
    /\ newest = 0
    /\ heard = [i \in Instances |-> 0]
    /\ call = [c \in Calls |-> Idle]

Store ==
    /\ newest' = newest + 1
    /\ UNCHANGED <<heard, call>>

\* An instance hears of a change, of the latest or of an earlier one.
Hear(i) ==
    /\ \E version \in heard[i]..newest : heard' = [heard EXCEPT ![i] = version]
    /\ UNCHANGED <<newest, call>>

Begin(c, i) ==
    /\ call[c] = Idle
    /\ call' = [call EXCEPT ![c] = Open(heard[i])]
    /\ UNCHANGED <<newest, heard>>

\* The call is answered at once.
BeginAnswered(c, i) ==
    /\ call[c] = Idle
    /\ \E version \in heard[i]..newest : call' = [call EXCEPT ![c] = Answered(heard[i], version)]
    /\ UNCHANGED <<newest, heard>>

\* Some of the open calls get the same answer.
Answer(C) ==
    /\ \A c \in C : call[c].pc = "open"
    /\ \E version \in 0..newest :
          /\ \A c \in C : call[c].floor <= version
          /\ call' = [c \in Calls |-> IF c \in C THEN Answered(call[c].floor, version)
                                      ELSE call[c]]
    /\ UNCHANGED <<newest, heard>>

\* Some calls go on with their answers, or fail.
End(C) ==
    /\ call' = [c \in Calls |-> IF c \in C THEN Idle ELSE call[c]]
    /\ UNCHANGED <<newest, heard>>

Next ==
    \/ Store
    \/ \E i \in Instances : Hear(i)
    \/ \E c \in Calls, i \in Instances : Begin(c, i) \/ BeginAnswered(c, i)
    \/ \E C \in SUBSET Calls : Answer(C) \/ End(C)

Spec == Init /\ [][Next]_vars
=============================================================================
