----------------------------- MODULE MmpService -----------------------------
(***************************************************************************)
(* What the protocol promises its users: a transfer that is started is     *)
(* handled by the counterpart exactly once, its result is reported to the  *)
(* application exactly once, and only then the next one starts.  There are *)
(* no messages, positions or timers here.                                  *)
(***************************************************************************)
EXTENDS Integers

CONSTANTS
    MaxStarts,   \* bound: transfers started
    Results,     \* what handling a transfer can result in
    NoResult     \* not handled yet, no member of Results

VARIABLES
    started,     \* the number of transfers started; the last one is current
    result,      \* the result of each transfer
    told         \* the reports the application got

serviceVars == <<started, result, told>>

ServiceTypeOK ==
    /\ started \in 0 .. MaxStarts
    /\ result \in [1 .. MaxStarts -> Results \cup {NoResult}]
    /\ told \subseteq [xfer : 1 .. MaxStarts, code : Results]

Init ==
    /\ started = 0
    /\ result = [x \in 1 .. MaxStarts |-> NoResult]
    /\ told = {}

Told(x) == \E t \in told : t.xfer = x

Start ==
    /\ started < MaxStarts /\ (started = 0 \/ Told(started))
    /\ started' = started + 1
    /\ UNCHANGED <<result, told>>

Handle ==
    /\ started > 0 /\ result[started] = NoResult
    /\ \E r \in Results : result' = [result EXCEPT ![started] = r]
    /\ UNCHANGED <<started, told>>

Tell ==
    /\ started > 0 /\ result[started] # NoResult /\ ~Told(started)
    /\ told' = told \cup {[xfer |-> started, code |-> result[started]]}
    /\ UNCHANGED <<started, result>>

Next == Start \/ Handle \/ Tell

Spec == Init /\ [][Next]_serviceVars /\ WF_serviceVars(Handle) /\ WF_serviceVars(Tell)
=============================================================================
