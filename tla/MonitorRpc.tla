----------------------------- MODULE MonitorRpc -----------------------------
(***************************************************************************)
(* What main.cpp expects of the monitor connection: commands are requests  *)
(* that are executed one after the other, and ReceiveReply returns for a   *)
(* command only after the command was executed.  The promise is void once  *)
(* replies are mixed up.                                                   *)
(***************************************************************************)
EXTENDS Naturals

CONSTANT MaxCmds        \* bound on the number of commands of one run

VARIABLES up,           \* the connection stands
          sent,         \* commands sent
          executed,     \* commands the monitor has executed
          returned,     \* replies that ReceiveReply has reported
          mixed         \* an old reply may have been taken for a new one

vars == <<up, sent, executed, returned, mixed>>

Init == up \in BOOLEAN /\ sent = 0 /\ executed = 0 /\ returned = 0 /\ mixed = FALSE

Request == /\ up /\ sent = returned /\ sent < MaxCmds
           /\ sent' = sent + 1
           /\ UNCHANGED <<up, executed, returned, mixed>>

Execute == /\ executed < sent
           /\ executed' = executed + 1
           /\ UNCHANGED <<up, sent, returned, mixed>>

Return  == /\ returned < executed
           /\ returned' = returned + 1
           /\ UNCHANGED <<up, sent, executed, mixed>>

GoDown  == up' = FALSE /\ UNCHANGED <<sent, executed, returned, mixed>>
ComeUp  == up' = TRUE /\ sent = 0 /\ UNCHANGED <<sent, executed, returned, mixed>>

\* Nothing is promised any more, and nothing mends it.
MixUp   == /\ mixed' = TRUE
           /\ up' \in BOOLEAN
           /\ sent' \in Nat /\ executed' \in Nat /\ returned' \in Nat

Next == Request \/ Execute \/ Return \/ GoDown \/ ComeUp \/ MixUp

Works == up /\ ~mixed

\* While the connection stands, a command is executed and its reply arrives.
Spec == /\ Init /\ [][Next]_vars
        /\ WF_vars(Execute /\ Works) /\ WF_vars(Return /\ Works)
=============================================================================
