-------------------------- MODULE CommandContract --------------------------
(***************************************************************************)
(* What the command chain Pc_ui -> Pc_data -> Linux_data promises about a  *)
(* control command, whatever messages are lost or delayed on the way: it   *)
(* is executed at most once, only while the interface still waits for it,  *)
(* it is closed at most once, and it is closed with success only after the *)
(* gateway has taken it.                                                   *)
(***************************************************************************)
CONSTANT Cmds

VARIABLES outcome,  \* what the interface knows of each command
          work      \* what the gateway has done with it

vars == <<outcome, work>>

Init == /\ outcome = [c \in Cmds |-> "none"]
        /\ work = [c \in Cmds |-> "none"]

Issue(c) == /\ outcome[c] = "none"
            /\ outcome' = [outcome EXCEPT ![c] = "open"]
            /\ UNCHANGED work

Take(c) == /\ outcome[c] = "open" /\ work[c] = "none"
           /\ work' = [work EXCEPT ![c] = "taken"]
           /\ UNCHANGED outcome

Execute(c) == /\ work[c] = "taken"
              /\ \E r \in {"done", "refused"} : work' = [work EXCEPT ![c] = r]
              /\ UNCHANGED outcome

Close(c) == /\ outcome[c] = "open"
            /\ \E r \in {"success", "failed"} :
                 /\ r = "success" => work[c] # "none"
                 /\ outcome' = [outcome EXCEPT ![c] = r]
            /\ UNCHANGED work

Next == \E c \in Cmds : Issue(c) \/ Take(c) \/ Execute(c) \/ Close(c)

Spec == Init /\ [][Next]_vars
=============================================================================
