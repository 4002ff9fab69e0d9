---------------------------- MODULE MCMainLoop -----------------------------
(***************************************************************************)
(* Task and Keyboard for TLC, the two parts that the main loop of kmain    *)
(* turns.  They share no variable, so a behaviour exercises one of them    *)
(* and leaves the other as boot left it.                                   *)
(***************************************************************************)
EXTENDS Task, Keyboard

VARIABLE on        \* the part that the behaviour exercises

all == <<vars, kbdVars, on>>

AllPresses == {"lshift", "ctrl", "caps", "pgup", "f1", "c", "1"}

MainInit == on \in {"tasks", "keys"} /\ Init /\ KbdInit

MainNext ==
    \/ on = "tasks" /\ Next /\ UNCHANGED <<kbdVars, on>>
    \/ on = "keys" /\ KbdNext /\ UNCHANGED <<vars, on>>

\* The fairness of FairSpec and of KbdFairSpec, for the part that is exercised.
MainSpec ==
    /\ MainInit /\ [][MainNext]_all
    /\ WF_vars(on = "tasks" /\ (CreateShell \/ MainLoop \/ task_yield \/ Return))
    /\ WF_kbdVars(on = "keys" /\ kbd_get)

=============================================================================
