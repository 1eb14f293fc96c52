------------------------------ MODULE MCPortProc ------------------------------
(***************************************************************************)
(* The three tasks of kmain(), with the clock task's loop, and one server, *)
(* for which proc.h has a slot and a ready list.  Tasks A and B and the    *)
(* server make every call that the interface has, where the demonstration  *)
(* tasks only compute.                                                     *)
(***************************************************************************)
EXTENDS PortProc

TASK_B == -2
TASK_A == -3
SERVER == 0
Started == <<CLOCK, TASK_A, TASK_B, SERVER>>

TaskCalls ==
  {<<"RECEIVE", CLOCK, ANY>>}
    \cup {c \in {"SEND", "RECEIVE"} \X {TASK_A, TASK_B, SERVER} \X {CLOCK, TASK_A, TASK_B, SERVER, ANY} :
            c[1] = "SEND" => c[3] \notin {c[2], ANY}}
=============================================================================
