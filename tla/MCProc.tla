------------------------------- MODULE MCProc -------------------------------
(***************************************************************************)
(* Instances of Proc: the calls that CLOCK, TTY, MM, FS and the users make *)
(* in the sources (the tasks' main loops; get_work() and reply() of MM and *)
(* FS; tell_fs(), set_alarm() of MM; rw_dev() of FS; the libraries'        *)
(* callm() for users), in any order.  MM is only a client of FS here;      *)
(* SysTask and Clock have the users' calls to MM.                          *)
(***************************************************************************)
EXTENDS Proc

TTY == -4

TaskCalls   == {<<RECEIVE, t, ANY>> : t \in {SYSTASK, CLOCK, TTY}} \cup {<<SEND, TTY, FS>>}
ServerCalls == {<<RECEIVE, FS, ANY>>, <<BOTH, FS, TTY>>, <<RECEIVE, MM, ANY>>, <<BOTH, MM, FS>>}
Users       == LOW_USER .. LAST_LIVE
UserCalls   == {<<BOTH, u, FS>> : u \in Users}
ReplyCalls  == {<<SEND, FS, u>> : u \in Users}
MCCalls     == TaskCalls \cup ServerCalls \cup UserCalls \cup ReplyCalls
MCDevices   == {CLOCK, TTY}

\* What PriorityKept is proved from holds of these calls.
ASSUME RequestsGoOneWay == OneWay
=============================================================================
