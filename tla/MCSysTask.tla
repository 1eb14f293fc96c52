------------------------------ MODULE MCSysTask ------------------------------
(***************************************************************************)
(* An instance of SysTask: CLOCK and SYSTASK, MM and FS, INIT and one more *)
(* user process that can be killed and forked again.  CLOCK takes its      *)
(* interrupts and causes signals, and sends to nobody.                     *)
(***************************************************************************)
EXTENDS SysTask

MCCalls ==
  {<<RECEIVE, t, ANY>> : t \in {SYSTASK, CLOCK, MM, FS}}
    \cup {<<BOTH, s, SYSTASK>> : s \in {MM, FS}}
    \cup {<<BOTH, MM, FS>>, <<SEND, FS, MM>>}
    \cup {<<BOTH, u, MM>> : u \in User} \cup {<<SEND, MM, u>> : u \in User}
MCDevices == {CLOCK}

ASSUME MCCallsAssumption == ServersCallSystem
=============================================================================
