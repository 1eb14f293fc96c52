------------------------------- MODULE MCClock -------------------------------
(***************************************************************************)
(* At first the users only compute, and the servers wait for them.  Then   *)
(* SYSTASK may end the second user, and the others go to work: FS asks     *)
(* CLOCK for the time, MM sets alarms and talks to SYSTASK, which only     *)
(* replies, and the first user calls MM.                                   *)
(***************************************************************************)
EXTENDS Clock

VARIABLE part

AlarmCalls ==
  {<<RECEIVE, FS, ANY>>, <<RECEIVE, MM, ANY>>, <<RECEIVE, SYSTASK, ANY>>,
   <<BOTH, FS, CLOCK>>, <<BOTH, MM, CLOCK>>, <<BOTH, MM, SYSTASK>>, <<SEND, SYSTASK, MM>>,
   <<BOTH, LOW_USER, MM>>, <<SEND, MM, LOW_USER>>}
ClockOnly == {CLOCK}

MCInit == part = "compute" /\ ClockInit

ServerWaits(p) ==
  /\ part = "compute" /\ SysCall(RECEIVE, p, ANY)
  /\ UNCHANGED <<part, clock>>

\* do_xit() for the second user, whose slot a fork may use again.
WorkBegins ==
  /\ part = "compute" /\ part' = "work"
  /\ kern.cur = SYSTASK /\ kern' = Block(kern, LOW_USER + 1, "P_SLOT_FREE")
  /\ UNCHANGED <<busy_map, lost_ticks, clock>>

Computing(A) == part = "compute" /\ A /\ part' = part

MCNext ==
  \/ Computing(Tick) \/ Computing(ClockStep)
  \/ \E p \in {SYSTASK, MM, FS} : ServerWaits(p)
  \/ WorkBegins
  \/ part = "work" /\ ClockNext /\ part' = part

\* The fairness of Clock, for users that compute.
MCSpec ==
  /\ MCInit /\ [][MCNext]_<<part, clock_vars>>
  /\ WF_clock_vars(Computing(Tick)) /\ WF_clock_vars(Computing(ClockStep))
  /\ \A p \in {SYSTASK, MM, FS} : SF_clock_vars(ServerWaits(p))

\* Users that only compute all get their turn, see EveryUserRuns.
ComputingUsersRun == [](part = "compute") => EveryUserRuns
=============================================================================
