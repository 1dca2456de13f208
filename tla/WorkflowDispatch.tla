---------------------------- MODULE WorkflowDispatch ----------------------------
(***************************************************************************)
(* Starting a qualification on GitHub and finding the run that it became   *)
(* (control-gateway/src/github-workflow-dispatch.js).  GitHub answers a    *)
(* dispatch without saying which run it made, and the run shows up in the  *)
(* list of runs some time later; a caller notes the runs that are listed   *)
(* before, dispatches, and takes the one new run for its own.  An answer   *)
(* may be lost on the way.                                                 *)
(*                                                                         *)
(* Time counts ticks; a run may have been born up to Slack ticks before    *)
(* the dispatch that it is taken for, to make up for clocks that differ.   *)
(* The runs are those of one workflow and one ref.                         *)
(***************************************************************************)
EXTENDS Naturals, Sequences, FiniteSets

CONSTANTS
  Callers,
  MaxMade,     \* bound on the runs that GitHub makes
  PollAttempts,
  Slack,
  MaxClock,    \* bound on the clock
  NoRun

ASSUME DispatchAssumption == Slack \in Nat

VARIABLES
  apart,     \* whether callers keep apart: one at a time, and only when every run shows
  clock,
  made,      \* the runs in the order they are made: by whom, when, whether they are listed
  call       \* what each caller is at

dispatchVars == <<apart, clock, made, call>>

NoDispatch == [at |-> "IDLE", prior |-> {}, since |-> 0, polls |-> 0, run |-> NoRun]

DispatchInit ==
  /\ apart \in BOOLEAN
  /\ clock = 0
  /\ made = << >>
  /\ call = [c \in Callers |-> NoDispatch]

Listed == {r \in DOMAIN made : made[r].listed}

Under(c) == call[c].at \in {"NOTED", "POLLING"}

Alone(c) == Listed = DOMAIN made /\ \A d \in Callers \ {c} : ~Under(d)

\* Faulty: the runs that are listed before are not noted.
FaultyNote(c) ==
  /\ ~Under(c)
  /\ apart => Alone(c)
  /\ call' = [call EXCEPT ![c] = [NoDispatch EXCEPT !.at = "NOTED", !.since = clock]]
  /\ UNCHANGED <<apart, clock, made>>

\* The first snapshotRuns of a call whose input is in order; a caller whose call has ended
\* may call again.
Note(c) ==
  /\ ~Under(c)
  /\ apart => Alone(c)
  /\ call' = [call EXCEPT ![c] = [NoDispatch EXCEPT !.at = "NOTED", !.prior = Listed, !.since = clock]]
  /\ UNCHANGED <<apart, clock, made>>

\* GitHub makes a run of the dispatch; the answer comes back, or not.
DispatchWorkflow(c) ==
  /\ call[c].at = "NOTED" /\ Len(made) < MaxMade
  /\ made' = Append(made, [by |-> c, born |-> clock, listed |-> FALSE])
  /\ \E at \in {"POLLING", "NETWORK_AMBIGUOUS"} : call' = [call EXCEPT ![c].at = at]
  /\ UNCHANGED <<apart, clock>>

\* The request is lost, or refused: that of the dispatch, or one of a round for the runs or
\* the jobs of the run that is found.  The call ends with the error.
Lose(c) ==
  /\ Under(c)
  /\ call' = [call EXCEPT ![c].at = "NETWORK_AMBIGUOUS"]
  /\ UNCHANGED <<apart, clock, made>>

Candidates(c) ==
  {r \in Listed \ call[c].prior : made[r].born + Slack >= call[c].since}

\* Faulty: every round is the first.
FaultyEmptyRound(c) == [call[c] EXCEPT !.polls = 1]

EmptyRound(c) ==
  [call[c] EXCEPT !.polls = @ + 1,
                  !.at = IF call[c].polls + 1 < PollAttempts THEN @ ELSE "NOT_ATTRIBUTABLE"]

\* One round of the loop: none, one or several new runs.
Poll(c) ==
  /\ call[c].at = "POLLING"
  /\ \/ Candidates(c) = {}
        /\ call' = [call EXCEPT ![c] = EmptyRound(c)]
     \/ Cardinality(Candidates(c)) > 1
        /\ call' = [call EXCEPT ![c].at = "CORRELATION_AMBIGUOUS"]
     \/ \E r \in DOMAIN made :
          /\ Candidates(c) = {r}
          /\ call' = [call EXCEPT ![c].at = "ATTRIBUTED", ![c].run = r]
  /\ UNCHANGED <<apart, clock, made>>

List(r) ==
  /\ r \in DOMAIN made \ Listed
  /\ made' = [made EXCEPT ![r].listed = TRUE]
  /\ UNCHANGED <<apart, clock, call>>

ClockTicks ==
  /\ clock < MaxClock
  /\ clock' = clock + 1
  /\ UNCHANGED <<apart, made, call>>

DispatchNext ==
  \/ \E c \in Callers : Note(c) \/ Lose(c) \/ Poll(c) \/ DispatchWorkflow(c)
  \/ \E r \in DOMAIN made : List(r)
  \/ ClockTicks

\* A caller goes on once it has dispatched; GitHub may never list its run.
DispatchFairness == \A c \in Callers : WF_dispatchVars(Poll(c))

DispatchSpec == DispatchInit /\ [][DispatchNext]_dispatchVars /\ DispatchFairness

-----------------------------------------------------------------------------
(* Properties                                                              *)

\* A caller that is told a run is told the one that its own dispatch made, also after
\* an earlier dispatch of its was answered by silence.
RunsAreOwn == \A c \in Callers : call[c].at = "ATTRIBUTED" => made[call[c].run].by = c

\* A caller is told a run only when no other run made since its call is listed: of
\* several it is told that it cannot be known.
NoGuessing ==
  [][\A c \in Callers :
       call[c].at = "POLLING" /\ call'[c].at = "ATTRIBUTED" =>
         ~\E r \in Listed \ {call'[c].run} :
            r \notin call[c].prior /\ made[r].born >= call[c].since]_dispatchVars

\* Workflow dispatch: callers that keep apart are told the run that their own dispatch
\* made, also after one that was answered by silence; and no caller is told a run when
\* another one made since its call is listed.
AttributionsAreOwn == [](apart => RunsAreOwn) /\ NoGuessing

\* A dispatch that was answered comes to an end.
CallsEnd == \A c \in Callers : call[c].at = "POLLING" ~> call[c].at # "POLLING"
=============================================================================
