----------------------------- MODULE TrayProofs -----------------------------
(***************************************************************************)
(* The tray's runs, for any number of names, runs and clicks: none runs on *)
(* out of sight, and what a status says of a run is so.                    *)
(***************************************************************************)
EXTENDS TrayManager, TLAPS

\* A click's own step.
LEMMA ClickKeeps ==
    ASSUME IInv, NEW k \in Clicks, Click(k) \/ ClickStep(k)
    PROVE  IInv'
  <1> USE TrayAssumption DEF IInv, Go, runVars
  <1>1. TypeOK'
    <2> USE DEF TypeOK, ClickPC, AgentPC
    <2>1. CASE Click(k)
      <3>1. kind[k] \in {"toggle", "forget", "start", "quit"}
        OBVIOUS
      <3>2. First(kind[k]) \in {"look", "lookup", "config", "gather"}
        BY <3>1 DEF First
      <3>3. QED
        BY <2>1, <3>2 DEF Click
    <2>2. CASE Look(k) \/ FindSaved(k) \/ StartNothing(k)
      BY <2>2 DEF Look, FindSaved, StartNothing
    <2>3. ASSUME NEW r \in Runs, Launch(k, r)
          PROVE  TypeOK'
      <3>1. target[k] \in Names
        OBVIOUS
      <3>2. runs' \in [Names -> Runs \cup {NoRun}] /\ named' \in [Runs -> Names]
        BY <2>3, <3>1 DEF Launch
      <3>3. QED
        BY <2>3, <3>2 DEF Launch
    <2>4. CASE StopLookup(k)
      <3>1. runs[target[k]] \in Runs \cup {NoRun}
        OBVIOUS
      <3>2. held' \in [Clicks -> Runs \cup {NoRun}]
        BY <2>4, <3>1 DEF StopLookup
      <3>3. click' \in [Clicks -> ClickPC]
        BY <2>4 DEF StopLookup
      <3>4. QED
        BY <2>4, <3>2, <3>3 DEF StopLookup
    <2>8. CASE StopCancel(k)
      BY <2>8 DEF StopCancel
    <2>9. CASE StopWait(k)
      BY <2>9 DEF StopWait
    <2>5. CASE ForgetDelete(k) \/ Unsave(k)
      BY <2>5 DEF ForgetDelete, Unsave
    <2>6. CASE Gather(k)
      <3>1. Known \subseteq Runs
        BY DEF Known
      <3>2. QED
        BY <2>6, <3>1 DEF Gather
    <2>7. CASE CancelOne(k)
      <3>1. PICK r \in todo[k] : /\ todo' = [todo EXCEPT ![k] = @ \ {r}]
                                 /\ cancelled' = [cancelled EXCEPT ![r] = TRUE]
        BY <2>7 DEF CancelOne
      <3>2. todo[k] \ {r} \subseteq Runs
        OBVIOUS
      <3>3. todo' \in [Clicks -> SUBSET Runs] /\ cancelled' \in [Runs -> BOOLEAN]
        BY <3>1, <3>2
      <3>4. QED
        BY <2>7, <3>3 DEF CancelOne
    <2>10. CASE CancelledAll(k) \/ WaitAll(k)
      BY <2>10 DEF CancelledAll, WaitAll
    <2>11. QED
      BY <2>1, <2>2, <2>3, <2>4, <2>5, <2>6, <2>7, <2>8, <2>9, <2>10 DEF ClickStep, Start
  <1> USE DEF TypeOK
  <1>2. CASE Click(k)
    <2>1. kind[k] \in {"toggle", "forget", "start", "quit"}
      OBVIOUS
    <2>2. First(kind[k]) \in {"look", "lookup", "config", "gather"}
      BY <2>1 DEF First
    <2>3. QED
      BY <1>1, <1>2, <2>2 DEF Click, StatusFollowsAgent, StopCancels, UnseenOnlyByForget, StatusSettles,
        Running, Active, ForgottenInstead
  <1>3. CASE Look(k) \/ FindSaved(k) \/ StartNothing(k)
    BY <1>1, <1>3 DEF Look, FindSaved, StartNothing, StatusFollowsAgent, StopCancels, UnseenOnlyByForget,
      StatusSettles, Running, Active, ForgottenInstead
  <1>4. ASSUME NEW r \in Runs, ~ActiveName(target[k]), Launch(k, r)
        PROVE  IInv'
    <2>1. StatusFollowsAgent' /\ StatusSettles'
      BY <1>4 DEF Launch, StatusFollowsAgent, StatusSettles, Running, Active
    <2>2. StopCancels'
      BY <1>4 DEF Launch, StopCancels
    <2>3. UnseenOnlyByForget'
      <3>1. ASSUME NEW s \in Runs, Running(s)', ~cancelled'[s], s # r
            PROVE  runs'[named'[s]] = s \/ ForgottenInstead(s)'
        <4>1. Running(s) /\ ~cancelled[s] /\ named'[s] = named[s] /\ Active(s)
          BY <1>4, <3>1 DEF Launch, Running, StatusFollowsAgent
        <4>2. runs[named[s]] = s => named[s] # target[k]
          BY <1>4, <4>1 DEF ActiveName
        <4>3. ForgottenInstead(s) => ForgottenInstead(s)'
          BY <1>4, <4>1 DEF Launch, ForgottenInstead
        <4>4. QED
          BY <1>4, <4>1, <4>2, <4>3 DEF Launch, UnseenOnlyByForget
      <3>2. runs'[named'[r]] = r
        BY <1>4 DEF Launch
      <3>3. QED
        BY <3>1, <3>2 DEF UnseenOnlyByForget
    <2>4. QED
      BY <1>1, <2>1, <2>2, <2>3
  <1>5. CASE StopLookup(k) \/ StopCancel(k) \/ StopWait(k)
    BY <1>1, <1>5 DEF StopLookup, StopCancel, StopWait, StatusFollowsAgent, StopCancels, UnseenOnlyByForget,
      StatusSettles, Running, Active, ForgottenInstead
  <1>6. CASE ForgetDelete(k)
    <2>1. StatusFollowsAgent' /\ StatusSettles' /\ StopCancels'
      BY <1>6 DEF ForgetDelete, StatusFollowsAgent, StatusSettles, StopCancels, Running, Active
    <2>2. UnseenOnlyByForget'
      <3>1. ASSUME NEW s \in Runs, Running(s), ~cancelled[s], named[s] = target[k], runs[target[k]] = s
            PROVE  ForgottenInstead(s)'
        BY <1>6, <3>1 DEF ForgetDelete, StopCancels, ForgottenInstead
      <3>2. QED
        BY <1>6, <3>1 DEF ForgetDelete, UnseenOnlyByForget, Running, ForgottenInstead
    <2>3. QED
      BY <1>1, <2>1, <2>2
  <1>7. CASE Unsave(k) \/ Gather(k) \/ CancelOne(k) \/ CancelledAll(k) \/ WaitAll(k)
    BY <1>1, <1>7 DEF Unsave, Gather, CancelOne, CancelledAll, WaitAll, StatusFollowsAgent, StopCancels,
      UnseenOnlyByForget, StatusSettles, Running, Active, ForgottenInstead
  <1>8. QED
    BY <1>2, <1>3, <1>4, <1>5, <1>6, <1>7 DEF ClickStep, Start

\* A step of a run's agent, or of its server.
LEMMA AgentKeeps ==
    ASSUME IInv, NEW r \in Runs, AgentStep(r) \/ SessionEnds(r)
    PROVE  IInv'
  <1> USE DEF IInv, Moves, clickVars, TypeOK, AgentPC
  <1>1. CASE Connects(r)
    BY <1>1 DEF Connects, StatusFollowsAgent, StopCancels, UnseenOnlyByForget,
      StatusSettles, Running, Active, ForgottenInstead
  <1>2. CASE Disconnects(r)
    BY <1>2 DEF Disconnects, StatusFollowsAgent, StopCancels, UnseenOnlyByForget,
      StatusSettles, Running, Active, ForgottenInstead
  <1>3. CASE AttemptEnds(r) \/ SessionEnds(r) \/ Interrupted(r)
    <2>1. PICK o \in {"nil", "lost", "refused", "told"} : outcome' = [outcome EXCEPT ![r] = o]
      BY <1>3 DEF AttemptEnds, SessionEnds, Interrupted
    <2>2. /\ agent[r] \in {"dial", "serve"} /\ agent' = [agent EXCEPT ![r] = "over"]
          /\ UNCHANGED <<runs, saved, state, named, cancelled, done, clickVars>>
      BY <1>3 DEF AttemptEnds, SessionEnds, Interrupted
    <2>3. TypeOK'
      BY <2>1, <2>2
    <2>4. StatusFollowsAgent' /\ StatusSettles'
      BY <2>2 DEF StatusFollowsAgent, StatusSettles, Running, Active
    <2>5. StopCancels'
      BY <2>2 DEF StopCancels
    <2>6. UnseenOnlyByForget'
      BY <2>2 DEF UnseenOnlyByForget, Running, ForgottenInstead
    <2>7. QED
      BY <2>3, <2>4, <2>5, <2>6
  <1>4. CASE Decides(r) \/ Retries(r)
    BY <1>4 DEF Decides, Retries, StatusFollowsAgent, StopCancels, UnseenOnlyByForget,
      StatusSettles, Running, Active, ForgottenInstead
  <1>5. CASE Reports(r)
    <2>1. TypeOK'
      BY <1>5 DEF Reports
    <2>2. StatusFollowsAgent'
      BY <1>5 DEF Reports, StatusFollowsAgent, Running, Active
    <2>3. StatusSettles'
      BY <1>5 DEF Reports, StatusFollowsAgent, StatusSettles, Running, Active
    <2>4. StopCancels'
      BY <1>5 DEF Reports, StopCancels
    <2>5. UnseenOnlyByForget'
      BY <1>5 DEF Reports, UnseenOnlyByForget, Running, ForgottenInstead
    <2>6. QED
      BY <2>1, <2>2, <2>3, <2>4, <2>5
  <1>6. QED
    BY <1>1, <1>2, <1>3, <1>4, <1>5 DEF AgentStep

\* What the invariant says holds of every run and click, in every state.
THEOREM TrayInvariance == Spec => []IInv
  <1>1. Init => IInv
    BY TrayAssumption DEF Init, IInv, TypeOK, AgentPC, ClickPC, StatusFollowsAgent, StopCancels,
      UnseenOnlyByForget, StatusSettles, Running, Active, ForgottenInstead
  <1>2. IInv /\ [Next]_vars => IInv'
    <2> SUFFICES ASSUME IInv, [Next]_vars PROVE IInv'
      OBVIOUS
    <2>1. CASE UNCHANGED vars
      BY <2>1 DEF vars, runVars, clickVars, IInv, TypeOK, StatusFollowsAgent, StopCancels,
        UnseenOnlyByForget, StatusSettles, Running, Active, ForgottenInstead
    <2>2. QED
      BY <2>1, ClickKeeps, AgentKeeps DEF Next
  <1>3. QED
    BY <1>1, <1>2, PTL DEF Spec

\* No agent runs on under a name that is not its own any more, but for the one
\* race of two Forgets with a Start.
THEOREM NoAgentUnseen == Spec => []UnseenOnlyByForget
  <1>1. IInv => UnseenOnlyByForget
    BY DEF IInv
  <1>2. QED
    BY <1>1, TrayInvariance, PTL

\* A run that is done is not shown as active, nor one as stopped that was not.
THEOREM StatusesSettle == Spec => []StatusSettles
  <1>1. IInv => StatusSettles
    BY DEF IInv
  <1>2. QED
    BY <1>1, TrayInvariance, PTL
=============================================================================
