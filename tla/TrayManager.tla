---------------------------- MODULE TrayManager ----------------------------
(***************************************************************************)
(* internal/tray/manager.go: the runs behind the saved tunnels of the tray *)
(* widget, and the clicks of tray.go that start, stop and forget them.     *)
(*                                                                         *)
(* Every menu item has a goroutine of its own, so clicks on different      *)
(* items run at once.  A click is a program counter; a step is one section *)
(* under Manager.mu or run.mu, one cancel, or one wait.  The agent of a    *)
(* run is reduced to what client.Agent.Run shows its Handler: see Agent    *)
(* for what is inside.  A run's reason (Status.Err), its counters and its  *)
(* target are left out.                                                    *)
(***************************************************************************)
EXTENDS Naturals, FiniteSets

CONSTANTS
    Names,     \* saved tunnels
    Runs,      \* bound: agents ever started
    NoRun,
    Clicks,    \* bound: clicks ever made
    Kinds      \* of clicks; "start" is the autostart or the new-tunnel form

ASSUME TrayAssumption ==
    /\ NoRun \notin Runs /\ Names # {}
    /\ IsFiniteSet(Runs)
    /\ Kinds \subseteq {"toggle", "forget", "start", "quit"}

VARIABLES
    runs,       \* Manager.runs
    saved,      \* the config still has the tunnel
    state,      \* Status.State of each run, "fresh" before it exists
    named,      \* the name each run was started under
    cancelled,  \* the context of each run is done
    agent,      \* where the goroutine of each run is
    outcome,    \* what its latest session, then Run, returned
    done,       \* run.done is closed
    click,      \* where each click is
    kind,       \* what it is
    target,     \* the name it is about
    held,       \* the run Stop has looked up
    todo        \* the runs StopAll has still to cancel or to wait for

runVars   == <<state, named, cancelled, agent, outcome, done>>
clickVars == <<click, kind, target, held, todo>>
vars == <<runs, saved, runVars, clickVars>>

AgentPC == {"none", "dial", "serve", "over", "notify", "wait", "returned", "reported", "finished"}
ClickPC == {"idle", "look", "config", "start", "lookup", "cancel", "wait", "delete", "unsave",
            "gather", "cancelAll", "waitAll", "done"}

TypeOK ==
    /\ runs \in [Names -> Runs \cup {NoRun}]
    /\ saved \in [Names -> BOOLEAN]
    /\ state \in [Runs -> {"fresh", "connecting", "up", "reconnecting", "stopped", "failed"}]
    /\ named \in [Runs -> Names]
    /\ cancelled \in [Runs -> BOOLEAN]
    /\ agent \in [Runs -> AgentPC]
    /\ outcome \in [Runs -> {"nil", "lost", "refused", "told"}]
    /\ done \in [Runs -> BOOLEAN]
    /\ click \in [Clicks -> ClickPC]
    /\ kind \in [Clicks -> Kinds]
    /\ target \in [Clicks -> Names]
    /\ held \in [Clicks -> Runs \cup {NoRun}]
    /\ todo \in [Clicks -> SUBSET Runs]

Init ==
    /\ runs = [n \in Names |-> NoRun]
    /\ saved = [n \in Names |-> TRUE]
    /\ state = [r \in Runs |-> "fresh"]
    /\ named = [r \in Runs |-> CHOOSE n \in Names : TRUE]
    /\ cancelled = [r \in Runs |-> FALSE]
    /\ agent = [r \in Runs |-> "none"]
    /\ outcome = [r \in Runs |-> "nil"]
    /\ done = [r \in Runs |-> FALSE]
    /\ click = [k \in Clicks |-> "idle"]
    /\ kind \in [Clicks -> Kinds]
    /\ target \in [Clicks -> Names]
    /\ held = [k \in Clicks |-> NoRun]
    /\ todo = [k \in Clicks |-> {}]

\* Status.Active.
Active(r) == state[r] \in {"connecting", "up", "reconnecting"}

ActiveName(n) == runs[n] # NoRun /\ Active(runs[n])

Go(k, from, to) == click[k] = from /\ click' = [click EXCEPT ![k] = to]

-----------------------------------------------------------------------------
(* Clicks.                                                                 *)

First(what) ==
    CASE what = "toggle" -> "look"
      [] what = "forget" -> "lookup"
      [] what = "start"  -> "config"
      [] what = "quit"   -> "gather"

\* quitOnce: only the first quit does anything.
Click(k) ==
    /\ kind[k] = "quit" => \A j \in Clicks : kind[j] = "quit" => click[j] = "idle"
    /\ Go(k, "idle", First(kind[k]))
    /\ UNCHANGED <<runs, saved, runVars, kind, target, held, todo>>

\* toggleSaved: stop what the snapshot shows active, start anything else.
Look(k) ==
    /\ Go(k, "look", IF ActiveName(target[k]) THEN "lookup" ELSE "config")
    /\ UNCHANGED <<runs, saved, runVars, kind, target, held, todo>>

\* ui.start: the tunnel as the config has it.
FindSaved(k) ==
    /\ Go(k, "config", IF saved[target[k]] THEN "start" ELSE "done")
    /\ UNCHANGED <<runs, saved, runVars, kind, target, held, todo>>

\* Manager.Start, under m.mu: a name that is active is left alone.
StartNothing(k) ==
    /\ ActiveName(target[k])
    /\ Go(k, "start", "done")
    /\ UNCHANGED <<runs, saved, runVars, kind, target, held, todo>>

Launch(k, r) ==
    /\ state[r] = "fresh"
    /\ Go(k, "start", "done")
    /\ runs' = [runs EXCEPT ![target[k]] = r]
    /\ named' = [named EXCEPT ![r] = target[k]]
    /\ state' = [state EXCEPT ![r] = "connecting"]
    /\ agent' = [agent EXCEPT ![r] = "dial"]
    /\ UNCHANGED <<saved, cancelled, outcome, done, kind, target, held, todo>>

\* Mutant of Start: a run that is there already is replaced.
StartAnyway(k) == \E r \in Runs : Launch(k, r)

Start(k) == ~ActiveName(target[k]) /\ \E r \in Runs : Launch(k, r)

\* Manager.Stop: look the run up, cancel it, wait for it two seconds at most.
StopLookup(k) ==
    /\ held' = [held EXCEPT ![k] = runs[target[k]]]
    /\ Go(k, "lookup", IF runs[target[k]] # NoRun THEN "cancel"
                       ELSE IF kind[k] = "forget" THEN "delete" ELSE "done")
    /\ UNCHANGED <<runs, saved, runVars, kind, target, todo>>

StopCancel(k) ==
    /\ Go(k, "cancel", "wait")
    /\ cancelled' = [cancelled EXCEPT ![held[k]] = TRUE]
    /\ UNCHANGED <<runs, saved, state, named, agent, outcome, done, kind, target, held, todo>>

\* Over with or without the run.
StopWait(k) ==
    /\ Go(k, "wait", IF kind[k] = "forget" THEN "delete" ELSE "done")
    /\ UNCHANGED <<runs, saved, runVars, kind, target, held, todo>>

\* Manager.Forget, after Stop: whatever is under the name is dropped.
ForgetDelete(k) ==
    /\ Go(k, "delete", "unsave")
    /\ runs' = [runs EXCEPT ![target[k]] = NoRun]
    /\ UNCHANGED <<saved, runVars, kind, target, held, todo>>

\* forgetSaved, after Forget.
Unsave(k) ==
    /\ Go(k, "unsave", "done")
    /\ saved' = [saved EXCEPT ![target[k]] = FALSE]
    /\ UNCHANGED <<runs, runVars, kind, target, held, todo>>

\* Manager.StopAll: the runs of the moment, cancelled, then waited for.
Known == {runs[n] : n \in Names} \ {NoRun}

Gather(k) ==
    /\ Go(k, "gather", "cancelAll")
    /\ todo' = [todo EXCEPT ![k] = Known]
    /\ UNCHANGED <<runs, saved, runVars, kind, target, held>>

CancelOne(k) ==
    /\ click[k] = "cancelAll"
    /\ \E r \in todo[k] :
          /\ todo' = [todo EXCEPT ![k] = @ \ {r}]
          /\ cancelled' = [cancelled EXCEPT ![r] = TRUE]
    /\ UNCHANGED <<runs, saved, state, named, agent, outcome, done, click, kind, target, held>>

CancelledAll(k) ==
    /\ todo[k] = {}
    /\ Go(k, "cancelAll", "waitAll")
    /\ UNCHANGED <<runs, saved, runVars, kind, target, held, todo>>

\* One deadline for all of them, then systray.Quit.
WaitAll(k) ==
    /\ Go(k, "waitAll", "done")
    /\ UNCHANGED <<runs, saved, runVars, kind, target, held, todo>>

ClickStep(k) ==
    \/ Look(k) \/ FindSaved(k) \/ StartNothing(k) \/ Start(k)
    \/ StopLookup(k) \/ StopCancel(k) \/ StopWait(k) \/ ForgetDelete(k) \/ Unsave(k)
    \/ Gather(k) \/ CancelOne(k) \/ CancelledAll(k) \/ WaitAll(k)

-----------------------------------------------------------------------------
(* The agent of a run, and its callbacks.                                  *)

Moves(r, from, to) == agent[r] = from /\ agent' = [agent EXCEPT ![r] = to]

\* OnConnect.  A cancellation may come while the handshake is under way.
Connects(r) ==
    /\ Moves(r, "dial", "serve")
    /\ state' = [state EXCEPT ![r] = "up"]
    /\ UNCHANGED <<runs, saved, named, cancelled, outcome, done, clickVars>>

\* An attempt fails or is refused; a session is lost or closed for good.
AttemptEnds(r) ==
    /\ Moves(r, "dial", "over")
    /\ outcome' \in {[outcome EXCEPT ![r] = o] : o \in {"lost", "refused"}}
    /\ UNCHANGED <<runs, saved, state, named, cancelled, done, clickVars>>

SessionEnds(r) ==
    /\ Moves(r, "serve", "over")
    /\ outcome' \in {[outcome EXCEPT ![r] = o] : o \in {"lost", "told"}}
    /\ UNCHANGED <<runs, saved, state, named, cancelled, done, clickVars>>

\* Mutant of Interrupted: a session ends by itself or not at all.
NeverInterrupted(r) == r \notin Runs /\ UNCHANGED vars

\* The goroutine that closes the session of a cancelled run.
Interrupted(r) ==
    /\ cancelled[r]
    /\ Moves(r, "serve", "over")
    /\ outcome' = [outcome EXCEPT ![r] = "nil"]
    /\ UNCHANGED <<runs, saved, state, named, cancelled, done, clickVars>>

\* Run decides whether to go on.
Decides(r) ==
    /\ Moves(r, "over", IF cancelled[r] \/ outcome[r] # "lost" THEN "returned" ELSE "notify")
    /\ UNCHANGED <<runs, saved, state, named, cancelled, outcome, done, clickVars>>

\* OnDisconnect.
Disconnects(r) ==
    /\ Moves(r, "notify", "wait")
    /\ state' = [state EXCEPT ![r] = "reconnecting"]
    /\ UNCHANGED <<runs, saved, named, cancelled, outcome, done, clickVars>>

\* A dial with a cancelled context would fail and return likewise.
Retries(r) ==
    /\ Moves(r, "wait", IF cancelled[r] THEN "returned" ELSE "dial")
    /\ UNCHANGED <<runs, saved, state, named, cancelled, outcome, done, clickVars>>

\* Mutant of Reports: the run is done before its status says so.
ReportsLate(r) ==
    /\ \/ Moves(r, "returned", "reported") /\ done' = [done EXCEPT ![r] = TRUE]
          /\ UNCHANGED state
       \/ Moves(r, "reported", "finished") /\ UNCHANGED done
          /\ state' = [state EXCEPT ![r] = IF cancelled[r] THEN "stopped" ELSE "failed"]
    /\ UNCHANGED <<runs, saved, named, cancelled, outcome, clickVars>>

\* The goroutine Start launched: the final status, then done.
Reports(r) ==
    /\ \/ Moves(r, "returned", "reported") /\ UNCHANGED done
          /\ state' = [state EXCEPT ![r] = IF cancelled[r] THEN "stopped" ELSE "failed"]
       \/ Moves(r, "reported", "finished") /\ done' = [done EXCEPT ![r] = TRUE]
          /\ UNCHANGED state
    /\ UNCHANGED <<runs, saved, named, cancelled, outcome, clickVars>>

AgentStep(r) ==
    \/ Connects(r) \/ AttemptEnds(r) \/ Interrupted(r)
    \/ Decides(r) \/ Disconnects(r) \/ Retries(r) \/ Reports(r)

Next ==
    \/ \E k \in Clicks : Click(k) \/ ClickStep(k)
    \/ \E r \in Runs : AgentStep(r) \/ SessionEnds(r)

Spec == Init /\ [][Next]_vars

\* Every goroutine runs; nobody has to click, and no server has to end a
\* session.
FairSpec ==
    /\ Spec
    /\ \A k \in Clicks : WF_vars(ClickStep(k))
    /\ \A r \in Runs : WF_vars(AgentStep(r))

-----------------------------------------------------------------------------
(* Properties.                                                             *)

Running(r) == agent[r] \in {"dial", "serve", "over", "notify", "wait"}

\* A Forget of r's name has looked up, and stopped, another run than r.
ForgottenInstead(r) ==
    \E k \in Clicks :
        kind[k] = "forget" /\ click[k] \in {"unsave", "done"}
        /\ target[k] = named[r] /\ held[k] # r

\* No agent runs on out of sight: one that is not under its name any more was
\* cancelled, unless a Forget that had stopped another run dropped it.
UnseenOnlyByForget ==
    \A r \in Runs :
        Running(r) /\ ~cancelled[r] => runs[named[r]] = r \/ ForgottenInstead(r)

\* A run that Stop has waited for does not keep its name from being started
\* again, and one that never was cancelled is not shown as stopped.
StatusSettles ==
    \A r \in Runs :
        /\ done[r] => ~Active(r)
        /\ state[r] = "stopped" => cancelled[r]

\* A status follows the agent it is about.
StatusFollowsAgent ==
    \A r \in Runs :
        /\ state[r] = "fresh" <=> agent[r] = "none"
        /\ Running(r) \/ agent[r] = "returned" => Active(r)
        /\ agent[r] \in {"reported", "finished"} <=> state[r] \in {"stopped", "failed"}
        /\ done[r] => agent[r] = "finished"

\* What Stop waits for it has cancelled, and only Forget drops a name.
StopCancels ==
    \A k \in Clicks :
        /\ click[k] = "cancel" => held[k] # NoRun
        /\ click[k] \in {"wait", "delete"} /\ held[k] # NoRun => cancelled[held[k]]
        /\ click[k] \in {"delete", "unsave"} => kind[k] = "forget"

IInv == TypeOK /\ StatusFollowsAgent /\ StopCancels /\ UnseenOnlyByForget /\ StatusSettles

\* A cancelled run ends, whether it is connecting, serving or waiting.
CancelledRunFinishes == \A r \in Runs : cancelled[r] ~> done[r]

=============================================================================
