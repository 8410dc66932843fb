-------------------------- MODULE PipelineManager --------------------------
(***************************************************************************)
(* PipelineManager (aeon-engine/src/pipeline_manager.rs): what each of its *)
(* operations makes of the definition of one pipeline.  Every operation    *)
(* holds the write lock from its first look at the definition to its last  *)
(* assignment, so it is a function from a definition to an outcome:        *)
(* whether it succeeds, the new definition, and the history it records.    *)
(***************************************************************************)
EXTENDS Naturals, Sequences

CONSTANTS
  Processors,   \* processor references
  Steps         \* the traffic percentages of a canary upgrade

None == "none"
PipelineStates == {"absent", "created", "running", "stopped", "upgrading", "failed"}

NoUpgrade == [kind |-> "none", from |-> None, to |-> None, step |-> 0]
Upgrades ==
  [kind : {"none", "blueGreen", "canary"}, from : Processors \cup {None},
   to : Processors \cup {None}, step : 0 .. Len(Steps)]

\* A definition; conf stands for the source and sink configuration.
Definitions ==
  [state : PipelineStates, proc : Processors \cup {None}, up : Upgrades, conf : Nat]

Absent == [state |-> "absent", proc |-> None, up |-> NoUpgrade, conf |-> 0]
New(p) == [state |-> "created", proc |-> p, up |-> NoUpgrade, conf |-> 0]

\* A history entry: from_state and to_state.
Went(a, b) == [from |-> a, to |-> b]

Ok(d, h) == [ok |-> TRUE, def |-> d, hist |-> h]
Err(d) == [ok |-> FALSE, def |-> d, hist |-> <<>>]

Create(d, p) ==
  IF d.state = "absent" THEN Ok(New(p), <<Went("created", "created")>>) ELSE Err(d)

Start(d) ==
  CASE d.state \in {"created", "stopped"} ->
         Ok([d EXCEPT !.state = "running"], <<Went(d.state, "running")>>)
    [] d.state = "running" -> Ok(d, <<>>)
    [] OTHER               -> Err(d)

Stop(d) ==
  CASE d.state \in {"running", "upgrading"} ->
         Ok([d EXCEPT !.state = "stopped"], <<Went(d.state, "stopped")>>)
    [] d.state \in {"stopped", "created"} -> Ok(d, <<>>)
    [] OTHER                              -> Err(d)

\* upgrade: through Upgrading and back to Running under one lock.
Upgrade(d, p) ==
  IF d.state = "running"
  THEN Ok([d EXCEPT !.proc = p],
          <<Went("running", "upgrading"), Went("upgrading", "running")>>)
  ELSE Err(d)

\* A definition that runs and has no upgrade goes into one.
Begin(d, up) ==
  IF d.state = "running" /\ d.up.kind = "none"
  THEN Ok([d EXCEPT !.state = "upgrading", !.up = up], <<Went("running", "upgrading")>>)
  ELSE Err(d)

BlueGreen(d, p) == Begin(d, [kind |-> "blueGreen", from |-> d.proc, to |-> p, step |-> 0])
Canary(d, p) == Begin(d, [kind |-> "canary", from |-> d.proc, to |-> p, step |-> 1])

\* cutover looks at the upgrade and not at the state.
Cutover(d) ==
  IF d.up.kind = "blueGreen"
  THEN Ok([d EXCEPT !.state = "running", !.proc = d.up.to, !.up = NoUpgrade],
          <<Went("upgrading", "running")>>)
  ELSE Err(d)

\* Mutant of Rollback: the processor reference keeps the new version.
RollbackKeeps(d) ==
  IF d.up.kind # "none"
  THEN Ok([d EXCEPT !.state = "running", !.proc = d.up.to, !.up = NoUpgrade],
          <<Went("upgrading", "running")>>)
  ELSE Err(d)

Rollback(d) ==
  IF d.up.kind # "none"
  THEN Ok([d EXCEPT !.state = "running", !.proc = d.up.from, !.up = NoUpgrade],
          <<Went("upgrading", "running")>>)
  ELSE Err(d)

\* promote_canary: the next step or, after the last, the end of the upgrade.
Promote(d) ==
  CASE d.up.kind # "canary" -> Err(d)
    [] d.up.kind = "canary" /\ d.up.step < Len(Steps) ->
         Ok([d EXCEPT !.up.step = @ + 1], <<Went("upgrading", "upgrading")>>)
    [] d.up.kind = "canary" /\ d.up.step = Len(Steps) ->
         Ok([d EXCEPT !.state = "running", !.proc = d.up.to, !.up = NoUpgrade],
            <<Went("upgrading", "running")>>)

\* reconfigure_source and reconfigure_sink, with a configuration of the type
\* the pipeline has; one of another type is refused like a wrong state.
Reconfigure(d) ==
  IF d.state = "running"
  THEN Ok([d EXCEPT !.conf = @ + 1], <<Went("running", "running")>>)
  ELSE Err(d)

Delete(d) ==
  IF d.state \in {"absent", "running", "upgrading"} THEN Err(d) ELSE Ok(Absent, <<>>)

---------------------------------------------------------------------------
(* apply: the same operations as committed commands.                        *)

\* apply_set_state takes any state from any other.
ApplySetState(d, s) ==
  IF d.state = "absent" THEN Err(d) ELSE Ok([d EXCEPT !.state = s], <<Went(d.state, s)>>)

\* apply_upgrade changes the reference in any state and records nothing.
ApplyUpgrade(d, p) ==
  IF d.state = "absent" THEN Err(d) ELSE Ok([d EXCEPT !.proc = p], <<>>)

ApplyDelete(d) == IF d.state = "absent" THEN Err(d) ELSE Ok(Absent, <<>>)

-----------------------------------------------------------------------------
(* The processors of one running pipeline task (run_buffered_managed in    *)
(* aeon-engine/src/pipeline.rs) and what each UpgradeAction leaves of them.*)
(* Module ManagedPipeline details how a call reaches the task; here a call *)
(* is its effect.                                                          *)

\* conf stands for the connectors the task was built with.
TaskProcessors ==
  [proc : Processors \cup {None}, green : Processors \cup {None},
   canary : Processors \cup {None}, pct : 0 .. 100, conf : Nat]

NoProcessors == [proc |-> None, green |-> None, canary |-> None, pct |-> 0, conf |-> 0]

\* A task built from definition d; an upgrade in progress is not rebuilt.
Built(d) == [NoProcessors EXCEPT !.proc = d.proc, !.conf = d.conf]

Swapped(t, p) == [t EXCEPT !.proc = p]
WithGreen(t, p) == [t EXCEPT !.green = p]
WithCanary(t, p, pct) == [t EXCEPT !.canary = p, !.pct = pct]
WithPct(t, pct) == [t EXCEPT !.pct = pct]
CutOver(t) == [t EXCEPT !.proc = IF t.green = None THEN @ ELSE t.green, !.green = None]
Completed(t) ==
  [t EXCEPT !.proc = IF t.canary = None THEN @ ELSE t.canary, !.canary = None, !.pct = 0]
RolledBack(t) == [t EXCEPT !.green = None, !.canary = None, !.pct = 0]

\* The processors whose outputs reach the sink, as definition d declares it
\* and as task t routes its events.
DeclaredShare(d) ==
  CASE d.up.kind = "none"      -> {d.proc}
    [] d.up.kind = "blueGreen" -> {d.up.from}
    [] d.up.kind = "canary"    -> IF Steps[d.up.step] >= 100 THEN {d.up.to}
                                  ELSE {d.up.from, d.up.to}
RoutedShare(t) ==
  CASE t.canary = None \/ t.pct = 0 -> {t.proc}
    [] t.canary # None /\ t.pct >= 100 -> {t.canary}
    [] t.canary # None /\ t.pct \in 1 .. 99 -> {t.proc, t.canary}
=============================================================================
