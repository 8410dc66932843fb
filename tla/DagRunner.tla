----------------------------- MODULE DagRunner -----------------------------
(* The runners that move batches in one task, without rings: run,           *)
(* run_with_delivery (no failures), run_fan_in, run_fan_out,                *)
(* run_fan_in_fan_out, run_chain and run_routed.  All poll sources in a     *)
(* round, process the batch and write it sink after sink; they differ in    *)
(* what an empty batch means, in the shares the sinks get and in what the   *)
(* processors see.  Sources, processors and sinks are external.             *)
EXTENDS Naturals, Sequences, FiniteSets, SequencesExt

CONSTANTS
    Shape,      \* "linear", "fan", "chain" or "routed"
    Sources,    \* 1 .. N
    Sinks,      \* 1 .. M; for "routed", the branches
    Inputs,     \* what the sources return: for each a sequence of batches
    Kind,       \* SourceKind of a linear source
    Route(_),   \* the router function
    Fails,      \* a call of a source, processor or sink may return an error
    Partial,    \* a write may succeed with failed outputs in its BatchResult
    Stops       \* somebody may ask for shutdown

VARIABLES
    input,       \* one of Inputs
    pc,          \* "top", "poll", "process", "write", "flush", "ok", "error"
    at,          \* the source polled next
    pos,         \* batches taken from each source
    exhausted, anyActive,
    batch,       \* the batch in hand
    shares,      \* writes still to do for it: sink and outputs
    written,     \* what each sink holds
    flushed,     \* sinks flushed
    sent,        \* metrics.outputs_sent
    shutdown

vars == <<input, pc, at, pos, exhausted, anyActive, batch, shares, written, flushed,
          sent, shutdown>>

Init ==
    /\ input \in Inputs
    /\ pc = "top" /\ at = 1
    /\ pos = [s \in Sources |-> 0]
    /\ exhausted = {} /\ anyActive = FALSE
    /\ batch = <<>> /\ shares = <<>>
    /\ written = [k \in Sinks |-> <<>>]
    /\ flushed = {} /\ sent = 0
    /\ shutdown = FALSE

\* while !shutdown { let mut any_active = false; ... }
Top ==
    /\ pc = "top"
    /\ IF shutdown THEN pc' = "flush" ELSE pc' = "poll"
    /\ at' = 1 /\ anyActive' = FALSE
    /\ UNCHANGED <<input, pos, exhausted, batch, shares, written, flushed, sent, shutdown>>

Fail == Fails /\ pc' = "error"

\* After the last source of a round: no source was active ends the run.
EndOfRound == IF anyActive THEN "top" ELSE "flush"

\* The next source of the round.
Onward == IF at = Cardinality(Sources)
          THEN pc' = EndOfRound /\ UNCHANGED at
          ELSE pc' = "poll" /\ at' = at + 1

\* A source that was exhausted is passed over.
Pass ==
    /\ pc = "poll" /\ at \in exhausted
    /\ Onward
    /\ UNCHANGED <<input, pos, exhausted, anyActive, batch, shares, written, flushed, sent,
                   shutdown>>

\* What the source has next; at the end of a finite source, nothing.
Offered == IF pos[at] < Len(input[at]) THEN input[at][pos[at] + 1] ELSE <<>>

\* next_batch returned nothing.  fan-in marks the source exhausted, run breaks
\* for a pull source and asks again for another kind, fan-out, chain and
\* routed break.
Empty ==
    /\ pc = "poll" /\ at \notin exhausted /\ Offered = <<>>
    /\ pos' = [pos EXCEPT ![at] = IF @ < Len(input[at]) THEN @ + 1 ELSE @]
    /\ \/ /\ Shape = "linear" /\ Kind # "pull"
          /\ pc' = "top" /\ UNCHANGED <<at, exhausted>>
       \/ /\ Shape \in {"chain", "routed"} \/ (Shape = "linear" /\ Kind = "pull")
          /\ pc' = "flush" /\ UNCHANGED <<at, exhausted>>
       \/ /\ Shape = "fan"
          /\ exhausted' = exhausted \cup {at}
          /\ Onward
    /\ UNCHANGED <<input, anyActive, batch, shares, written, flushed, sent, shutdown>>

Poll ==
    /\ pc = "poll" /\ at \notin exhausted
    /\ \/ /\ Offered # <<>>
          /\ batch' = Offered
          /\ pos' = [pos EXCEPT ![at] = @ + 1]
          /\ anyActive' = TRUE
          /\ pc' = "process"
       \/ Fail /\ UNCHANGED <<batch, pos, anyActive>>
    /\ UNCHANGED <<input, at, exhausted, shares, written, flushed, sent, shutdown>>

Destination == 0   \* the name a processor sends its outputs to

\* The processor answers an event with one output that names it.
Output(e) == [id |-> e.id, source |-> e.source]

\* Output::into_event as run_chain calls it.
IntoEvent(o) == [id |-> o.id, source |-> Destination]

\* What the sinks get for a batch: in a chain the second processor sees the
\* first one's outputs as events.
Processed(b) ==
    [i \in 1 .. Len(b) |->
        IF Shape = "chain" THEN Output(IntoEvent(Output(b[i]))) ELSE Output(b[i])]

\* Mutant of Shares: the last sink is left out.
SharesButLast(b) ==
    [k \in Sinks \ {Cardinality(Sinks)} |-> [sink |-> k, outputs |-> Processed(b)]]

\* The writes for a batch, in order: each branch its bucket, without the empty
\* ones, or every sink everything.
Shares(b) ==
    LET Bucket(k) == Processed(SelectSeq(b, LAMBDA e : Route(e) = k))
    IN  IF Shape = "routed"
        THEN SelectSeq([k \in Sinks |-> [sink |-> k, outputs |-> Bucket(k)]],
                       LAMBDA w : w.outputs # <<>>)
        ELSE [k \in Sinks |-> [sink |-> k, outputs |-> Processed(b)]]

Process ==
    /\ pc = "process"
    /\ \/ shares' = Shares(batch) /\ pc' = "write"
       \/ Fail /\ UNCHANGED shares
    /\ UNCHANGED <<input, at, pos, exhausted, anyActive, batch, written, flushed, sent,
                   shutdown>>

\* outputs_sent counts an output once, however many sinks it goes to.
Counted == IF Shape = "routed" THEN Len(SelectSeq(batch, LAMBDA e : Route(e) \in Sinks))
           ELSE Len(batch)

\* What a sink takes of a write that returns Ok.
Accepted(q) == {q} \cup IF Partial THEN {SubSeq(q, 1, Len(q) - 1)} ELSE {}

\* One write_batch; after the last one the counters, and the next source.
Write ==
    /\ pc = "write"
    /\ \/ /\ shares # <<>>
          /\ \E q \in Accepted(Head(shares).outputs) :
                written' = [written EXCEPT ![Head(shares).sink] = @ \o q]
          /\ shares' = Tail(shares)
          /\ UNCHANGED <<pc, at, batch, sent>>
       \/ /\ shares = <<>>
          /\ sent' = sent + Counted
          /\ batch' = <<>>
          /\ IF Shape = "fan" THEN Onward ELSE pc' = "top" /\ UNCHANGED at
          /\ UNCHANGED <<written, shares>>
       \/ shares # <<>> /\ Fail /\ UNCHANGED <<at, batch, written, shares, sent>>
    /\ UNCHANGED <<input, pos, exhausted, anyActive, flushed, shutdown>>

Flush ==
    /\ pc = "flush"
    /\ \/ \E k \in Sinks : /\ k = Cardinality(flushed) + 1
                           /\ flushed' = flushed \cup {k} /\ UNCHANGED pc
       \/ flushed = Sinks /\ pc' = "ok" /\ UNCHANGED flushed
       \/ flushed # Sinks /\ Fail /\ UNCHANGED flushed
    /\ UNCHANGED <<input, at, pos, exhausted, anyActive, batch, shares, written, sent,
                   shutdown>>

Shutdown ==
    /\ Stops /\ ~shutdown /\ pc \notin {"ok", "error"}
    /\ shutdown' = TRUE
    /\ UNCHANGED <<input, pc, at, pos, exhausted, anyActive, batch, shares, written, flushed,
                   sent>>

Step == Top \/ Pass \/ Empty \/ Poll \/ Process \/ Write \/ Flush

Next == Step \/ Shutdown

\* The task is polled until it ends.
Spec == Init /\ [][Next]_vars /\ WF_vars(Step)

-----------------------------------------------------------------------------
(* Properties                                                                *)

TypeOK ==
    /\ pc \in {"top", "poll", "process", "write", "flush", "ok", "error"}
    /\ at \in Sources /\ exhausted \subseteq Sources
    /\ \A s \in Sources : pos[s] \in 0 .. Len(input[s])
    /\ shares # <<>> => pc \in {"write", "error"}
    /\ batch # <<>> => pc \in {"process", "write", "error"}
    /\ flushed \in SUBSET Sinks

Ids(q)      == [i \in 1 .. Len(q) |-> q[i].id]
Taken(s)    == FlattenSeq(SubSeq(input[s], 1, pos[s]))
Wanted(s, k) == Ids(SelectSeq(Taken(s), LAMBDA e : Shape = "routed" => Route(e) = k))
OfSource(s, k) == SelectSeq(Ids(written[k]), LAMBDA i : i[1] = s)

\* Whatever a source handed out reaches every sink it is meant for, in the
\* source's order and once: except for the batch in hand, and for an error,
\* nothing is missing.
Delivered ==
    \A s \in Sources, k \in Sinks :
        /\ IsPrefix(OfSource(s, k), Wanted(s, k))
        /\ batch = <<>> => OfSource(s, k) = Wanted(s, k)

\* A write error stops the sinks apart by at most the one batch: a sink
\* holds what the sinks after it hold, and no more than the batch beyond.
SinksTogether ==
    Shape = "fan" =>
        \A j, k \in Sinks : j < k =>
            /\ IsPrefix(written[k], written[j])
            /\ Len(written[j]) - Len(written[k]) <= Len(batch)

\* Sources that have not run dry are polled in turn: none is more than one
\* batch ahead of another.
RoundRobin ==
    \A s, t \in Sources \ exhausted : pos[s] <= pos[t] + 1

\* A run that ends well has counted each output once, whatever the sinks.
SentOnce ==
    pc = "ok" => sent = Len(FlattenSeq([s \in Sources |-> SelectSeq(Taken(s),
                               LAMBDA e : Shape = "routed" => Route(e) \in Sinks)]))

\* A finite run ends: by itself, by an error, or by shutdown; a push source
\* by shutdown only.
Ends == (Shape = "linear" /\ Kind # "pull" => <>shutdown) => <>(pc \in {"ok", "error"})

\* "summing the delivered count returned by the sink": what is counted as sent
\* is what the sink took.
SentTaken == batch = <<>> => sent = Len(written[1])

\* "Returns an empty vec during lulls": a run that nobody stopped has read its
\* sources to the end.
ReadToEnd == pc = "ok" /\ ~shutdown => \A s \in Sources : pos[s] = Len(input[s])

\* "The chained source identity (source name, partition) is preserved from the
\* original events".
SourceKept ==
    \A k \in Sinks : \A i \in 1 .. Len(written[k]) :
        written[k][i].source = written[k][i].id[1]
=============================================================================
