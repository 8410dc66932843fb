---------------------------- MODULE SourceAnchor ----------------------------
(***************************************************************************)
(* What the delivery path of a pull pipeline promises, after the           *)
(* Source-Anchor recovery model of docs/ARCHITECTURE.md: the durable       *)
(* replay point only moves over delivered events, and a restarted source   *)
(* resumes at or before that point.  DeliveryPipeline implements it.       *)
(***************************************************************************)
EXTENDS Naturals

CONSTANTS
  Parts,   \* the partitions of the source
  MaxSeq   \* the events of a partition are numbered 0 .. MaxSeq - 1

Events == Parts \X (0 .. MaxSeq - 1)

VARIABLES
  done,    \* events the downstream has received in full
  anchor,  \* the durable replay point of every partition
  from,    \* where the source began to read when it was last started
  reading  \* the next event the source reads, per partition

avars == <<done, anchor, from, reading>>

\* Nothing below the replay point a is missing from d.
Covers(a, d) == \A e \in Events : e[2] < a[e[1]] => e \in d

AInit ==
  /\ done = {}
  /\ anchor = [p \in Parts |-> 0]
  /\ from = [p \in Parts |-> 0]
  /\ reading = [p \in Parts |-> 0]

\* The source hands over the next event of a partition.
Read(p) ==
  /\ reading[p] < MaxSeq
  /\ reading' = [reading EXCEPT ![p] = @ + 1]
  /\ UNCHANGED <<done, anchor, from>>

\* The downstream receives events the source has handed over since it was
\* started; the replay point may be moved, up or down, to any point that
\* covers what is done.
Acknowledge ==
  /\ done' \in SUBSET Events
  /\ done \subseteq done'
  /\ \A e \in done' \ done : from[e[1]] <= e[2] /\ e[2] < reading[e[1]]
  /\ anchor' \in [Parts -> 0 .. MaxSeq]
  /\ anchor' # anchor => Covers(anchor', done')
  /\ UNCHANGED <<from, reading>>

\* A restart: every partition is read again from its replay point or before.
Replay ==
  /\ reading' \in [Parts -> 0 .. MaxSeq]
  /\ \A p \in Parts : reading'[p] <= anchor[p]
  /\ from' = reading'
  /\ UNCHANGED <<done, anchor>>

ANext == (\E p \in Parts : Read(p)) \/ Acknowledge \/ Replay

ASpec == AInit /\ [][ANext]_avars

=============================================================================
