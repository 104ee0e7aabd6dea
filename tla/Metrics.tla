------------------------------- MODULE Metrics -------------------------------
(***************************************************************************)
(* The process-wide counters (router-core/src/metrics.rs) while they are   *)
(* scraped: recorders add to cells of their own accord, and a scrape loads *)
(* the cells one by one without a lock.                                    *)
(*                                                                         *)
(* Every access is Relaxed, so the additions of one piece of work reach a  *)
(* reader in any order; a recorder is therefore the set of additions it    *)
(* has still to make.  The cells fall into groups that are never counted   *)
(* together; a behaviour is about one of them, the Kafka records on their  *)
(* way through the ingestor and the core, or the public publishes with     *)
(* their latency histogram.  Sums (bytes, matches, microseconds) are left  *)
(* out; the gauges are Router's.                                           *)
(***************************************************************************)
EXTENDS Integers, Sequences, FiniteSets, Functions, SequencesExt

CONSTANTS
  Recorders,
  Buckets,       \* names of the finite latency buckets
  Bounds,        \* and their upper bounds, ascending
  Durations,     \* latencies that are observed, in microseconds
  MaxJobs,       \* bound: pieces of work
  MaxScrapes     \* bound: scrapes

ASSUME MetricsAssumption ==
  /\ Bounds \in Seq(Nat) /\ Bounds # <<>> /\ Len(Buckets) = Len(Bounds)
  /\ \A i, j \in DOMAIN Bounds : i < j => Bounds[i] < Bounds[j]
  /\ Durations \subseteq Nat
  /\ MaxJobs \in Nat /\ MaxScrapes \in Nat

Kinds == {"record", "publish"}

\* The order in which snapshot loads the cells.
Cells(kind) ==
  IF kind = "record"
    THEN <<"kafka_messages", "valid_messages", "invalid_messages", "unmatched_messages">>
    ELSE <<"publish_attempts", "publish_acknowledged", "publish_failures">>
           \o Buckets \o <<"count">>

VARIABLES
  kind,       \* the group of cells
  cell,       \* what each cell holds
  pending,    \* recorder -> the additions it has still to make
  loaded,     \* what the scrape in progress has loaded so far, in order
  scraping,
  overlap,    \* how many pieces of work the scrape has run beside
  last,       \* the last scrape, and what it ran beside
  jobs, scrapes

vars == <<kind, cell, pending, loaded, scraping, overlap, last, jobs, scrapes>>

-----------------------------------------------------------------------------
Names == Range(Cells(kind))

\* Mutant: an observation above the last bound is put into the last bucket and
\* not counted.
ObserveUncounted(us) ==
  {Buckets[Len(Bounds)]}

\* observe: the first bucket that is not exceeded, if any, and the count.
observe(us) ==
  LET fits == {i \in DOMAIN Bounds : us <= Bounds[i]}
  IN  {Buckets[i] : i \in {i \in fits : \A j \in fits : i <= j}} \cup {"count"}

\* The cells one Kafka record adds one to: it is invalid, or valid and then
\* matched or not.
record_message(outcome) ==
  {"kafka_messages"}
    \cup CASE outcome = "invalid" -> {"invalid_messages"}
           [] outcome = "matched" -> {"valid_messages"}
           [] outcome = "unmatched" -> {"valid_messages", "unmatched_messages"}

\* The cells one public publish adds one to.  A handler whose client has gone
\* is dropped while it awaits the broker, and then adds the attempt alone.
record_publish(outcome, us) ==
  {"publish_attempts"}
    \cup CASE outcome = "dropped" -> {}
           [] outcome = "acknowledged" -> observe(us) \cup {"publish_acknowledged"}
           [] outcome = "failed" -> observe(us) \cup {"publish_failures"}

-----------------------------------------------------------------------------
Busy == Cardinality({r \in Recorders : pending[r] # {}})

Init ==
  /\ kind \in Kinds
  /\ cell = [c \in Names |-> 0]
  /\ pending = [r \in Recorders |-> {}]
  /\ loaded = <<>> /\ scraping = FALSE
  /\ overlap = 0
  /\ last = [values |-> cell, overlap |-> 0]
  /\ jobs = 0 /\ scrapes = 0

Begin(r, additions) ==
  /\ pending[r] = {} /\ jobs < MaxJobs
  /\ jobs' = jobs + 1
  /\ pending' = [pending EXCEPT ![r] = additions]
  /\ overlap' = IF scraping THEN overlap + 1 ELSE overlap
  /\ UNCHANGED <<kind, cell, loaded, scraping, last, scrapes>>

begin_record(r) ==
  /\ kind = "record"
  /\ \E outcome \in {"invalid", "matched", "unmatched"} :
       Begin(r, record_message(outcome))

begin_publish(r) ==
  /\ kind = "publish"
  /\ \E outcome \in {"acknowledged", "failed", "dropped"}, us \in Durations :
       Begin(r, record_publish(outcome, us))

\* One fetch_add.
fetch_add(r) ==
  /\ \E c \in pending[r] :
       /\ cell' = [cell EXCEPT ![c] = @ + 1]
       /\ pending' = [pending EXCEPT ![r] = @ \ {c}]
  /\ UNCHANGED <<kind, loaded, scraping, overlap, last, jobs, scrapes>>

snapshot_begin ==
  /\ ~scraping /\ scrapes < MaxScrapes
  /\ scraping' = TRUE
  /\ scrapes' = scrapes + 1
  /\ overlap' = Busy
  /\ UNCHANGED <<kind, cell, pending, loaded, last, jobs>>

\* Mutant: loading a cell drains it.
SnapshotDrains ==
  /\ scraping /\ Len(loaded) < Len(Cells(kind))
  /\ loaded' = Append(loaded, cell[Cells(kind)[Len(loaded) + 1]])
  /\ cell' = [cell EXCEPT ![Cells(kind)[Len(loaded) + 1]] = 0]
  /\ UNCHANGED <<kind, pending, scraping, overlap, last, jobs, scrapes>>

snapshot_load ==
  /\ scraping /\ Len(loaded) < Len(Cells(kind))
  /\ loaded' = Append(loaded, cell[Cells(kind)[Len(loaded) + 1]])
  /\ UNCHANGED <<kind, cell, pending, scraping, overlap, last, jobs, scrapes>>

snapshot_end ==
  /\ scraping /\ Len(loaded) = Len(Cells(kind))
  /\ last' = [values  |-> [c \in Names |-> loaded[CHOOSE i \in DOMAIN loaded : Cells(kind)[i] = c]],
              overlap |-> overlap]
  /\ scraping' = FALSE
  /\ loaded' = <<>>
  /\ overlap' = 0
  /\ UNCHANGED <<kind, cell, pending, jobs, scrapes>>

Next ==
  \/ \E r \in Recorders : begin_record(r)
  \/ \E r \in Recorders : begin_publish(r)
  \/ \E r \in Recorders : fetch_add(r)
  \/ snapshot_begin
  \/ snapshot_load
  \/ snapshot_end

Spec == Init /\ [][Next]_vars

-----------------------------------------------------------------------------
\* render_prometheus: buckets are rendered cumulatively, +Inf is the count.
cumulative(values, i) ==
  FoldSeq(LAMBDA c, n : values[c] + n, 0, SubSeq(Buckets, 1, i))

Within(a, b, n) == a <= b + n

Apart(a, b, n) == Within(a, b, n) /\ Within(b, a, n)

\* A scrape takes no lock, and the counters that belong together may disagree
\* in it, but by no more than the pieces of work it ran beside: every Kafka
\* record is valid or invalid and only valid ones are unmatched; every publish
\* that was timed was attempted and is acknowledged or failed; and no bucket
\* rendered for a finite bound exceeds +Inf.  A scrape beside no work is exact.
\* (snapshot, "a consistent-enough relaxed snapshot", and render_prometheus.)
TornByOverlapOnly ==
  LET v == last.values
      n == last.overlap
  IN  /\ kind = "record" =>
           /\ Apart(v["valid_messages"] + v["invalid_messages"], v["kafka_messages"], n)
           /\ Within(v["unmatched_messages"], v["valid_messages"], n)
      /\ kind = "publish" =>
           /\ Apart(v["publish_acknowledged"] + v["publish_failures"], v["count"], n)
           /\ Within(v["count"], v["publish_attempts"], n)
           /\ Within(cumulative(v, Len(Bounds)), v["count"], n)

\* From one scrape to the next no counter, and no cumulative bucket, goes back:
\* a collector would take that for a restart of the process.  (snapshot and
\* render_prometheus.)
CountersOnlyGrow ==
  [][/\ \A c \in Names : last.values[c] <= last'.values[c]
     /\ kind = "publish" =>
          \A i \in DOMAIN Bounds : cumulative(last.values, i) <= cumulative(last'.values, i)]_vars

=============================================================================
