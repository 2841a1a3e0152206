------------------------- MODULE ReplayTablesProofs -------------------------
(***************************************************************************)
(* Lemmas about the replay tables: what recording a call changes and what  *)
(* it keeps.  The proofs about the guards and about ingestion cite them.   *)
(***************************************************************************)
EXTENDS ReplayTables, TLAPS

(* Sequence numbers are naturals. *)
LEMMA SequenceNumbersAreNat == SequenceNumbers \subseteq Nat
  BY SequenceNumbersAssumption, Int64LimitAssumption

(* All that the tables look at in a call, or in any record with the IDs of *)
(* a frame: an envelope, a stored line.                                    *)
HasIDs(r) ==
    r.device \in Devices /\ r.frame \in Frames /\ r.sequence \in Nat

Recorded(t, r) == SeenFrame(t, r) /\ StaleSequence(t, r)

(* Two records that cannot both be granted. *)
Clash(q, r) ==
    q.device = r.device /\ (q.frame = r.frame \/ q.sequence = r.sequence)

(* A call has IDs. *)
LEMMA RequestHasIDs == \A r \in Requests : HasIDs(r)
  BY SequenceNumbersAreNat DEF Requests, HasIDs

(* The two tables have their types. *)
LEMMA TablesFields ==
  ASSUME NEW t \in Tables
  PROVE  t.seen \in SUBSET (Devices \X Frames) /\ t.max \in [Devices -> Nat]
  BY DEF Tables

(* Replacing one of the tables leaves the other alone. *)
LEMMA ReplaceTable ==
  ASSUME NEW t \in Tables, NEW S
  PROVE  /\ [t EXCEPT !.seen = S] = [seen |-> S, max |-> t.max]
         /\ [t EXCEPT !.max = S] = [seen |-> t.seen, max |-> S]
  BY DEF Tables

(* The insert into seen_frames keeps the tables well formed. *)
LEMMA InsertFrameType ==
  ASSUME NEW t \in Tables, NEW r, HasIDs(r)
  PROVE  InsertFrame(t, r) \in Tables
<1>1. InsertFrame(t, r) =
        [seen |-> t.seen \cup {<<r.device, r.frame>>}, max |-> t.max]
  BY ReplaceTable DEF InsertFrame
<1>2. t.seen \cup {<<r.device, r.frame>>} \in SUBSET (Devices \X Frames)
  BY TablesFields DEF HasIDs
<1> QED
  BY <1>1, <1>2, TablesFields DEF Tables

(* So does the upsert into device_state. *)
LEMMA UpsertSequenceType ==
  ASSUME NEW t \in Tables, NEW r, HasIDs(r)
  PROVE  UpsertSequence(t, r) \in Tables
<1>1. UpsertSequence(t, r) =
        [seen |-> t.seen, max |-> [t.max EXCEPT ![r.device] = r.sequence]]
  BY DEF UpsertSequence, Tables
<1>2. [t.max EXCEPT ![r.device] = r.sequence] \in [Devices -> Nat]
  BY TablesFields DEF HasIDs
<1> QED
  BY <1>1, <1>2, TablesFields DEF Tables

(* Recording a call keeps the tables well formed. *)
LEMMA RememberType ==
  ASSUME NEW t \in Tables, NEW r, HasIDs(r)
  PROVE  Remember(t, r) \in Tables
  BY InsertFrameType, UpsertSequenceType DEF Remember

(* What the tables are after recording a call. *)
LEMMA RememberFields ==
  ASSUME NEW t \in Tables, NEW r, HasIDs(r)
  PROVE  /\ Remember(t, r).seen = t.seen \cup {<<r.device, r.frame>>}
         /\ Remember(t, r).max = [t.max EXCEPT ![r.device] = r.sequence]
<1>1. InsertFrame(t, r) =
        [seen |-> t.seen \cup {<<r.device, r.frame>>}, max |-> t.max]
  BY ReplaceTable DEF InsertFrame
<1> QED
  BY <1>1 DEF Remember, UpsertSequence

(* Recording a new call makes it, and keeps everything recorded before it, *)
(* a replay.                                                               *)
LEMMA RememberKeeps ==
  ASSUME NEW t \in Tables, NEW r, HasIDs(r), ~Replayed(t, r)
  PROVE  /\ Recorded(Remember(t, r), r)
         /\ \A q : HasIDs(q) /\ Recorded(t, q) => Recorded(Remember(t, r), q)
<1>1. Recorded(Remember(t, r), r)
  <2>1. SeenFrame(Remember(t, r), r)
    BY RememberFields DEF SeenFrame
  <2>2. [t.max EXCEPT ![r.device] = r.sequence][r.device] = r.sequence
    BY TablesFields DEF HasIDs
  <2>3. Remember(t, r).max[r.device] = r.sequence
    BY <2>2, RememberFields
  <2>4. r.sequence <= r.sequence
    BY DEF HasIDs
  <2>5. StaleSequence(Remember(t, r), r)
    BY <2>3, <2>4 DEF StaleSequence
  <2> QED
    BY <2>1, <2>5 DEF Recorded
<1>2. ASSUME NEW q, HasIDs(q), Recorded(t, q)
      PROVE  Recorded(Remember(t, r), q)
  <2>1. t.max[r.device] \in Nat /\ t.max[r.device] < r.sequence
    BY TablesFields DEF HasIDs, Replayed, StaleSequence
  <2>2. t.max[q.device] \in Nat /\ q.sequence <= t.max[q.device]
    BY <1>2, TablesFields DEF HasIDs, Recorded, StaleSequence
  <2>3. q.sequence <= [t.max EXCEPT ![r.device] = r.sequence][q.device]
    BY <1>2, <2>1, <2>2, TablesFields DEF HasIDs
  <2> QED
    BY <1>2, <2>3, RememberFields
    DEF Recorded, SeenFrame, StaleSequence
<1> QED
  BY <1>1, <1>2

(* A call that is not a replay differs from every recorded one of its      *)
(* device and lies above it.                                               *)
LEMMA FreshDiffers ==
  ASSUME NEW t \in Tables, NEW r, NEW q, HasIDs(r), HasIDs(q),
         ~Replayed(t, r), Recorded(t, q), q.device = r.device
  PROVE  q.frame # r.frame /\ q.sequence < r.sequence
<1>1. q.frame # r.frame
  BY DEF SeenFrame, Replayed, Recorded
<1>2. t.max[r.device] \in Nat
  BY TablesFields DEF HasIDs
<1> QED
  BY <1>1, <1>2 DEF StaleSequence, Replayed, Recorded, HasIDs

(* So it clashes with none of them. *)
LEMMA FreshDoesNotClash ==
  ASSUME NEW t \in Tables, NEW r, NEW q, HasIDs(r), HasIDs(q),
         ~Replayed(t, r), Recorded(t, q)
  PROVE  ~Clash(q, r) /\ ~Clash(r, q)
<1>1. CASE q.device = r.device
  BY <1>1, FreshDiffers DEF Clash, HasIDs
<1>2. CASE q.device # r.device
  BY <1>2 DEF Clash
<1> QED
  BY <1>1, <1>2

(* What is recorded stays recorded when one more call is. *)
LEMMA RememberKeepsAll ==
  ASSUME NEW t \in Tables, NEW r \in Requests, NEW g \in Seq(Requests),
         ~Replayed(t, r), AllRecorded(t, g)
  PROVE  AllRecorded(Remember(t, r), g)
<1> SUFFICES ASSUME NEW i \in DOMAIN g
             PROVE  Recorded(Remember(t, r), g[i])
  BY DEF AllRecorded, Recorded
<1>1. g[i] \in Requests
  OBVIOUS
<1>2. HasIDs(r) /\ HasIDs(g[i]) /\ Recorded(t, g[i])
  BY <1>1, RequestHasIDs DEF AllRecorded, Recorded
<1> QED
  BY <1>2, RememberKeeps

(* Granting and recording a call that is not a replay extends the history  *)
(* as promised.                                                            *)
LEMMA GrantExtends ==
  ASSUME NEW t \in Tables, NEW r \in Requests, NEW g \in Seq(Requests),
         ~Replayed(t, r), AllRecorded(t, g), Increasing(g)
  PROVE  /\ Append(g, r) \in Seq(Requests)
         /\ AllRecorded(Remember(t, r), Append(g, r))
         /\ Increasing(Append(g, r))
<1> DEFINE G == Append(g, r)
<1>1. /\ Len(g) \in Nat
      /\ DOMAIN g = 1 .. Len(g)
      /\ DOMAIN G = 1 .. Len(g) + 1
      /\ \A i \in 1 .. Len(g) : G[i] = g[i] /\ g[i] \in Requests
      /\ G[Len(g) + 1] = r
      /\ G \in Seq(Requests)
  OBVIOUS
<1> HIDE DEF G
<1>6. HasIDs(r) /\ \A i \in 1 .. Len(g) : HasIDs(g[i]) /\ Recorded(t, g[i])
  BY <1>1, RequestHasIDs DEF AllRecorded, Recorded
<1>2. ASSUME NEW i \in DOMAIN G
      PROVE  Recorded(Remember(t, r), G[i])
  <2>1. CASE i = Len(g) + 1
    BY <1>1, <1>6, <2>1, RememberKeeps
  <2>2. CASE i \in 1 .. Len(g)
    BY <1>1, <1>6, <2>2, RememberKeeps
  <2> QED
    BY <1>1, <2>1, <2>2
<1>3. ASSUME NEW i \in DOMAIN G, NEW j \in DOMAIN G, i < j,
             G[i].device = G[j].device
      PROVE  G[i].frame # G[j].frame /\ G[i].sequence < G[j].sequence
  <2>1. i \in 1 .. Len(g)
    BY <1>1, <1>3
  <2>2. CASE j = Len(g) + 1
    BY <1>1, <1>6, <1>3, <2>1, <2>2, FreshDiffers
  <2>3. CASE j \in 1 .. Len(g)
    BY <1>1, <1>3, <2>1, <2>3 DEF Increasing
  <2> QED
    BY <1>1, <2>2, <2>3
<1>4. AllRecorded(Remember(t, r), G)
  BY <1>2 DEF AllRecorded, Recorded
<1>5. Increasing(G)
  BY <1>3 DEF Increasing
<1> QED
  BY <1>1, <1>4, <1>5 DEF G

=============================================================================
