----------------------------- MODULE IngestProofs -----------------------------
(***************************************************************************)
(* Proofs about the ingest path: types, at-most-once storage, replay       *)
(* protection ahead of storage, and durability of accepted frames, for any *)
(* number of handlers, any messages and any faults.  At the end, the same  *)
(* of the golem-proxy process that runs the path.                          *)
(***************************************************************************)
EXTENDS Proxy, ReplayTablesProofs, SequenceTheorems

(* Where a handler has left the verifier's checks behind, has had its IDs  *)
(* recorded, may still write a line for them, has a frame to be stored.    *)
Verifying == {"record", "process", "store", "append", "sync"}
Admitted  == {"process", "store", "append", "sync"}
Pending   == {"process", "store", "append"}
Storing   == {"store", "append", "sync"}

VerifiedInv == \A h \in Handlers : pc[h] \in Verifying => HasIDs(Env(h))

StorableInv == \A h \in Handlers : pc[h] \in Storing => msg[h] \in Storable

AdmittedInv ==
    \A h \in Handlers : pc[h] \in Admitted => Recorded(tables, Env(h))

(* No two handlers are about to write lines that exclude each other. *)
PendingInv ==
    \A h, k \in Handlers :
        h # k /\ pc[h] \in Pending /\ pc[k] \in Pending =>
            ~Clash(Env(h), Env(k))

(* Nor is one about to write a line excluded by a stored one. *)
UnstoredInv ==
    \A h \in Handlers : \A i \in DOMAIN journal :
        pc[h] \in Pending =>
            ~Clash(Env(h), journal[i]) /\ ~Clash(journal[i], Env(h))

JournalInv ==
    /\ \A i \in DOMAIN journal :
        HasIDs(journal[i]) /\ Recorded(tables, journal[i])
    /\ \A i, j \in DOMAIN journal : i # j => ~Clash(journal[i], journal[j])

(* A line that is being fsynced is in the file; one that was acknowledged  *)
(* is in its durable prefix.                                               *)
DurableInv ==
    /\ \A h \in Handlers :
        pc[h] = "sync" =>
            \E i \in DOMAIN journal : journal[i] = Line(Env(h))
    /\ Sync => \A m \in Messages :
        <<m, "accept">> \in answers =>
            m \in Storable /\ \E i \in 1 .. synced :
                journal[i] = Line(Envelope[m])

IDInv == VerifiedInv /\ AdmittedInv /\ PendingInv /\ UnstoredInv /\ JournalInv

IInv == TypeOK /\ StorableInv /\ IDInv /\ DurableInv

-----------------------------------------------------------------------------
(* An envelope that passes Verify up to the replay guard has all its IDs.  *)
LEMMA VerifiedHasIDs ==
  ASSUME NEW m \in Messages, NEW peer, NEW now,
         Verified(Envelope[m], peer, now)
  PROVE  HasIDs(Envelope[m])
<1> DEFINE e == Envelope[m]
<1> DEFINE Missing == \E id \in StringIDs : e[id] = ""
<1>1. Check(1, Missing, "ErrMalformed") \in Checks(e, peer, now)
  BY DEF Checks
<1>2. Check(1, Missing, "ErrMalformed").fails = Missing
  BY DEF Check
<1>3. ~Missing
  BY <1>1, <1>2 DEF Verified
<1>4. e.device # "" /\ e.frame # ""
  BY <1>3 DEF StringIDs
<1> QED
  BY <1>4, IngestAssumption, SequenceNumbersAreNat DEF HasIDs

(* A line carries the IDs of the envelope it comes from: that is what      *)
(* bindEnvelopeToFrame is for.                                             *)
LEMMA LineIDs ==
  ASSUME NEW m \in Storable
  PROVE  /\ Line(Envelope[m]).device = Envelope[m].device
         /\ Line(Envelope[m]).frame = Envelope[m].frame
         /\ Line(Envelope[m]).sequence = Envelope[m].sequence
         /\ Line(Envelope[m]) \in Lines
<1>1. /\ BoundFrame(Envelope[m])["device"] = Envelope[m]["device"]
      /\ BoundFrame(Envelope[m])["frame"] = Envelope[m]["frame"]
      /\ BoundFrame(Envelope[m])["sequence"] = Envelope[m]["sequence"]
  BY DEF Storable, Outcome, Binds, StringIDs
<1> QED
  BY <1>1 DEF Line, Lines, SanitizedFrame

(* An error of the verifier is never answered with "accept". *)
LEMMA ErrorIsNotAccept ==
  ASSUME NEW err
  PROVE  MapAuthError(err) # "accept"
  BY DEF MapAuthError

-----------------------------------------------------------------------------
(* A step that leaves tables and journal alone and lets no handler advance *)
(* without the facts its new place needs keeps the invariant on IDs.       *)
LEMMA QuietStep ==
  ASSUME IDInv, UNCHANGED <<tables, journal>>,
         \A k \in Handlers :
            /\ pc'[k] \in Verifying =>
                msg'[k] = msg[k] /\ HasIDs(Env(k))
            /\ pc'[k] \in Admitted => pc[k] \in Admitted
            /\ pc'[k] \in Pending => pc[k] \in Pending
  PROVE  IDInv'
<1>1. \A k \in Handlers : pc'[k] \in Verifying => Env(k)' = Env(k)
  BY DEF Env
<1>2. Pending \subseteq Verifying /\ Admitted \subseteq Verifying
  BY DEF Pending, Admitted, Verifying
<1>3. VerifiedInv'
  BY <1>1 DEF VerifiedInv, HasIDs
<1>4. AdmittedInv'
  BY <1>1, <1>2 DEF IDInv, AdmittedInv, Recorded, SeenFrame, StaleSequence
<1>5. PendingInv'
  BY <1>1, <1>2 DEF IDInv, PendingInv, Clash
<1>6. UnstoredInv'
  BY <1>1, <1>2 DEF IDInv, UnstoredInv, Clash
<1>7. JournalInv'
  BY DEF IDInv, JournalInv, Recorded, SeenFrame, StaleSequence, HasIDs, Clash
<1> QED
  BY <1>3, <1>4, <1>5, <1>6, <1>7 DEF IDInv

(* The guard records the IDs of h's envelope, and h goes on or returns.    *)
LEMMA RecordStep ==
  ASSUME IInv, NEW h \in Handlers, pc[h] = "record",
         ~Replayed(tables, Env(h)), tables' = Remember(tables, Env(h)),
         UNCHANGED journal,
         \/ pc' = [pc EXCEPT ![h] = "process"] /\ UNCHANGED msg
         \/ /\ pc' = [pc EXCEPT ![h] = "idle"]
            /\ \A k \in Handlers : k # h => msg'[k] = msg[k]
  PROVE  IDInv' /\ tables' \in Tables
<1>1. tables \in Tables /\ pc \in [Handlers -> Labels]
  BY DEF IInv, TypeOK
<1>2. HasIDs(Env(h))
  BY DEF IInv, IDInv, VerifiedInv, Verifying
<1>3. tables' \in Tables
  BY <1>1, <1>2, RememberType
<1>4. /\ Recorded(tables', Env(h))
      /\ \A q : HasIDs(q) /\ Recorded(tables, q) => Recorded(tables', q)
  BY <1>1, <1>2, RememberKeeps
<1>5. \A q : HasIDs(q) /\ Recorded(tables, q) =>
            ~Clash(q, Env(h)) /\ ~Clash(Env(h), q)
  BY <1>1, <1>2, FreshDoesNotClash
<1>6. \A k \in Handlers :
        /\ k # h => pc'[k] = pc[k] /\ msg'[k] = msg[k]
        /\ pc'[h] # "idle" => pc'[h] = "process" /\ msg'[h] = msg[h]
  BY <1>1
<1>7. \A k \in Handlers : pc'[k] \in Verifying => Env(k)' = Env(k)
  BY <1>6 DEF Env, Verifying
<1>8. Pending \subseteq Verifying /\ Admitted \subseteq Verifying
      /\ Pending \subseteq Admitted
  BY DEF Pending, Admitted, Verifying
<1>9. \A k \in Handlers : k # h /\ pc[k] \in Admitted =>
            HasIDs(Env(k)) /\ Recorded(tables, Env(k))
  BY <1>8 DEF IInv, IDInv, VerifiedInv, AdmittedInv
<1>10. VerifiedInv'
  BY <1>2, <1>6, <1>7 DEF IInv, IDInv, VerifiedInv, HasIDs
<1>11. AdmittedInv'
  <2> SUFFICES ASSUME NEW k \in Handlers, pc'[k] \in Admitted
               PROVE  Recorded(tables', Env(k))
    BY <1>7, <1>8 DEF AdmittedInv, Recorded, SeenFrame, StaleSequence
  <2>1. CASE k = h
    BY <2>1, <1>4
  <2>2. CASE k # h
    BY <2>2, <1>4, <1>6, <1>9
  <2> QED
    BY <2>1, <2>2
<1>12. PendingInv'
  <2> SUFFICES ASSUME NEW k \in Handlers, NEW l \in Handlers, k # l,
                      pc'[k] \in Pending, pc'[l] \in Pending
               PROVE  ~Clash(Env(k), Env(l))
    BY <1>7, <1>8 DEF PendingInv, Clash
  <2>1. CASE k = h
    BY <2>1, <1>5, <1>6, <1>8, <1>9
  <2>2. CASE l = h
    BY <2>2, <1>5, <1>6, <1>8, <1>9
  <2>3. CASE k # h /\ l # h
    BY <2>3, <1>6 DEF IInv, IDInv, PendingInv
  <2> QED
    BY <2>1, <2>2, <2>3
<1>13. UnstoredInv'
  <2> SUFFICES ASSUME NEW k \in Handlers, NEW i \in DOMAIN journal,
                      pc'[k] \in Pending
               PROVE  ~Clash(Env(k), journal[i]) /\ ~Clash(journal[i], Env(k))
    BY <1>7, <1>8 DEF UnstoredInv, Clash
  <2>1. CASE k = h
    BY <2>1, <1>5 DEF IInv, IDInv, JournalInv
  <2>2. CASE k # h
    BY <2>2, <1>6 DEF IInv, IDInv, UnstoredInv
  <2> QED
    BY <2>1, <2>2
<1>14. JournalInv'
  <2>1. \A i \in DOMAIN journal :
            HasIDs(journal[i]) /\ Recorded(tables', journal[i])
    BY <1>4 DEF IInv, IDInv, JournalInv
  <2> QED
    BY <2>1
    DEF IInv, IDInv, JournalInv, Recorded, SeenFrame, StaleSequence, HasIDs,
        Clash
<1> QED
  BY <1>3, <1>10, <1>11, <1>12, <1>13, <1>14 DEF IDInv

(* h writes its line. *)
LEMMA AppendStep ==
  ASSUME IInv, NEW h \in Handlers, pc[h] = "append", UNCHANGED tables,
         journal' = Append(journal, Line(Env(h))),
         \/ pc' = [pc EXCEPT ![h] = "sync"] /\ UNCHANGED msg
         \/ /\ pc' = [pc EXCEPT ![h] = "idle"]
            /\ \A k \in Handlers : k # h => msg'[k] = msg[k]
  PROVE  IDInv'
<1> DEFINE line == Line(Env(h))
<1>1. pc \in [Handlers -> Labels] /\ journal \in Seq(Lines)
  BY DEF IInv, TypeOK
<1>2. msg[h] \in Storable /\ HasIDs(Env(h)) /\ Recorded(tables, Env(h))
  BY DEF IInv, StorableInv, Storing, IDInv, VerifiedInv, Verifying,
         AdmittedInv, Admitted
<1>3. /\ line.device = Env(h).device /\ line.frame = Env(h).frame
      /\ line.sequence = Env(h).sequence /\ line \in Lines
  BY <1>2, LineIDs DEF Env
<1> HIDE DEF line
<1>4. HasIDs(line) /\ Recorded(tables, line)
  BY <1>2, <1>3 DEF HasIDs, Recorded, SeenFrame, StaleSequence
<1>5. \A k \in Handlers :
        /\ k # h => pc'[k] = pc[k] /\ msg'[k] = msg[k]
        /\ pc'[h] # "idle" => pc'[h] = "sync" /\ msg'[h] = msg[h]
  BY <1>1
<1>6. \A k \in Handlers : pc'[k] \in Verifying => Env(k)' = Env(k)
  BY <1>5 DEF Env, Verifying
<1>7. Pending \subseteq Verifying /\ Admitted \subseteq Verifying
      /\ pc[h] \in Pending /\ pc[h] \in Verifying /\ pc[h] \in Admitted
      /\ pc'[h] \notin Pending
  BY <1>5 DEF Pending, Admitted, Verifying
<1>8. /\ Len(journal) \in Nat
      /\ DOMAIN journal = 1 .. Len(journal)
      /\ DOMAIN journal' = 1 .. Len(journal) + 1
      /\ \A i \in 1 .. Len(journal) : journal'[i] = journal[i]
      /\ journal'[Len(journal) + 1] = line
  BY <1>1, <1>3 DEF line
<1>9. VerifiedInv'
  BY <1>5, <1>6, <1>7 DEF IInv, IDInv, VerifiedInv, HasIDs
<1>10. AdmittedInv'
  BY <1>5, <1>6, <1>7
  DEF IInv, IDInv, AdmittedInv, Recorded, SeenFrame, StaleSequence
<1>11. PendingInv'
  BY <1>5, <1>6, <1>7 DEF IInv, IDInv, PendingInv, Clash
<1>12. UnstoredInv'
  <2> SUFFICES ASSUME NEW k \in Handlers, NEW i \in DOMAIN journal',
                      pc'[k] \in Pending
               PROVE  /\ ~Clash(Env(k), journal'[i])
                      /\ ~Clash(journal'[i], Env(k))
    BY <1>6, <1>7 DEF UnstoredInv, Clash
  <2>1. k # h /\ pc[k] \in Pending
    BY <1>5, <1>7
  <2>2. CASE i = Len(journal) + 1
    BY <2>1, <2>2, <1>3, <1>7, <1>8 DEF IInv, IDInv, PendingInv, Clash
  <2>3. CASE i \in 1 .. Len(journal)
    BY <2>1, <2>3, <1>8 DEF IInv, IDInv, UnstoredInv
  <2> QED
    BY <1>8, <2>2, <2>3
<1>13. JournalInv'
  <2>1. ASSUME NEW i \in DOMAIN journal'
        PROVE  HasIDs(journal'[i]) /\ Recorded(tables, journal'[i])
    <3>1. CASE i = Len(journal) + 1
      BY <3>1, <1>4, <1>8
    <3>2. CASE i \in 1 .. Len(journal)
      BY <3>2, <1>8 DEF IInv, IDInv, JournalInv
    <3> QED
      BY <1>8, <3>1, <3>2
  <2>2. ASSUME NEW i \in DOMAIN journal', NEW j \in DOMAIN journal', i # j
        PROVE  ~Clash(journal'[i], journal'[j])
    <3>1. \A l \in 1 .. Len(journal) :
            ~Clash(line, journal[l]) /\ ~Clash(journal[l], line)
      BY <1>3, <1>7, <1>8 DEF IInv, IDInv, UnstoredInv, Clash
    <3>2. CASE i = Len(journal) + 1
      BY <2>2, <3>1, <3>2, <1>8
    <3>3. CASE j = Len(journal) + 1
      BY <2>2, <3>1, <3>3, <1>8
    <3>4. CASE i \in 1 .. Len(journal) /\ j \in 1 .. Len(journal)
      BY <2>2, <3>4, <1>8 DEF IInv, IDInv, JournalInv
    <3> QED
      BY <1>8, <3>2, <3>3, <3>4
  <2> QED
    BY <2>1, <2>2
    DEF JournalInv, Recorded, SeenFrame, StaleSequence, HasIDs, Clash
<1> QED
  BY <1>9, <1>10, <1>11, <1>12, <1>13 DEF IDInv

(* What a handler's return changes. *)
LEMMA RespondFacts ==
  ASSUME TypeOK, NEW h \in Handlers, NEW a, Respond(h, a)
  PROVE  /\ pc' \in [Handlers -> Labels]
         /\ msg' \in [Handlers -> Messages \cup {NoMessage}]
         /\ cancelled' \in [Handlers -> BOOLEAN]
         /\ answers' \subseteq Messages \X Observed
         /\ pc'[h] = "idle"
         /\ \A k \in Handlers : k # h => pc'[k] = pc[k] /\ msg'[k] = msg[k]
         /\ \A x \in answers' : x \in answers \/ x = <<msg[h], a>>
<1>1. pc' \in [Handlers -> Labels]
  BY DEF TypeOK, Respond, Labels
<1>2. msg' \in [Handlers -> Messages \cup {NoMessage}]
  BY DEF TypeOK, Respond
<1>3. cancelled' \in [Handlers -> BOOLEAN]
  BY DEF TypeOK, Respond
<1>4. answers' \subseteq Messages \X Observed
  BY DEF TypeOK, Respond, Observe
<1>5. \A x \in answers' : x \in answers \/ x = <<msg[h], a>>
  BY DEF Respond, Observe
<1> QED
  BY <1>1, <1>2, <1>3, <1>4, <1>5 DEF TypeOK, Respond

(* A handler that returns without "accept" and touches nothing else keeps  *)
(* the invariant.                                                          *)
LEMMA RefuseStep ==
  ASSUME IInv, NEW h \in Handlers, NEW a, a # "accept", Respond(h, a),
         UNCHANGED <<up, clock, tables, journal, synced>>
  PROVE  IInv'
<1>1. TypeOK
  BY DEF IInv
<1>2. TypeOK'
  BY <1>1, RespondFacts DEF TypeOK
<1>3. StorableInv'
  BY <1>1, RespondFacts DEF IInv, StorableInv, Storing
<1>4. \A k \in Handlers : pc'[k] # "idle" => pc'[k] = pc[k] /\ msg'[k] = msg[k]
  BY <1>1, RespondFacts
<1>5. IDInv'
  BY <1>4, QuietStep
  DEF IInv, IDInv, VerifiedInv, Verifying, Admitted, Pending
<1>6. DurableInv'
  <2>1. \A m \in Messages :
            <<m, "accept">> \in answers' => <<m, "accept">> \in answers
    BY <1>1, RespondFacts
  <2>2. \A k \in Handlers : pc'[k] = "sync" =>
            pc[k] = "sync" /\ Line(Env(k))' = Line(Env(k))
    BY <1>4 DEF Line, Env
  <2> QED
    BY <2>1, <2>2 DEF IInv, DurableInv
<1> QED
  BY <1>2, <1>3, <1>5, <1>6 DEF IInv

(* A handler that goes on to its next step. *)
LEMMA AdvanceStep ==
  ASSUME IInv, NEW h \in Handlers, NEW label \in Labels \ {"idle", "sync"},
         pc[h] # "idle", Goto(h, label),
         UNCHANGED <<up, clock, tables, journal, synced>>,
         label \in Verifying => HasIDs(Env(h)),
         label \in Admitted => pc[h] \in Admitted,
         label \in Pending => pc[h] \in Pending,
         label \in Storing => msg[h] \in Storable
  PROVE  IInv'
<1>1. /\ pc' = [pc EXCEPT ![h] = label] /\ pc \in [Handlers -> Labels]
      /\ UNCHANGED <<msg, cancelled, answers>>
  BY DEF Goto, IInv, TypeOK
<1>2. \A k \in Handlers : pc'[k] = IF k = h THEN label ELSE pc[k]
  BY <1>1
<1>3. TypeOK'
  <2>1. pc' \in [Handlers -> Labels]
    BY <1>1
  <2>2. \A k \in Handlers : pc'[k] # "idle" => msg'[k] \in Messages
    BY <1>1, <1>2 DEF IInv, TypeOK
  <2> QED
    BY <1>1, <2>1, <2>2 DEF IInv, TypeOK
<1>4. StorableInv'
  BY <1>1, <1>2 DEF IInv, StorableInv, Storable
<1>5. IDInv'
  BY <1>1, <1>2, QuietStep DEF IInv, IDInv, VerifiedInv
<1>6. DurableInv'
  BY <1>1, <1>2 DEF IInv, DurableInv, Env, Line
<1> QED
  BY <1>3, <1>4, <1>5, <1>6 DEF IInv

-----------------------------------------------------------------------------
(* The invariant holds initially. *)
LEMMA InitIInv == Init => IInv
<1> SUFFICES ASSUME Init
             PROVE  IInv
  OBVIOUS
<1>1. TypeOK
  <2>1. EmptyTables \in Tables
    BY DEF EmptyTables, Tables
  <2>2. journal \in Seq(Lines) /\ synced \in 0 .. Len(journal)
    BY DEF Init
  <2> QED
    BY <2>1, <2>2, IngestAssumption DEF Init, TypeOK, Labels
<1>2. StorableInv /\ VerifiedInv /\ AdmittedInv /\ PendingInv /\ UnstoredInv
  BY DEF Init, StorableInv, VerifiedInv, AdmittedInv, PendingInv, UnstoredInv,
         Storing, Verifying, Admitted, Pending
<1>3. JournalInv /\ DurableInv
  BY DEF Init, JournalInv, DurableInv
<1> QED
  BY <1>1, <1>2, <1>3 DEF IInv, IDInv

(* A new message. *)
LEMMA ReceiveIInv ==
  ASSUME IInv, NEW h \in Handlers, NEW m \in Messages, Receive(h, m)
  PROVE  IInv'
<1>1. pc \in [Handlers -> Labels] /\ pc[h] = "idle"
      /\ msg \in [Handlers -> Messages \cup {NoMessage}]
      /\ UNCHANGED <<up, clock, tables, journal, synced, cancelled>>
  BY DEF IInv, TypeOK, Receive, At
<1>2. /\ \A k \in Handlers : pc'[k] \notin {"idle", "verify"} =>
            pc'[k] = pc[k] /\ msg'[k] = msg[k]
      /\ \A k \in Handlers : pc'[k] # "idle" => msg'[k] \in Messages
      /\ pc' \in [Handlers -> Labels]
      /\ msg' \in [Handlers -> Messages \cup {NoMessage}]
  <2>1. CASE UNCHANGED <<pc, msg>>
    BY <1>1, <2>1 DEF IInv, TypeOK
  <2>2. CASE /\ pc' = [pc EXCEPT ![h] = "verify"]
             /\ msg' = [msg EXCEPT ![h] = m]
    BY <1>1, <2>2 DEF IInv, TypeOK, Labels
  <2> QED
    BY <2>1, <2>2 DEF Receive
<1>3. /\ answers' \subseteq Messages \X Observed
      /\ \A n \in Messages :
            <<n, "accept">> \in answers' => <<n, "accept">> \in answers
  <2>1. CASE UNCHANGED answers
    BY <2>1 DEF IInv, TypeOK
  <2>2. CASE Observe(m, "InvalidArgument")
    BY <2>2 DEF IInv, TypeOK, Observe
  <2> QED
    BY <2>1, <2>2 DEF Receive
<1>4. TypeOK'
  BY <1>1, <1>2, <1>3 DEF IInv, TypeOK
<1>5. StorableInv'
  BY <1>2 DEF IInv, StorableInv, Storing
<1>6. IDInv'
  BY <1>1, <1>2, QuietStep
  DEF IInv, IDInv, VerifiedInv, Verifying, Admitted, Pending
<1>7. DurableInv'
  <2>1. \A k \in Handlers : pc'[k] = "sync" =>
            pc[k] = "sync" /\ Line(Env(k))' = Line(Env(k))
    BY <1>2 DEF Line, Env
  <2> QED
    BY <1>1, <1>3, <2>1 DEF IInv, DurableInv
<1> QED
  BY <1>4, <1>5, <1>6, <1>7 DEF IInv

(* Verify, the guard, the sanitizer and the context check. *)
LEMMA AuthenticateIInv ==
  ASSUME IInv, NEW h \in Handlers, Authenticate(h)
  PROVE  IInv'
<1>1. /\ pc[h] = "verify" /\ msg[h] \in Messages
      /\ UNCHANGED <<up, clock, tables, journal, synced>>
  BY DEF Authenticate, At, IInv, TypeOK
<1>2. CASE Verified(Env(h), Peer[msg[h]], clock) /\ Goto(h, "record")
  <2>1. HasIDs(Env(h))
    BY <1>1, <1>2, VerifiedHasIDs DEF Env
  <2> QED
    BY <1>1, <1>2, <2>1, AdvanceStep DEF Labels, Admitted, Pending, Storing
<1>3. CASE Respond(h, MapAuthError(VerifyError(Env(h), Peer[msg[h]], clock)))
  BY <1>1, <1>3, ErrorIsNotAccept, RefuseStep
<1> QED
  BY <1>2, <1>3 DEF Authenticate

(* A commit of the guard, and what else the step changes. *)
LEMMA CommitIInv ==
  ASSUME IInv, NEW h \in Handlers, pc[h] = "record",
         ~Replayed(tables, Env(h)), tables' = Remember(tables, Env(h)),
         UNCHANGED <<up, clock, journal, synced>>,
         Goto(h, "process") \/ Respond(h, MapAuthError("error"))
  PROVE  IInv'
<1>1. TypeOK /\ msg[h] \in Messages /\ pc \in [Handlers -> Labels]
  BY DEF IInv, TypeOK
<1>2. \/ pc' = [pc EXCEPT ![h] = "process"] /\ UNCHANGED msg
      \/ /\ pc' = [pc EXCEPT ![h] = "idle"]
         /\ \A k \in Handlers : k # h => msg'[k] = msg[k]
  BY <1>1, RespondFacts DEF Goto, Respond
<1>3. IDInv' /\ tables' \in Tables
  BY <1>2, RecordStep
<1>4. /\ pc' \in [Handlers -> Labels]
      /\ msg' \in [Handlers -> Messages \cup {NoMessage}]
      /\ cancelled' \in [Handlers -> BOOLEAN]
      /\ answers' \subseteq Messages \X Observed
      /\ \A k \in Handlers : pc'[k] # "idle" => msg'[k] \in Messages
      /\ \A k \in Handlers : pc'[k] \in Storing =>
            pc'[k] = pc[k] /\ msg'[k] = msg[k]
      /\ \A m \in Messages :
            <<m, "accept">> \in answers' => <<m, "accept">> \in answers
  <2>1. CASE Goto(h, "process")
    BY <1>1, <2>1 DEF Goto, TypeOK, Labels, Storing
  <2>2. CASE Respond(h, MapAuthError("error"))
    BY <1>1, <2>2, RespondFacts, ErrorIsNotAccept DEF TypeOK, Storing
  <2> QED
    BY <2>1, <2>2
<1>5. TypeOK'
  BY <1>1, <1>3, <1>4 DEF TypeOK
<1>6. StorableInv'
  BY <1>4 DEF IInv, StorableInv
<1>7. DurableInv'
  <2>1. \A k \in Handlers : pc'[k] = "sync" =>
            pc[k] = "sync" /\ Line(Env(k))' = Line(Env(k))
    BY <1>4 DEF Line, Env, Storing
  <2> QED
    BY <1>4, <2>1 DEF IInv, DurableInv
<1> QED
  BY <1>3, <1>5, <1>6, <1>7 DEF IInv

(* The replay check. *)
LEMMA RecordIInv ==
  ASSUME IInv, NEW h \in Handlers, Record(h) \/ RecordFails(h)
  PROVE  IInv'
<1>1. pc[h] = "record" /\ UNCHANGED <<up, clock, journal, synced>>
  BY DEF Record, RecordFails, At
<1>2. CASE UNCHANGED tables /\ \E e \in {"ErrReplay", "error"} :
                Respond(h, MapAuthError(e))
  BY <1>1, <1>2, ErrorIsNotAccept, RefuseStep
<1>3. CASE ~Replayed(tables, Env(h)) /\ tables' = Remember(tables, Env(h))
           /\ (Goto(h, "process") \/ Respond(h, MapAuthError("error")))
  BY <1>1, <1>3, CommitIInv
<1> QED
  BY <1>2, <1>3 DEF Record, RecordFails

(* Decoding, binding and the sanitizer's decision. *)
LEMMA ProcessIInv ==
  ASSUME IInv, NEW h \in Handlers, Process(h)
  PROVE  IInv'
<1>1. /\ pc[h] = "process" /\ msg[h] \in Messages
      /\ UNCHANGED <<up, clock, tables, journal, synced>>
  BY DEF Process, At, IInv, TypeOK
<1>2. CASE \E a : a # "accept" /\ Respond(h, a)
  BY <1>1, <1>2, RefuseStep
<1>3. CASE Outcome(Env(h)) = "accept" /\ Goto(h, "store")
  <2>1. msg[h] \in Storable
    BY <1>1, <1>3 DEF Storable, Env
  <2>2. HasIDs(Env(h))
    BY <1>1 DEF IInv, IDInv, VerifiedInv, Verifying
  <2> QED
    BY <1>1, <1>3, <2>1, <2>2, AdvanceStep DEF Labels, Admitted, Pending
<1> QED
  BY <1>2, <1>3 DEF Process

(* The sink's look at the context. *)
LEMMA CheckContextIInv ==
  ASSUME IInv, NEW h \in Handlers, CheckContext(h)
  PROVE  IInv'
<1>1. /\ pc[h] = "store"
      /\ UNCHANGED <<up, clock, tables, journal, synced>>
  BY DEF CheckContext, At
<1>2. CASE Respond(h, "Internal")
  BY <1>1, <1>2, RefuseStep
<1>3. CASE Goto(h, "append")
  <2>1. msg[h] \in Storable /\ HasIDs(Env(h))
    BY <1>1 DEF IInv, StorableInv, Storing, IDInv, VerifiedInv, Verifying
  <2> QED
    BY <1>1, <1>3, <2>1, AdvanceStep DEF Labels, Admitted, Pending
<1> QED
  BY <1>2, <1>3 DEF CheckContext

(* The write of a line.  With Sync on it is not acknowledged yet. *)
LEMMA AppendLineIInv ==
  ASSUME IInv, NEW h \in Handlers, AppendLine(h)
  PROVE  IInv'
<1>1. /\ TypeOK /\ pc \in [Handlers -> Labels] /\ pc[h] = "append"
      /\ journal' = Append(journal, Line(Env(h)))
      /\ UNCHANGED <<up, clock, tables, synced>>
  BY DEF AppendLine, At, IInv, TypeOK
<1>2. \/ Sync /\ Goto(h, "sync")
      \/ ~Sync /\ Respond(h, "accept")
  BY DEF AppendLine
<1>3. \/ pc' = [pc EXCEPT ![h] = "sync"] /\ UNCHANGED msg
      \/ /\ pc' = [pc EXCEPT ![h] = "idle"]
         /\ \A k \in Handlers : k # h => msg'[k] = msg[k]
  BY <1>1, <1>2, RespondFacts DEF Goto, Respond
<1>4. IDInv'
  BY <1>1, <1>3, AppendStep
<1>5. /\ msg[h] \in Storable /\ msg[h] \in Messages
      /\ Line(Env(h)) \in Lines
  BY <1>1, LineIDs DEF IInv, StorableInv, Storing, Storable, Env
<1>6. /\ journal \in Seq(Lines) /\ journal' \in Seq(Lines)
      /\ synced \in 0 .. Len(journal) /\ Len(journal) \in Nat
      /\ DOMAIN journal = 1 .. Len(journal)
      /\ Len(journal') = Len(journal) + 1
      /\ DOMAIN journal' = 1 .. Len(journal) + 1
      /\ \A i \in 1 .. Len(journal) : journal'[i] = journal[i]
      /\ journal'[Len(journal) + 1] = Line(Env(h))
  BY <1>1, <1>5 DEF TypeOK
<1>7. /\ pc' \in [Handlers -> Labels]
      /\ msg' \in [Handlers -> Messages \cup {NoMessage}]
      /\ cancelled' \in [Handlers -> BOOLEAN]
      /\ answers' \subseteq Messages \X Observed
      /\ \A k \in Handlers : pc'[k] # "idle" =>
            /\ msg'[k] = msg[k] /\ msg'[k] \in Messages
            /\ k # h => pc'[k] = pc[k]
      /\ Sync => answers' = answers
  <2>1. CASE Goto(h, "sync")
    BY <1>1, <2>1 DEF Goto, TypeOK, Labels
  <2>2. CASE ~Sync /\ Respond(h, "accept")
    BY <1>1, <2>2, RespondFacts DEF TypeOK
  <2> QED
    BY <1>2, <2>1, <2>2
<1>8. TypeOK'
  BY <1>1, <1>6, <1>7 DEF TypeOK
<1>9. StorableInv'
  BY <1>5, <1>7 DEF IInv, StorableInv, Storing
<1>10. DurableInv'
  <2>1. ASSUME NEW k \in Handlers, pc'[k] = "sync"
        PROVE  \E i \in DOMAIN journal' : journal'[i] = Line(Env(k))'
    <3>1. Line(Env(k))' = Line(Env(k))
      BY <1>7, <2>1 DEF Line, Env
    <3>2. CASE k = h
      BY <1>6, <3>1, <3>2
    <3>3. CASE k # h
      BY <1>6, <1>7, <2>1, <3>1, <3>3 DEF IInv, DurableInv
    <3> QED
      BY <3>2, <3>3
  <2>2. \A i \in 1 .. synced : journal'[i] = journal[i]
    BY <1>6
  <2> QED
    BY <1>1, <1>7, <2>1, <2>2 DEF IInv, DurableInv
<1> QED
  BY <1>4, <1>8, <1>9, <1>10 DEF IInv

(* The fsync: everything written so far becomes durable. *)
LEMMA SyncFileIInv ==
  ASSUME IInv, NEW h \in Handlers, SyncFile(h)
  PROVE  IInv'
<1>1. /\ TypeOK /\ pc[h] = "sync" /\ Respond(h, "accept")
      /\ synced' = Len(journal)
      /\ UNCHANGED <<up, clock, tables, journal>>
  BY DEF SyncFile, At, IInv
<1>2. \A k \in Handlers : pc'[k] # "idle" => pc'[k] = pc[k] /\ msg'[k] = msg[k]
  BY <1>1, RespondFacts
<1>3. TypeOK'
  <2>1. synced' \in 0 .. Len(journal')
    BY <1>1 DEF TypeOK
  <2> QED
    BY <1>1, <2>1, RespondFacts DEF TypeOK
<1>4. StorableInv'
  BY <1>2 DEF IInv, StorableInv, Storing
<1>5. IDInv'
  BY <1>1, <1>2, QuietStep
  DEF IInv, IDInv, VerifiedInv, Verifying, Admitted, Pending
<1>6. DurableInv'
  <2>1. \A k \in Handlers : pc'[k] = "sync" =>
            pc[k] = "sync" /\ Line(Env(k))' = Line(Env(k))
    BY <1>2 DEF Line, Env
  <2>2. 1 .. synced' = DOMAIN journal /\ 1 .. synced \subseteq DOMAIN journal
    BY <1>1 DEF TypeOK
  <2>3. msg[h] \in Storable /\ \E i \in DOMAIN journal :
            journal[i] = Line(Envelope[msg[h]])
    BY <1>1 DEF IInv, StorableInv, Storing, DurableInv, Env
  <2>4. ASSUME Sync, NEW m \in Messages, <<m, "accept">> \in answers'
        PROVE  m \in Storable /\ \E i \in 1 .. synced' :
                    journal[i] = Line(Envelope[m])
    <3>1. CASE <<m, "accept">> \in answers
      BY <2>2, <2>4, <3>1 DEF IInv, DurableInv
    <3>2. CASE <<m, "accept">> = <<msg[h], "accept">>
      BY <2>2, <2>3, <3>2
    <3> QED
      BY <1>1, <2>4, <3>1, <3>2, RespondFacts
  <2> QED
    BY <1>1, <2>1, <2>4 DEF IInv, DurableInv
<1> QED
  BY <1>3, <1>4, <1>5, <1>6 DEF IInv

(* A crash keeps a prefix of the file, the durable one at least. *)
LEMMA CrashIInv ==
  ASSUME IInv, Crash
  PROVE  IInv'
<1>1. /\ TypeOK /\ \A h \in Handlers : pc'[h] = "idle"
      /\ UNCHANGED <<clock, tables, synced, answers>>
  BY DEF IInv, Crash
<1>2. PICK n \in synced .. Len(journal) : journal' = SubSeq(journal, 1, n)
  BY DEF Crash
<1>3. /\ journal \in Seq(Lines) /\ synced \in Nat /\ Len(journal) \in Nat
      /\ n \in Nat /\ synced <= n /\ n <= Len(journal)
  BY <1>1 DEF TypeOK
<1>4. /\ journal' \in Seq(Lines) /\ Len(journal') = n
      /\ DOMAIN journal' = 1 .. n /\ DOMAIN journal = 1 .. Len(journal)
      /\ \A i \in 1 .. n : journal'[i] = journal[i]
  BY <1>2, <1>3
<1>5. TypeOK'
  <2>1. /\ up' \in BOOLEAN /\ pc' \in [Handlers -> Labels]
        /\ msg' \in [Handlers -> Messages \cup {NoMessage}]
        /\ cancelled' \in [Handlers -> BOOLEAN]
    BY DEF Crash, Labels
  <2>2. synced' \in 0 .. Len(journal')
    BY <1>1, <1>3, <1>4
  <2> QED
    BY <1>1, <1>4, <2>1, <2>2 DEF TypeOK
<1>6. StorableInv' /\ VerifiedInv' /\ AdmittedInv' /\ PendingInv'
      /\ UnstoredInv'
  BY <1>1
  DEF StorableInv, VerifiedInv, AdmittedInv, PendingInv, UnstoredInv, Storing,
      Verifying, Admitted, Pending
<1>7. 1 .. n \subseteq 1 .. Len(journal) /\ 1 .. synced \subseteq 1 .. n
  BY <1>3
<1>8. JournalInv'
  BY <1>1, <1>4, <1>7
  DEF IInv, IDInv, JournalInv, HasIDs, Recorded, SeenFrame, StaleSequence,
      Clash
<1>9. DurableInv'
  BY <1>1, <1>4, <1>7 DEF IInv, DurableInv
<1> QED
  BY <1>5, <1>6, <1>8, <1>9 DEF IInv, IDInv

(* A step that leaves the handlers, the tables and the file alone. *)
LEMMA IdleIInv ==
  ASSUME IInv, up' \in BOOLEAN, clock' \in Nat,
         cancelled' \in [Handlers -> BOOLEAN],
         UNCHANGED <<tables, journal, synced, pc, msg, answers>>
  PROVE  IInv'
<1>1. TypeOK'
  BY DEF IInv, TypeOK
<1>2. StorableInv'
  BY DEF IInv, StorableInv
<1>3. IDInv'
  BY QuietStep DEF IInv, IDInv, VerifiedInv
<1>4. DurableInv'
  BY DEF IInv, DurableInv, Env, Line
<1> QED
  BY <1>1, <1>2, <1>3, <1>4 DEF IInv

(* Every step preserves the invariant. *)
LEMMA NextIInv == IInv /\ [Next]_vars => IInv'
<1> SUFFICES ASSUME IInv, [Next]_vars
             PROVE  IInv'
  OBVIOUS
<1>1. ASSUME NEW h \in Handlers, NEW m \in Messages, Receive(h, m)
      PROVE  IInv'
  BY <1>1, ReceiveIInv
<1>2. ASSUME NEW h \in Handlers, Step(h)
      PROVE  IInv'
  <2>1. CASE SyncFails(h)
    BY <2>1, RefuseStep DEF SyncFails
  <2> QED
    BY <1>2, <2>1, AuthenticateIInv, RecordIInv, ProcessIInv, CheckContextIInv,
       SyncFileIInv DEF Step
<1>3. ASSUME NEW h \in Handlers, Write(h)
      PROVE  IInv'
  <2>1. CASE AppendFails(h)
    BY <2>1, RefuseStep DEF AppendFails
  <2> QED
    BY <1>3, <2>1, AppendLineIInv DEF Write
<1>4. ASSUME NEW h \in Handlers, Cancel(h)
      PROVE  IInv'
  BY <1>4, IdleIInv DEF Cancel, IInv, TypeOK
<1>5. CASE Tick
  BY <1>5, IdleIInv DEF Tick, IInv, TypeOK
<1>6. CASE Crash
  BY <1>6, CrashIInv
<1>7. CASE Restart
  BY <1>7, IdleIInv DEF Restart, IInv, TypeOK
<1>8. CASE UNCHANGED vars
  BY <1>8, IdleIInv DEF vars, IInv, TypeOK
<1> QED
  BY <1>1, <1>2, <1>3, <1>4, <1>5, <1>6, <1>7, <1>8 DEF Next

-----------------------------------------------------------------------------
(* The inductive invariant of the ingest path. *)
THEOREM SpecIInv == Spec => []IInv
  BY InitIInv, NextIInv, PTL DEF Spec

(* The ingest path is type correct. *)
THEOREM TypeCorrect == Spec => []TypeOK
<1>1. IInv => TypeOK
  BY DEF IInv
<1> QED
  BY <1>1, SpecIInv, PTL

(* No two stored lines of a device share a frame ID or a sequence number,  *)
(* however messages are duplicated, reordered and interleaved and whatever *)
(* crashes or fails (auth.go:227, service.go:48-91).                       *)
THEOREM StoredAtMostOnce == Spec => []AtMostOnce
<1>1. IInv => AtMostOnce
  BY DEF IInv, IDInv, JournalInv, AtMostOnce, Clash
<1> QED
  BY <1>1, SpecIInv, PTL

(* Storage never runs ahead of replay protection (auth.go:227 before       *)
(* service.go:88).                                                         *)
THEOREM StoredStaysRecorded == Spec => []StoredIsRecorded
<1>1. IInv => StoredIsRecorded
  BY DEF IInv, IDInv, JournalInv, StoredIsRecorded, Recorded
<1> QED
  BY <1>1, SpecIInv, PTL

(* With fsync on, an acknowledged frame is in the file for good            *)
(* (storage.go:96-100, service.go:88-99).                                  *)
THEOREM AcceptedStaysStored == Spec => []AcceptedIsStored
<1>1. IInv => AcceptedIsStored
  <2>1. TypeOK => 1 .. synced \subseteq DOMAIN journal
    BY DEF TypeOK
  <2> QED
    BY <2>1 DEF IInv, DurableInv, AcceptedIsStored
<1> QED
  BY <1>1, SpecIInv, PTL

-----------------------------------------------------------------------------
(* What is stored was authorised, and what was refused is not stored.      *)
(* Both need what a handler past the verifier carries; the steps are first *)
(* summed up by what they may do to handlers, tables, file and answers.    *)

Refusals == {"drop", "quarantine"}

(* Nobody gets past the verifier without its checks, or past the guard     *)
(* without being recorded in that very step.                               *)
HandlerEffect ==
    \A k \in Handlers :
        /\ pc'[k] \in Verifying =>
            /\ msg'[k] = msg[k]
            /\ \/ pc[k] \in Verifying
               \/ pc[k] = "verify" /\ Verified(Env(k), Peer[msg[k]], clock)
        /\ pc'[k] \in Pending =>
            \/ pc[k] \in Pending
            \/ /\ pc[k] = "record" /\ ~Replayed(tables, Env(k))
               /\ UNCHANGED <<journal, answers>>

TableEffect ==
    \/ UNCHANGED tables
    \/ \E h \in Handlers :
        /\ pc[h] = "record" /\ ~Replayed(tables, Env(h))
        /\ tables' = Remember(tables, Env(h))

(* The file grows by a line of a handler that is there to write it, or     *)
(* keeps a prefix.                                                         *)
FileEffect ==
    \/ UNCHANGED journal
    \/ /\ \E h \in Handlers :
            pc[h] = "append" /\ journal' = Append(journal, Line(Env(h)))
       /\ \A m \in Messages, a \in Refusals :
            <<m, a>> \in answers' => <<m, a>> \in answers
    \/ \E n \in 0 .. Len(journal) : journal' = SubSeq(journal, 1, n)

(* Only the sanitizer refuses, and the handler is done. *)
AnswerEffect ==
    \A m \in Messages, a \in Refusals :
        <<m, a>> \in answers' =>
            \/ <<m, a>> \in answers
            \/ \E h \in Handlers :
                /\ msg[h] = m /\ pc[h] = "process"
                /\ pc' = [pc EXCEPT ![h] = "idle"]

StepEffect == HandlerEffect /\ TableEffect /\ FileEffect /\ AnswerEffect

(* No error of the verifier is a refusal of the sanitizer. *)
LEMMA ErrorIsNoRefusal ==
  ASSUME NEW err
  PROVE  MapAuthError(err) \notin Refusals
  BY DEF MapAuthError, Refusals

(* A handler that answers: the others stay where they are. *)
LEMMA RespondEffect ==
  ASSUME TypeOK, NEW h \in Handlers, NEW a, Respond(h, a),
         a \in Refusals => pc[h] = "process"
  PROVE  HandlerEffect /\ AnswerEffect
<1>1. \A k \in Handlers : pc'[k] # "idle" => pc'[k] = pc[k] /\ msg'[k] = msg[k]
  BY RespondFacts
<1>2. HandlerEffect
  BY <1>1 DEF HandlerEffect, Verifying, Pending
<1>3. AnswerEffect
  BY RespondFacts DEF AnswerEffect, Respond
<1> QED
  BY <1>2, <1>3

(* A handler that goes on. *)
LEMMA GotoEffect ==
  ASSUME TypeOK, NEW h \in Handlers, NEW label, Goto(h, label),
         label \in Verifying =>
            \/ pc[h] \in Verifying
            \/ pc[h] = "verify" /\ Verified(Env(h), Peer[msg[h]], clock),
         label \in Pending =>
            \/ pc[h] \in Pending
            \/ pc[h] = "record" /\ ~Replayed(tables, Env(h)) /\ UNCHANGED journal
  PROVE  HandlerEffect /\ AnswerEffect
<1>1. \A k \in Handlers : pc'[k] = IF k = h THEN label ELSE pc[k]
  BY DEF Goto, TypeOK
<1>2. UNCHANGED <<msg, answers>>
  BY DEF Goto
<1> QED
  BY <1>1, <1>2 DEF HandlerEffect, AnswerEffect

(* Every step has such an effect. *)
LEMMA StepHasEffect ==
  ASSUME IInv, NEW h \in Handlers, Step(h)
  PROVE  StepEffect
<1> USE DEF StepEffect
<1>1. TypeOK
  BY DEF IInv
<1>2. CASE Authenticate(h)
  <2>1. CASE Verified(Env(h), Peer[msg[h]], clock) /\ Goto(h, "record")
    BY <1>1, <1>2, <2>1, GotoEffect
    DEF Authenticate, At, Pending, TableEffect, FileEffect
  <2>2. CASE Respond(h, MapAuthError(VerifyError(Env(h), Peer[msg[h]], clock)))
    BY <1>1, <1>2, <2>2, RespondEffect, ErrorIsNoRefusal
    DEF Authenticate, TableEffect, FileEffect
  <2> QED
    BY <1>2, <2>1, <2>2 DEF Authenticate
<1>3. CASE Record(h)
  <2>1. CASE Respond(h, MapAuthError("ErrReplay")) /\ UNCHANGED tables
    BY <1>1, <1>3, <2>1, RespondEffect, ErrorIsNoRefusal
    DEF Record, TableEffect, FileEffect
  <2>2. CASE /\ ~Replayed(tables, Env(h))
             /\ tables' = Remember(tables, Env(h))
             /\ Goto(h, "process")
    <3>1. pc[h] = "record" /\ UNCHANGED journal
      BY <1>3 DEF Record, At
    <3>2. HandlerEffect /\ AnswerEffect
      BY <1>1, <2>2, <3>1, GotoEffect DEF Verifying
    <3> QED
      BY <2>2, <3>1, <3>2 DEF TableEffect, FileEffect
  <2> QED
    BY <1>3, <2>1, <2>2 DEF Record
<1>4. CASE RecordFails(h)
  BY <1>1, <1>4, RespondEffect, ErrorIsNoRefusal
  DEF RecordFails, At, TableEffect, FileEffect
<1>5. CASE Process(h)
  <2>1. CASE Goto(h, "store")
    BY <1>1, <1>5, <2>1, GotoEffect
    DEF Process, At, Verifying, Pending, TableEffect, FileEffect
  <2>2. CASE Respond(h, Outcome(Env(h)))
    BY <1>1, <1>5, <2>2, RespondEffect DEF Process, At, TableEffect, FileEffect
  <2> QED
    BY <1>5, <2>1, <2>2 DEF Process
<1>6. CASE CheckContext(h)
  <2>1. CASE Goto(h, "append")
    BY <1>1, <1>6, <2>1, GotoEffect
    DEF CheckContext, At, Verifying, Pending, TableEffect, FileEffect
  <2>2. CASE Respond(h, "Internal")
    BY <1>1, <1>6, <2>2, RespondEffect
    DEF CheckContext, Refusals, TableEffect, FileEffect
  <2> QED
    BY <1>6, <2>1, <2>2 DEF CheckContext
<1>7. CASE SyncFile(h) \/ SyncFails(h)
  BY <1>1, <1>7, RespondEffect
  DEF SyncFile, SyncFails, Refusals, TableEffect, FileEffect
<1> QED
  BY <1>2, <1>3, <1>4, <1>5, <1>6, <1>7 DEF Step

LEMMA WriteHasEffect ==
  ASSUME IInv, NEW h \in Handlers, Write(h)
  PROVE  StepEffect
<1> USE DEF StepEffect
<1>1. TypeOK
  BY DEF IInv
<1>2. CASE AppendLine(h)
  <2>1. /\ pc[h] = "append" /\ journal' = Append(journal, Line(Env(h)))
        /\ UNCHANGED tables
    BY <1>2 DEF AppendLine, At
  <2>2. HandlerEffect /\ AnswerEffect
    <3>1. CASE Goto(h, "sync")
      BY <1>1, <2>1, <3>1, GotoEffect DEF Verifying, Pending
    <3>2. CASE Respond(h, "accept")
      BY <1>1, <3>2, RespondEffect DEF Refusals
    <3> QED
      BY <1>2, <3>1, <3>2 DEF AppendLine
  <2>3. \A m \in Messages, a \in Refusals :
            <<m, a>> \in answers' => <<m, a>> \in answers
    <3>1. CASE Goto(h, "sync")
      BY <3>1 DEF Goto
    <3>2. CASE Respond(h, "accept")
      BY <1>1, <3>2, RespondFacts DEF Refusals
    <3> QED
      BY <1>2, <3>1, <3>2 DEF AppendLine
  <2> QED
    BY <2>1, <2>2, <2>3 DEF TableEffect, FileEffect
<1>3. CASE AppendFails(h)
  BY <1>1, <1>3, RespondEffect DEF AppendFails, Refusals, TableEffect, FileEffect
<1> QED
  BY <1>2, <1>3 DEF Write

LEMMA NextHasEffect ==
  ASSUME IInv, [Next]_vars
  PROVE  StepEffect
<1> USE DEF StepEffect
<1>1. ASSUME NEW h \in Handlers, NEW m \in Messages, Receive(h, m)
      PROVE  StepEffect
  <2>1. UNCHANGED <<tables, journal>>
    BY <1>1 DEF Receive
  <2>2. HandlerEffect
    BY <1>1 DEF Receive, At, IInv, TypeOK, HandlerEffect, Verifying, Pending
  <2>3. AnswerEffect
    <3>1. CASE UNCHANGED answers
      BY <3>1 DEF AnswerEffect
    <3>2. CASE Observe(m, "InvalidArgument")
      BY <3>2 DEF Observe, AnswerEffect, Refusals
    <3> QED
      BY <1>1, <3>1, <3>2 DEF Receive
  <2> QED
    BY <2>1, <2>2, <2>3 DEF TableEffect, FileEffect
<1>2. ASSUME NEW h \in Handlers, Cancel(h)
      PROVE  StepEffect
  BY <1>2 DEF Cancel, HandlerEffect, TableEffect, FileEffect, AnswerEffect
<1>3. CASE Tick \/ Restart \/ UNCHANGED vars
  BY <1>3 DEF Tick, Restart, vars, HandlerEffect, TableEffect, FileEffect,
              AnswerEffect
<1>4. CASE Crash
  <2>1. HandlerEffect /\ TableEffect /\ AnswerEffect
    BY <1>4 DEF Crash, HandlerEffect, TableEffect, AnswerEffect, Verifying,
                Pending
  <2>2. FileEffect
    BY <1>4 DEF Crash, FileEffect, IInv, TypeOK
  <2> QED
    BY <2>1, <2>2
<1> QED
  BY <1>1, <1>2, <1>3, <1>4, StepHasEffect, WriteHasEffect DEF Next

(* The lines of the file after a step. *)
LEMMA LinesAfterStep ==
  ASSUME IInv, FileEffect, NEW i \in DOMAIN journal'
  PROVE  \/ i \in DOMAIN journal /\ journal'[i] = journal[i]
         \/ \E h \in Handlers : pc[h] = "append" /\ journal'[i] = Line(Env(h))
<1>1. journal \in Seq(Lines)
  BY DEF IInv, TypeOK
<1>2. CASE UNCHANGED journal
  BY <1>2
<1>3. ASSUME NEW h \in Handlers, pc[h] = "append",
             journal' = Append(journal, Line(Env(h)))
      PROVE  \/ i \in DOMAIN journal /\ journal'[i] = journal[i]
             \/ journal'[i] = Line(Env(h))
  <2>1. DOMAIN journal = 1 .. Len(journal) /\ Len(journal) \in Nat
    BY <1>1
  <2>2. DOMAIN journal' = 1 .. Len(journal) + 1
    BY <1>1, <1>3
  <2>3. CASE i = Len(journal) + 1
    BY <1>1, <1>3, <2>3
  <2>4. CASE i \in 1 .. Len(journal)
    BY <1>1, <1>3, <2>1, <2>4
  <2> QED
    BY <2>1, <2>2, <2>3, <2>4
<1>4. ASSUME NEW n \in 0 .. Len(journal), journal' = SubSeq(journal, 1, n)
      PROVE  i \in DOMAIN journal /\ journal'[i] = journal[i]
  BY <1>1, <1>4
<1> QED
  BY <1>2, <1>3, <1>4 DEF FileEffect

-----------------------------------------------------------------------------
(* The device of message m is registered, its key has signed the envelope, *)
(* and the peer has the certificate that the device is bound to.           *)
Authorised(m) ==
    LET e == Envelope[m] IN
    /\ KnownDevice(e)
    /\ e.signature.key = Registry[e.device].key
    /\ e.signature.over = CanonicalBytes(e)
    /\ Registry[e.device].cert \in {"", Peer[m]}

(* Handlers past the verifier carry authorised messages, and every line    *)
(* comes from one that the sanitizer accepts.                              *)
AuthorisedInv ==
    /\ \A h \in Handlers : pc[h] \in Verifying => Authorised(msg[h])
    /\ \A i \in DOMAIN journal :
        \E m \in Storable : Authorised(m) /\ journal[i] = Line(Envelope[m])

(* Envelopes that pass the checks are authorised. *)
LEMMA VerifiedIsAuthorised ==
  ASSUME NEW m, NEW now, Verified(Envelope[m], Peer[m], now)
  PROVE  Authorised(m)
<1> DEFINE e == Envelope[m]
<1> DEFINE Fails11 == ~KnownDevice(e)
<1> DEFINE Fails13 == KnownDevice(e) /\ CertMismatch(e, Peer[m])
<1> DEFINE Fails15 ==
        KnownDevice(e) /\ ~VerifySignature(Registry[e.device].key, e)
<1>1. /\ Check(11, Fails11, "ErrUnauthorized") \in Checks(e, Peer[m], now)
      /\ Check(13, Fails13, "ErrCertMismatch") \in Checks(e, Peer[m], now)
      /\ Check(15, Fails15, "ErrInvalidSignature") \in Checks(e, Peer[m], now)
  BY DEF Checks
<1>2. /\ Check(11, Fails11, "ErrUnauthorized").fails = Fails11
      /\ Check(13, Fails13, "ErrCertMismatch").fails = Fails13
      /\ Check(15, Fails15, "ErrInvalidSignature").fails = Fails15
  BY DEF Check
<1>3. ~Fails11 /\ ~Fails13 /\ ~Fails15
  BY <1>1, <1>2 DEF Verified
<1>4. KnownDevice(e) /\ VerifySignature(Registry[e.device].key, e)
  BY <1>3
<1>5. ~CertMismatch(e, Peer[m])
  BY <1>3, <1>4
<1>6. Registry[e.device].cert \in {"", Peer[m]}
  BY <1>5, Zenon DEF CertMismatch
<1> QED
  BY <1>4, <1>6, Zenon DEF Authorised, VerifySignature

(* AuthorisedInv is kept by every step. *)
LEMMA NextAuthorisedInv ==
  ASSUME IInv, AuthorisedInv, StepEffect
  PROVE  AuthorisedInv'
<1>1. ASSUME NEW h \in Handlers, pc'[h] \in Verifying
      PROVE  Authorised(msg'[h])
  <2>1. msg'[h] = msg[h]
    BY <1>1 DEF StepEffect, HandlerEffect
  <2>2. CASE pc[h] \in Verifying
    BY <2>1, <2>2 DEF AuthorisedInv
  <2>3. CASE Verified(Env(h), Peer[msg[h]], clock)
    BY <2>1, <2>3, VerifiedIsAuthorised DEF Env
  <2> QED
    BY <1>1, <2>2, <2>3 DEF StepEffect, HandlerEffect
<1>2. ASSUME NEW i \in DOMAIN journal'
      PROVE  \E m \in Storable :
                Authorised(m) /\ journal'[i] = Line(Envelope[m])
  <2>1. CASE i \in DOMAIN journal /\ journal'[i] = journal[i]
    BY <2>1 DEF AuthorisedInv
  <2>2. ASSUME NEW h \in Handlers, pc[h] = "append", journal'[i] = Line(Env(h))
        PROVE  \E m \in Storable :
                Authorised(m) /\ journal'[i] = Line(Envelope[m])
    <3>1. msg[h] \in Storable /\ Authorised(msg[h])
      BY <2>2 DEF IInv, StorableInv, Storing, AuthorisedInv, Verifying
    <3> QED
      BY <2>2, <3>1 DEF Env
  <2> QED
    BY <1>2, <2>1, <2>2, LinesAfterStep DEF StepEffect
<1> QED
  BY <1>1, <1>2 DEF AuthorisedInv

(* What the sanitizer lets through. *)
LEMMA StorableIsClean ==
  ASSUME NEW m \in Storable
  PROVE  LET e == Envelope[m]  raw == BoundFrame(e) IN
         /\ Decodes(e)
         /\ \A id \in StringIDs \cup {"sequence"} : Line(e)[id] = e[id]
         /\ Line(e).package = raw.package
         /\ Package(raw) \in AllowedPackages \ SensitivePackages
         /\ Line(e).hashes \cap (RegexPII \cup NEREntities) = {}
<1> DEFINE e == Envelope[m]
<1> DEFINE raw == BoundFrame(e)
<1>1. Outcome(e) = "accept"
  BY DEF Storable
<1>2. Decodes(e) /\ Binds(e) /\ Decision(raw) = "accept"
  BY <1>1 DEF Outcome
<1>3. Line(e).hashes \cap (RegexPII \cup NEREntities) = {}
  BY DEF Line, SanitizedFrame, Redacted
<1>4. Line(e).package = raw.package
  BY DEF Line, SanitizedFrame
<1>5. \A id \in StringIDs \cup {"sequence"} : Line(e)[id] = raw[id]
  BY DEF Line, SanitizedFrame, StringIDs
<1>6. Package(raw) \in AllowedPackages \ SensitivePackages
  BY <1>2 DEF Decision
<1> QED
  BY <1>2, <1>3, <1>4, <1>5, <1>6 DEF Binds

(* Only frames that a registered device signed under the line's IDs and    *)
(* that the sanitizer cleared are stored (auth.go:200-226, service.go:     *)
(* 54-61, sanitize.go:111-120).                                            *)
THEOREM StoredStaysAuthorised == Spec => []StoredIsAuthorised
<1>1. Init => AuthorisedInv
  BY DEF Init, AuthorisedInv, Verifying
<1>2. IInv /\ AuthorisedInv /\ [Next]_vars => AuthorisedInv'
  BY NextHasEffect, NextAuthorisedInv
<1>3. AuthorisedInv => StoredIsAuthorised
  <2> SUFFICES ASSUME AuthorisedInv, NEW i \in DOMAIN journal
               PROVE  StoredIsAuthorised!(i)
    BY DEF StoredIsAuthorised
  <2>1. PICK m \in Storable : Authorised(m) /\ journal[i] = Line(Envelope[m])
    BY DEF AuthorisedInv
  <2>2. m \in Messages
    BY DEF Storable
  <2> QED
    BY <2>1, <2>2, StorableIsClean, Zenon DEF Authorised
<1> QED
  BY <1>1, <1>2, <1>3, SpecIInv, PTL DEF Spec

-----------------------------------------------------------------------------
(* A refused frame's ID is recorded, so that no handler gets past the      *)
(* guard with it again; none is on its way with it, and no line has it.    *)
RefusedInv ==
    \A m \in Messages, a \in Refusals :
        <<m, a>> \in answers =>
            /\ SeenFrame(tables, Envelope[m])
            /\ \A h \in Handlers :
                pc[h] \in Pending => ~SameFrame(Env(h), Envelope[m])
            /\ \A i \in DOMAIN journal : ~SameFrame(journal[i], Envelope[m])

(* The guard forgets no frame ID. *)
LEMMA SeenStaysSeen ==
  ASSUME IInv, TableEffect, NEW e, SeenFrame(tables, e)
  PROVE  SeenFrame(tables, e)'
<1>1. ASSUME NEW h \in Handlers, pc[h] = "record",
             tables' = Remember(tables, Env(h))
      PROVE  SeenFrame(tables, e)'
  <2>1. tables \in Tables /\ HasIDs(Env(h))
    BY <1>1 DEF IInv, TypeOK, IDInv, VerifiedInv, Verifying
  <2>2. tables'.seen = tables.seen \cup {<<Env(h).device, Env(h).frame>>}
    BY <1>1, <2>1, RememberFields
  <2> QED
    BY <2>2 DEF SeenFrame
<1> QED
  BY <1>1 DEF TableEffect, SeenFrame

(* RefusedInv is kept by every step. *)
LEMMA NextRefusedInv ==
  ASSUME IInv, RefusedInv, StepEffect
  PROVE  RefusedInv'
<1> SUFFICES ASSUME NEW m \in Messages, NEW a \in Refusals,
                    <<m, a>> \in answers'
             PROVE  /\ SeenFrame(tables, Envelope[m])'
                    /\ \A h \in Handlers :
                        pc'[h] \in Pending => ~SameFrame(Env(h)', Envelope[m])
                    /\ \A i \in DOMAIN journal' :
                        ~SameFrame(journal'[i], Envelope[m])
  BY DEF RefusedInv, SameFrame
<1>1. \A h \in Handlers : pc'[h] \in Pending => Env(h)' = Env(h)
  BY DEF StepEffect, HandlerEffect, Env, Pending, Verifying
<1>2. CASE <<m, a>> \in answers
  <2>1. SeenFrame(tables, Envelope[m])
    BY <1>2 DEF RefusedInv
  <2>2. ASSUME NEW h \in Handlers, pc'[h] \in Pending
        PROVE  ~SameFrame(Env(h), Envelope[m])
    <3>1. CASE pc[h] \in Pending
      BY <1>2, <3>1 DEF RefusedInv
    <3>2. CASE ~Replayed(tables, Env(h))
      BY <2>1, <3>2 DEF Replayed, SeenFrame, SameFrame
    <3> QED
      BY <2>2, <3>1, <3>2 DEF StepEffect, HandlerEffect
  <2>3. ASSUME NEW i \in DOMAIN journal'
        PROVE  ~SameFrame(journal'[i], Envelope[m])
    <3>1. CASE i \in DOMAIN journal /\ journal'[i] = journal[i]
      BY <1>2, <3>1 DEF RefusedInv
    <3>2. ASSUME NEW h \in Handlers, pc[h] = "append",
                 journal'[i] = Line(Env(h))
          PROVE  ~SameFrame(journal'[i], Envelope[m])
      <4>1. ~SameFrame(Env(h), Envelope[m])
        BY <1>2, <3>2 DEF RefusedInv, Pending
      <4>2. msg[h] \in Storable
        BY <3>2 DEF IInv, StorableInv, Storing
      <4> QED
        BY <3>2, <4>1, <4>2, LineIDs DEF SameFrame, Env
    <3> QED
      BY <2>3, <3>1, <3>2, LinesAfterStep DEF StepEffect
  <2> QED
    BY <1>1, <2>1, <2>2, <2>3, SeenStaysSeen DEF StepEffect
<1>3. ASSUME <<m, a>> \notin answers,
             NEW h \in Handlers, msg[h] = m, pc[h] = "process",
             pc' = [pc EXCEPT ![h] = "idle"]
      PROVE  /\ SeenFrame(tables, Envelope[m])'
             /\ \A k \in Handlers :
                    pc'[k] \in Pending => ~SameFrame(Env(k)', Envelope[m])
             /\ \A i \in DOMAIN journal' :
                    ~SameFrame(journal'[i], Envelope[m])
  <2>1. Env(h) = Envelope[m] /\ pc \in [Handlers -> Labels]
    BY <1>3 DEF Env, IInv, TypeOK
  <2>2. SeenFrame(tables, Envelope[m])
    BY <1>3, <2>1 DEF IInv, IDInv, AdmittedInv, Admitted, Recorded
  <2>3. ASSUME NEW k \in Handlers, pc'[k] \in Pending
        PROVE  ~SameFrame(Env(k), Envelope[m])
    <3>1. k # h /\ pc[k] \in Pending
      BY <1>3, <2>1, <2>3 DEF Pending
    <3>2. ~Clash(Env(k), Env(h))
      BY <1>3, <3>1 DEF IInv, IDInv, PendingInv, Pending
    <3> QED
      BY <2>1, <3>2 DEF Clash, SameFrame
  <2>4. ASSUME NEW i \in DOMAIN journal'
        PROVE  ~SameFrame(journal'[i], Envelope[m])
    <3>1. i \in DOMAIN journal /\ journal'[i] = journal[i]
      <4>1. \/ UNCHANGED journal
            \/ \E n \in 0 .. Len(journal) : journal' = SubSeq(journal, 1, n)
        BY <1>3 DEF StepEffect, FileEffect
      <4>2. journal \in Seq(Lines)
        BY DEF IInv, TypeOK
      <4> QED
        BY <2>4, <4>1, <4>2
    <3>2. ~Clash(journal[i], Env(h))
      BY <1>3, <3>1 DEF IInv, IDInv, UnstoredInv, Pending
    <3> QED
      BY <2>1, <3>1, <3>2 DEF Clash, SameFrame
  <2> QED
    BY <1>1, <2>2, <2>3, <2>4, SeenStaysSeen DEF StepEffect
<1> QED
  BY <1>2, <1>3 DEF StepEffect, AnswerEffect

(* A frame that the sanitizer has dropped or quarantined is never stored,  *)
(* under whichever envelope it comes again (service.go:69-87, auth.go:227).*)
THEOREM RefusedStaysUnstored == Spec => []RefusedIsNotStored
<1>1. Init => RefusedInv
  BY DEF Init, RefusedInv
<1>2. IInv /\ RefusedInv /\ [Next]_vars => RefusedInv'
  BY NextHasEffect, NextRefusedInv
<1>3. RefusedInv => RefusedIsNotStored
  BY DEF RefusedInv, RefusedIsNotStored, Refusals
<1> QED
  BY <1>1, <1>2, <1>3, SpecIInv, PTL DEF Spec

-----------------------------------------------------------------------------
(* A golem-proxy process that is started, stopped and started again does   *)
(* to the stored frames and the replay tables only what the ingest path    *)
(* may do.  What is proved of the ingest path above therefore holds across *)
(* the life cycles of the process.  And guard and sink are closed under no *)
(* client that still waits for an answer.                                  *)

(* Each step of the process is a step of the ingest path, or leaves its    *)
(* state alone.                                                            *)
LEMMA StepImplementsNext == [ProxyNext]_allVars => [Next]_vars
<1> SUFFICES ASSUME [ProxyNext]_allVars
             PROVE  [Next]_vars
  OBVIOUS
<1>1. ASSUME NEW h \in Handlers, NEW m \in Messages, Accept(h, m)
      PROVE  Next
  BY <1>1 DEF Accept, Next
<1>0. ASSUME NEW h \in Handlers, OpenStream(h) \/ Abandon(h)
      PROVE  UNCHANGED vars
  BY <1>0 DEF OpenStream, Abandon
<1>2. ASSUME NEW h \in Handlers, Handle(h)
      PROVE  Next
  <2>1. Step(h)
    BY <1>2 DEF Handle, Step
  <2> QED
    BY <2>1 DEF Next
<1>3. ASSUME NEW h \in Handlers, HandleWrite(h)
      PROVE  Next
  BY <1>3 DEF HandleWrite, Next
<1>4. CASE Start
  BY <1>4 DEF Start, Next
<1>5. CASE ServeGRPC \/ ServeHTTP \/ Signal \/ CloseSink
  BY <1>5 DEF ServeGRPC, ServeHTTP, Signal, CloseSink
<1>6. CASE GracefulStop \/ Drained \/ Stop \/ CloseGuard
  BY <1>6 DEF GracefulStop, Drained, Stop, CloseGuard
<1>7. ASSUME NEW h \in Handlers, StopHandler(h)
      PROVE  [Next]_vars
  BY <1>7 DEF StopHandler, Next
<1>8. CASE Exit \/ Die
  BY <1>8 DEF Exit, Die, Next
<1>9. CASE Outside
  BY <1>9 DEF Outside, Next
<1>10. CASE UNCHANGED allVars
  BY <1>10 DEF allVars
<1> QED
  BY <1>0, <1>1, <1>2, <1>3, <1>4, <1>5, <1>6, <1>7, <1>8, <1>9, <1>10
  DEF ProxyNext, Run

(* The process implements the ingest path. *)
THEOREM ProxyImplementsIngest == ProxySpec => ImplementsIngest
<1>1. ProxyInit => Init
  BY DEF ProxyInit
<1> QED
  BY <1>1, StepImplementsNext, PTL DEF ProxySpec, ImplementsIngest, Spec

(* Across starts, graceful stops, forced stops and crashes no frame is     *)
(* stored twice.                                                           *)
THEOREM ProxyStoresAtMostOnce == ProxySpec => []AtMostOnce
  BY ProxyImplementsIngest, StoredAtMostOnce, PTL DEF ImplementsIngest

(* ... and no frame that a client was told is accepted is lost.            *)
THEOREM ProxyKeepsAccepted == ProxySpec => []AcceptedIsStored
  BY ProxyImplementsIngest, AcceptedStaysStored, PTL DEF ImplementsIngest

(* Nothing else than cleared frames that a registered device signed gets   *)
(* into the file in any life of the process ...                            *)
THEOREM ProxyStoresAuthorised == ProxySpec => []StoredIsAuthorised
  BY ProxyImplementsIngest, StoredStaysAuthorised, PTL DEF ImplementsIngest

(* ... and a frame that one life has refused no later one stores.          *)
THEOREM ProxyKeepsRefusedOut == ProxySpec => []RefusedIsNotStored
  BY ProxyImplementsIngest, RefusedStaysUnstored, PTL DEF ImplementsIngest

-----------------------------------------------------------------------------
(* NoLiveRPCWhileClosing is not inductive: whoever closes the guard does   *)
(* not look at the RPCs after GracefulStop.  LifeInv adds what each phase  *)
(* knows of the server, and that nothing is left of a drained one.         *)
LifeInv ==
    /\ phase = "shutdown" => grpc = "drained"
    /\ phase = "stop" => grpc = "stopped"
    /\ GuardClosed => grpc \in {"drained", "stopped"} /\ streams = {}
    /\ GuardClosed => \A h \in Handlers : pc[h] # "idle" => cancelled[h]
    /\ grpc = "drained" => streams = {} /\ \A h \in Handlers : pc[h] = "idle"

(* A handler's step in the process is one of its steps in Ingest. *)
LEMMA HandleIsStep ==
  ASSUME NEW h \in Handlers, Handle(h)
  PROVE  Step(h) /\ UNCHANGED proxyVars
  BY DEF Handle, Step

(* A handler at work leaves the others alone, and is cancelled no less     *)
(* than before until it is done.                                           *)
LEMMA HandlerSteps ==
  ASSUME TypeOK, NEW h \in Handlers, Step(h) \/ Write(h) \/ Cancel(h)
  PROVE  /\ pc[h] # "idle"
         /\ \A k \in Handlers : k # h =>
                pc'[k] = pc[k] /\ cancelled'[k] = cancelled[k]
         /\ pc'[h] = "idle" \/ (cancelled[h] => cancelled'[h])
<1>1. ASSUME NEW label, Goto(h, label)
      PROVE  /\ \A k \in Handlers : k # h => pc'[k] = pc[k]
             /\ UNCHANGED cancelled
  BY <1>1 DEF Goto, TypeOK
<1>2. ASSUME NEW answer, Respond(h, answer)
      PROVE  /\ pc'[h] = "idle"
             /\ \A k \in Handlers : k # h =>
                    pc'[k] = pc[k] /\ cancelled'[k] = cancelled[k]
  BY <1>2 DEF Respond, TypeOK
<1>3. CASE Authenticate(h)
  BY <1>1, <1>2, <1>3 DEF Authenticate, At
<1>4. CASE Record(h) \/ RecordFails(h)
  BY <1>1, <1>2, <1>4 DEF Record, RecordFails, At
<1>5. CASE Process(h) \/ CheckContext(h)
  BY <1>1, <1>2, <1>5 DEF Process, CheckContext, At
<1>6. CASE SyncFile(h) \/ SyncFails(h)
  BY <1>1, <1>2, <1>6 DEF SyncFile, SyncFails, At
<1>7. CASE AppendLine(h) \/ AppendFails(h)
  BY <1>1, <1>2, <1>7 DEF AppendLine, AppendFails, At
<1>8. CASE Cancel(h)
  BY <1>8 DEF Cancel, TypeOK
<1> QED
  BY <1>3, <1>4, <1>5, <1>6, <1>7, <1>8 DEF Step, Write

(* So no handler's step makes an RPC live. *)
LEMMA HandlerLifeInv ==
  ASSUME TypeOK, LifeInv, NEW h \in Handlers, Step(h) \/ Write(h) \/ Cancel(h),
         UNCHANGED <<phase, grpc, errCh, signalled>>,
         streams' \subseteq streams
  PROVE  LifeInv'
<1>1. grpc # "drained"
  BY HandlerSteps DEF LifeInv
<1>2. streams = {} => streams' = {}
  OBVIOUS
<1>3. GuardClosed' => \A k \in Handlers : pc'[k] # "idle" => cancelled'[k]
  BY HandlerSteps DEF LifeInv, GuardClosed
<1> QED
  BY <1>1, <1>2, <1>3 DEF LifeInv, GuardClosed

LEMMA NextLifeInv == TypeOK /\ LifeInv /\ [ProxyNext]_allVars => LifeInv'
<1> SUFFICES ASSUME TypeOK, LifeInv, [ProxyNext]_allVars
             PROVE  LifeInv'
  OBVIOUS
<1>1. ASSUME NEW h \in Handlers, OpenStream(h) \/ Abandon(h)
      PROVE  LifeInv'
  BY <1>1 DEF OpenStream, Abandon, vars, LifeInv, GuardClosed
<1>2. ASSUME NEW h \in Handlers, NEW m \in Messages, Accept(h, m)
      PROVE  LifeInv'
  <2>1. grpc \notin {"drained", "stopped"} /\ UNCHANGED <<phase, grpc>>
    BY <1>2 DEF Accept
  <2> QED
    BY <2>1 DEF LifeInv, GuardClosed
<1>3. ASSUME NEW h \in Handlers, Handle(h) \/ HandleWrite(h)
      PROVE  LifeInv'
  BY <1>3, HandleIsStep, HandlerLifeInv DEF HandleWrite, proxyVars
<1>4. ASSUME NEW h \in Handlers, StopHandler(h)
      PROVE  LifeInv'
  <2>1. CASE Cancel(h) /\ UNCHANGED streams
    BY <1>4, <2>1, HandlerLifeInv DEF StopHandler
  <2>2. CASE streams' = streams \ {h} /\ UNCHANGED vars
    BY <1>4, <2>2 DEF StopHandler, vars, LifeInv, GuardClosed
  <2> QED
    BY <1>4, <2>1, <2>2 DEF StopHandler
<1>5. CASE Start
  BY <1>5 DEF Start, Restart, LifeInv, GuardClosed
<1>6. CASE ServeGRPC \/ ServeHTTP \/ Signal
  BY <1>6 DEF ServeGRPC, ServeHTTP, Signal, vars, LifeInv, GuardClosed
<1>7. CASE GracefulStop \/ Drained \/ Stop
  BY <1>7 DEF GracefulStop, Drained, Stop, vars, LifeInv, GuardClosed
<1>8. CASE CloseGuard \/ CloseSink
  BY <1>8 DEF CloseGuard, CloseSink, vars, LifeInv, GuardClosed
<1>9. CASE Exit \/ Die
  BY <1>9 DEF Exit, Die, Down, LifeInv, GuardClosed
<1>10. CASE Outside
  <2>1. ASSUME NEW h \in Handlers, Cancel(h), UNCHANGED proxyVars
        PROVE  LifeInv'
    BY <2>1, HandlerLifeInv DEF proxyVars
  <2>2. CASE Tick /\ UNCHANGED proxyVars
    BY <2>2 DEF Tick, proxyVars, LifeInv, GuardClosed
  <2> QED
    BY <1>10, <2>1, <2>2 DEF Outside
<1>11. CASE UNCHANGED allVars
  BY <1>11 DEF allVars, vars, proxyVars, LifeInv, GuardClosed
<1> QED
  BY <1>1, <1>2, <1>3, <1>4, <1>5, <1>6, <1>7, <1>8, <1>9, <1>10, <1>11
  DEF ProxyNext, Run

(* While the deferred calls close guard and sink and the process exits,    *)
(* every RPC has ended, or a server has failed and Stop has cut its client *)
(* off.                                                                    *)
THEOREM ClosingMeetsNoLiveRPC == ProxySpec => []NoLiveRPCWhileClosing
<1>1. ProxyInit => LifeInv
  BY DEF ProxyInit, LifeInv, GuardClosed
<1>2. ProxySpec => []TypeOK
  BY ProxyImplementsIngest, TypeCorrect, PTL DEF ImplementsIngest
<1>3. LifeInv => NoLiveRPCWhileClosing
  BY DEF LifeInv, NoLiveRPCWhileClosing
<1> QED
  BY <1>1, <1>2, <1>3, NextLifeInv, PTL DEF ProxySpec

=============================================================================
