----------------------------- MODULE GroupCommitProof -----------------------------
(***************************************************************************)
(* What holds of the write path for every set of clients, requests and     *)
(* keys, every bound, and every choice of crashes, power losses, write     *)
(* errors and torn tails: the log invariant, and from it that the write path   *)
(* implements DurableLog where no crash cuts a frame, that snapshots at or      *)
(* below the applied watermark are repeatable, that subscribers hear of       *)
(* durable writes only, and that one seek on the byte order of the keys, and    *)
(* a scan of them, read a snapshot.                                         *)
(***************************************************************************)
EXTENDS GroupCommit, Induction, SequenceTheorems

Frame == WalRecord \union {Torn}

(* Where the committer's loops and its staged writes stand, by pc. *)
LoopShape ==
  /\ pc \in {"apply", "publish", "ack"} => cursor \in 1 .. Len(staged)
  /\ pc \notin {"apply", "publish", "ack"} => cursor = 1
  /\ pc \in {"write", "fsync"} => staged # <<>>
  /\ pc \in {"recv", "down", "stopped"} => staged = <<>>

TInv == TypeOK /\ LoopShape

-----------------------------------------------------------------------------
(* Keys and seeks *)

(* Comparing a seek target with the key of a version of the same grain is   *)
(* comparing timestamps the other way round (keys.rs: newest first).        *)
LEMMA SamePrefixOrder ==
  ASSUME NEW v \in Version, NEW t \in 0 .. MaxTs
  PROVE  KeyLeq(SeekTarget(v.sid, v.pred, t), KeyOf(v)) <=> v.seq <= t
<1>1. MaxTs \in Nat /\ v.seq \in 0 .. MaxTs /\ v.sid \in Nat /\ v.pred \in Nat
  BY MvccAssumption DEF Version
<1> QED
  BY <1>1 DEF KeyLeq, KeyOf, SeekTarget, GrainKey, SamePrefix, Complement

(* A version that visibly belongs to the grain is at or after the target;   *)
(* one of another grain at or after the target is after all of the grain.   *)
LEMMA OtherGrainsSortAfter ==
  ASSUME NEW v \in Version, NEW w \in Version, NEW t \in 0 .. MaxTs,
         KeyLeq(SeekTarget(v.sid, v.pred, t), KeyOf(w)),
         ~ (w.sid = v.sid /\ w.pred = v.pred)
  PROVE  KeyLeq(KeyOf(v), KeyOf(w)) /\ ~ KeyLeq(KeyOf(w), KeyOf(v))
<1>1. /\ MaxTs \in Nat /\ v.seq \in 0 .. MaxTs /\ v.sid \in Nat /\ v.pred \in Nat
      /\ w.seq \in 0 .. MaxTs /\ w.sid \in Nat /\ w.pred \in Nat
  BY MvccAssumption DEF Version
<1> QED
  BY <1>1 DEF KeyLeq, KeyOf, SeekTarget, GrainKey, SamePrefix, Complement

(* Within one grain the key order is the reverse of the timestamp order.    *)
LEMMA NewestFirst ==
  ASSUME NEW v \in Version, NEW w \in Version,
         w.sid = v.sid, w.pred = v.pred
  PROVE  KeyLeq(KeyOf(v), KeyOf(w)) <=> w.seq <= v.seq
<1>1. /\ MaxTs \in Nat /\ v.seq \in 0 .. MaxTs /\ v.sid \in Nat /\ v.pred \in Nat
      /\ w.seq \in 0 .. MaxTs
  BY MvccAssumption DEF Version
<1> QED
  BY <1>1 DEF KeyLeq, KeyOf, GrainKey, SamePrefix, Complement

(* The entry a seek lands on, when it passes the prefix check, is the newest *)
(* version of the grain at or before the snapshot, and the newest version is *)
(* always landed on: get_at's one seek is a correct snapshot read.           *)
THEOREM SeekIsSnapshotRead ==
  ASSUME NEW K \in SUBSET Version,
         NEW s \in Sids, NEW p \in Preds, NEW t \in 0 .. MaxTs
  PROVE  GetAt(K, s, p, t) = NewestVisible(K, s, p, t)
<1> DEFINE target == SeekTarget(s, p, t)
           after  == {v \in K : KeyLeq(target, KeyOf(v))}
<1>1. ASSUME NEW v \in GetAt(K, s, p, t)
      PROVE  v \in NewestVisible(K, s, p, t)
  <2>1. /\ v \in K /\ v.sid = s /\ v.pred = p /\ v.op # "delete"
        /\ KeyLeq(target, KeyOf(v))
        /\ \A w \in after : KeyLeq(KeyOf(v), KeyOf(w))
    BY DEF GetAt, SeekGe
  <2>2. v.seq <= t
    BY <2>1, SamePrefixOrder
  <2>3. ASSUME NEW w \in Visible(K, s, p, t)
        PROVE  w.seq <= v.seq
    <3>1. w \in Version /\ w \in K /\ w.sid = s /\ w.pred = p /\ w.seq <= t
      BY DEF Visible
    <3>2. w \in after
      BY <3>1, SamePrefixOrder
    <3> QED
      BY <2>1, <3>1, <3>2, NewestFirst
  <2> QED
    BY <2>1, <2>2, <2>3 DEF NewestVisible, Newest, Live, Visible
<1>2. ASSUME NEW v \in NewestVisible(K, s, p, t)
      PROVE  v \in GetAt(K, s, p, t)
  <2>1. /\ v \in K /\ v \in Version /\ v.sid = s /\ v.pred = p
        /\ v.op # "delete" /\ v.seq <= t
        /\ \A w \in Visible(K, s, p, t) : w.seq <= v.seq
    BY DEF NewestVisible, Newest, Live, Visible
  <2>2. KeyLeq(target, KeyOf(v))
    BY <2>1, SamePrefixOrder
  <2>3. ASSUME NEW w \in after
        PROVE  KeyLeq(KeyOf(v), KeyOf(w))
    <3>1. w \in K /\ w \in Version /\ KeyLeq(target, KeyOf(w))
      OBVIOUS
    <3>2. CASE w.sid = s /\ w.pred = p
      <4>1. w.seq <= t
        BY <3>1, <3>2, SamePrefixOrder
      <4>2. w \in Visible(K, s, p, t)
        BY <3>1, <3>2, <4>1 DEF Visible
      <4> QED
        BY <2>1, <3>1, <3>2, <4>2, NewestFirst
    <3>3. CASE ~ (w.sid = s /\ w.pred = p)
      BY <2>1, <3>1, <3>3, OtherGrainsSortAfter
    <3> QED
      BY <3>2, <3>3
  <2> QED
    BY <2>1, <2>2, <2>3 DEF GetAt, SeekGe
<1> QED
  BY <1>1, <1>2

-----------------------------------------------------------------------------
(* Files and cuts *)

(* The frames of the staged writes: one record each, in order (encode_frame). *)
LEMMA FramesOfType ==
  ASSUME NEW st \in Seq(Staged)
  PROVE  /\ FramesOf(st) \in Seq(Frame)
         /\ Len(FramesOf(st)) = Len(st)
         /\ \A i \in 1 .. Len(st) : FramesOf(st)[i] = st[i].rec /\ st[i].rec \in WalRecord
<1>1. Len(st) \in Nat /\ DOMAIN st = 1 .. Len(st) /\ \A i \in 1 .. Len(st) : st[i] \in Staged
  BY LenProperties, ElementOfSeq
<1>2. \A i \in 1 .. Len(st) : st[i].rec \in WalRecord
  BY <1>1 DEF Staged
<1>3. FramesOf(st) \in [1 .. Len(st) -> Frame]
  BY <1>1, <1>2 DEF FramesOf, Frame
<1>4. FramesOf(st) \in Seq(Frame)
  BY <1>1, <1>3, SeqDef
<1>5. Len(FramesOf(st)) = Len(st)
  BY <1>1, <1>3, <1>4, LenProperties
<1> QED
  BY <1>1, <1>2, <1>4, <1>5 DEF FramesOf

(* A cut keeps its first frames, and what recovery can reach of it was      *)
(* reachable before at the same place.                                     *)
LEMMA CutProperties ==
  ASSUME NEW full \in Seq(Frame), NEW keep \in 0 .. Len(full),
         NEW f \in Cuts(full, keep)
  PROVE  /\ f \in Seq(Frame)
         /\ keep <= Len(f)
         /\ \A i \in 1 .. keep : f[i] = full[i]
         /\ \A i \in Intact(f) : i \in Intact(full) /\ f[i] = full[i]
         /\ ~ TornTails => \A i \in DOMAIN f : i \in DOMAIN full /\ f[i] = full[i]
<1>1. Len(full) \in Nat /\ DOMAIN full = 1 .. Len(full)
      /\ \A i \in 1 .. Len(full) : full[i] \in Frame
  BY LenProperties, ElementOfSeq
<1>2. ASSUME NEW n \in keep .. Len(full)
      PROVE  LET g == SubSeq(full, 1, n)
             IN  g \in Seq(Frame) /\ Len(g) = n /\ DOMAIN g = 1 .. n
                 /\ \A i \in 1 .. n : g[i] = full[i]
  <2>1. n \in Nat /\ \A i \in 1 .. n : full[i] \in Frame
    BY <1>1
  <2>2. SubSeq(full, 1, n) \in Seq(Frame) /\ Len(SubSeq(full, 1, n)) = n
        /\ \A i \in 1 .. n : SubSeq(full, 1, n)[i] = full[i]
    BY <2>1, SubSeqProperties
  <2> QED
    BY <2>2, LenProperties
<1>3. CASE \E n \in keep .. Len(full) : f = SubSeq(full, 1, n)
  <2>1. PICK n \in keep .. Len(full) : f = SubSeq(full, 1, n)
    BY <1>3
  <2>2. f \in Seq(Frame) /\ Len(f) = n /\ DOMAIN f = 1 .. n
        /\ \A i \in 1 .. n : f[i] = full[i]
    BY <1>2, <2>1
  <2>3. \A i \in Intact(f) : i \in Intact(full)
    BY <1>1, <2>2 DEF Intact
  <2> QED
    BY <1>1, <2>2, <2>3 DEF Intact
<1>4. CASE /\ TornTails
           /\ \E n \in keep .. Len(full) - 1 : f = Append(SubSeq(full, 1, n), Torn)
  <2>1. PICK n \in keep .. Len(full) - 1 : f = Append(SubSeq(full, 1, n), Torn)
    BY <1>4
  <2> DEFINE g == SubSeq(full, 1, n)
  <2>2. n \in keep .. Len(full) /\ n \in Nat
    BY <1>1
  <2>3. g \in Seq(Frame) /\ Len(g) = n /\ \A i \in 1 .. n : g[i] = full[i]
    BY <1>2, <2>2
  <2>4. /\ f \in Seq(Frame) /\ Len(f) = n + 1
        /\ \A i \in 1 .. n : f[i] = full[i]
        /\ f[n + 1] = Torn
    BY <2>1, <2>3, AppendProperties DEF Frame
  <2>5. DOMAIN f = 1 .. n + 1
    BY <2>4, LenProperties
  <2>6. \A i \in Intact(f) : i \in 1 .. n
    BY <2>2, <2>4, <2>5 DEF Intact
  <2>7. \A i \in Intact(f) : i \in Intact(full)
    BY <1>1, <2>2, <2>4, <2>5, <2>6 DEF Intact
  <2> QED
    BY <1>4, <2>2, <2>4, <2>6, <2>7
<1> QED
  BY <1>3, <1>4 DEF Cuts

-----------------------------------------------------------------------------
(* Type correctness *)

(* What a crash cuts is a file at least as long as what was synced. *)
LEMMA InFlightType ==
  ASSUME TypeOK
  PROVE  InFlight \in Seq(Frame) /\ Len(file) <= Len(InFlight)
         /\ file \in Seq(Frame) /\ Len(file) \in Nat /\ Len(InFlight) \in Nat
         /\ Len(file) \in 0 .. Len(InFlight) /\ synced \in 0 .. Len(InFlight)
<1>1. file \in Seq(Frame) /\ staged \in Seq(Staged) /\ synced \in 0 .. Len(file)
  BY DEF TypeOK, Frame
<1>2. Len(file) \in Nat /\ Len(FramesOf(staged)) \in Nat
  BY <1>1, LenProperties, FramesOfType
<1>3. file \o FramesOf(staged) \in Seq(Frame)
      /\ Len(file \o FramesOf(staged)) = Len(file) + Len(FramesOf(staged))
  BY <1>1, FramesOfType, ConcatProperties
<1> QED
  BY <1>1, <1>2, <1>3 DEF InFlight

(* The request the staging loop looks at is a request of a client. *)
LEMMA PendingHead ==
  ASSUME TypeOK, batch # <<>>
  PROVE  /\ Head(batch) \in Pending /\ Tail(batch) \in Seq(Pending)
         /\ Head(batch).client \in Clients /\ Head(batch).req \in WriteReq
         /\ Head(batch).req.idem \in Idems
<1>1. batch \in Seq(Pending)
  BY DEF TypeOK
<1>2. Head(batch) \in Pending /\ Tail(batch) \in Seq(Pending)
  BY <1>1, HeadTailProperties
<1> QED
  BY <1>2, GroupCommitAssumption DEF Pending, WriteReq

(* A staged write carries a record and becomes a version of the store. *)
LEMMA StagedElement ==
  ASSUME TInv, pc \in {"apply", "publish", "ack"}
  PROVE  /\ staged[cursor] \in Staged
         /\ staged[cursor].client \in Clients
         /\ staged[cursor].rec \in WalRecord
         /\ VersionOf(staged[cursor].rec) \in Version
<1>1. staged \in Seq(Staged) /\ cursor \in 1 .. Len(staged)
  BY DEF TInv, TypeOK, LoopShape
<1>2. staged[cursor] \in Staged
  BY <1>1, ElementOfSeq
<1>3. MaxTs \in Nat
  BY MvccAssumption
<1> QED
  BY <1>2, <1>3 DEF Staged, WalRecord, WriteReq, VersionOf, Version

(* Losing memory leaves every volatile variable at its initial value. *)
LEMMA VolatileLost ==
  ASSUME LoseVolatile, TypeOK, file' \in Seq(Frame), synced' \in 0 .. Len(file')
  PROVE  TInv'
<1>1. MaxTs \in Nat
  BY MvccAssumption
<1>2. NoIdem \in [Idems -> 0 .. MaxTs]
  BY <1>1 DEF NoIdem
<1> QED
  BY <1>1, <1>2 DEF LoseVolatile, TInv, TypeOK, LoopShape, Frame

(* LogWellFormed makes the first entry of an idempotency key the only one.   *)
LEMMA ReplayType ==
  ASSUME TypeOK, LogWellFormed
  PROVE  /\ ReplayedKv(file) \subseteq Version
         /\ ReplayedIdem(file) \in [Idems -> 0 .. MaxTs]
         /\ HighWatermarks(file) \subseteq 0 .. MaxTs
<1>1. MaxTs \in Nat /\ file \in Seq(Frame)
  BY MvccAssumption DEF TypeOK, Frame
<1>2. ASSUME NEW i \in Intact(file)
      PROVE  file[i] \in WalRecord /\ file[i].seq \in 1 .. MaxTs
             /\ VersionOf(file[i]) \in Version
  <2>1. i \in 1 .. Len(file) /\ file[i] # Torn
    BY <1>1, LenProperties DEF Intact
  <2>2. file[i] \in WalRecord
    BY <1>1, <2>1, ElementOfSeq DEF Frame
  <2> QED
    BY <1>1, <2>2 DEF WalRecord, WriteReq, VersionOf, Version
<1>3. ReplayedKv(file) \subseteq Version
  BY <1>2 DEF ReplayedKv
<1>4. HighWatermarks(file) \subseteq 0 .. MaxTs
  BY <1>1, <1>2 DEF HighWatermarks
<1>5. ReplayedIdem(file) \in [Idems -> 0 .. MaxTs]
  <2>1. ASSUME NEW k \in Idems, WithIdem(file, k) # {}
        PROVE  file[FirstWithIdem(file, k)].seq \in 0 .. MaxTs
    <3>1. PICK i \in WithIdem(file, k) : TRUE
      BY <2>1
    <3>2. \A j \in WithIdem(file, k) : j = i /\ j \in Int
      BY <1>1, <3>1, LenProperties DEF WithIdem, LogWellFormed, Intact
    <3>3. \E m \in WithIdem(file, k) : \A j \in WithIdem(file, k) : m <= j
      BY <3>1, <3>2
    <3>4. FirstWithIdem(file, k) \in WithIdem(file, k)
      BY <3>3 DEF FirstWithIdem
    <3> QED
      BY <1>1, <1>2, <3>4 DEF WithIdem
  <2> QED
    BY <1>1, <2>1 DEF ReplayedIdem
<1> QED
  BY <1>3, <1>4, <1>5

(* The types hold before the store is first opened. *)
LEMMA TypeInit == Init => TInv
<1>1. MaxTs \in Nat /\ MaxEpochs \in Nat /\ MaxSubmits \in Nat
  BY MvccAssumption, GroupCommitAssumption
<1> QED
  BY <1>1 DEF Init, TInv, TypeOK, LoopShape, NoIdem

(* Every step keeps the types and the shape of the loops; the clock of a
   recovered store needs the log to be well formed. *)
LEMMA TypeStep == TInv /\ LogWellFormed /\ [Next]_vars => TInv'
<1> SUFFICES ASSUME TInv, LogWellFormed, [Next]_vars PROVE TInv'
  OBVIOUS
<1> USE DEF TInv
<1>0. /\ MaxTs \in Nat /\ MaxEpochs \in Nat /\ MaxSubmits \in Nat
      /\ Requests \subseteq WriteReq
  BY MvccAssumption, GroupCommitAssumption
<1>1. CASE Open
  <2>1. hlc' \in 0 .. MaxTs /\ kv' \subseteq Version /\ idem' \in [Idems -> 0 .. MaxTs]
    BY <1>1, ReplayType DEF Open
  <2> QED
    BY <1>0, <1>1, <2>1 DEF Open, TypeOK, LoopShape, OpenForAppend
<1>2. ASSUME NEW c \in Clients, Submit(c)
      PROVE  TInv'
  BY <1>0, <1>2 DEF Submit, TypeOK, LoopShape, Pending, committerVars, volatileVars
<1>3. CASE Drain
  BY <1>3 DEF Drain, TypeOK, LoopShape, volatileVars
<1>4. CASE StageDup
  <2>1. idem[Head(batch).req.idem] \in 1 .. MaxTs
    BY <1>0, <1>4, PendingHead DEF StageDup, TypeOK
  <2>2. Ack([req |-> Head(batch).req, seq |-> idem[Head(batch).req.idem]], "dedup")
          \in [rec : WalRecord, via : {"batch", "dedup"}, epoch : 0 .. MaxEpochs]
    BY <1>4, <2>1, PendingHead DEF StageDup, Ack, WalRecord, TypeOK
  <2> QED
    BY <1>4, <2>2, PendingHead DEF StageDup, TypeOK, LoopShape, volatileVars
<1>5. CASE StageNew
  <2>1. hlc + 1 \in 1 .. MaxTs
    BY <1>0, <1>5 DEF StageNew, TypeOK
  <2>2. [client |-> Head(batch).client,
         rec |-> [req |-> Head(batch).req, seq |-> hlc + 1]] \in Staged
    BY <1>5, <2>1, PendingHead DEF StageNew, Staged, WalRecord
  <2>3. staged' \in Seq(Staged)
    BY <1>5, <2>2, AppendProperties DEF StageNew, TypeOK
  <2>4. idem' \in [Idems -> 0 .. MaxTs] /\ hlc' \in 0 .. MaxTs
    BY <1>0, <1>5, <2>1, PendingHead DEF StageNew, TypeOK
  <2> QED
    BY <1>5, <2>3, <2>4, PendingHead DEF StageNew, TypeOK, LoopShape
<1>6. CASE AllDuplicates
  BY <1>6 DEF AllDuplicates, TypeOK, LoopShape
<1>7. CASE BatchStaged
  BY <1>7 DEF BatchStaged, TypeOK, LoopShape, volatileVars
<1>8. CASE Write
  <2>1. file' \in Seq(Frame) /\ synced \in 0 .. Len(file')
    BY <1>8, InFlightType DEF Write, InFlight
  <2> QED
    BY <1>8, <2>1 DEF Write, TypeOK, LoopShape, volatileVars, Frame
<1>9. CASE Fsync
  <2>1. Len(file) \in 0 .. Len(file) /\ 1 \in 1 .. Len(staged)
    BY <1>9, InFlightType, LenProperties, EmptySeq DEF Fsync, TypeOK, LoopShape
  <2> QED
    BY <1>9, <2>1 DEF Fsync, TypeOK, LoopShape, volatileVars
<1>10. CASE StopWithError
  <2>1. CASE pc = "write"
    <3>1. file' \in Cuts(InFlight, Len(file))
      BY <1>10, <2>1 DEF StopWithError, InFlight
    <3>2. file' \in Seq(Frame) /\ Len(file) <= Len(file')
      BY <3>1, InFlightType, CutProperties
    <3>3. synced \in 0 .. Len(file')
      BY <3>2, InFlightType, LenProperties DEF TypeOK
    <3> QED
      BY <1>10, <3>2, <3>3 DEF StopWithError, TypeOK, LoopShape, volatileVars, Frame
  <2>2. CASE pc = "fsync"
    BY <1>10, <2>2 DEF StopWithError, TypeOK, LoopShape, volatileVars
  <2> QED
    BY <1>10, <2>1, <2>2 DEF StopWithError
<1>11. CASE Apply
  <2>1. kv' \subseteq Version
    BY <1>11, StagedElement DEF Apply, Loop, TypeOK, PutGrain
  <2>2. LoopShape'
    BY <1>11, LenProperties DEF Apply, Loop, TypeOK, LoopShape
  <2> QED
    BY <1>11, <2>1, <2>2 DEF Apply, Loop, TypeOK, LoopShape
<1>12. CASE Publish
  <2>1. feed' \in Seq(WalRecord)
    BY <1>12, StagedElement DEF Publish, Loop, TypeOK
  <2>2. LoopShape'
    BY <1>12, LenProperties DEF Publish, Loop, TypeOK, LoopShape
  <2> QED
    BY <1>12, <2>1, <2>2 DEF Publish, Loop, TypeOK, LoopShape
<1>13. CASE Answer
  <2>1. Ack(staged[cursor].rec, "batch")
          \in [rec : WalRecord, via : {"batch", "dedup"}, epoch : 0 .. MaxEpochs]
    BY <1>13, StagedElement DEF Answer, Loop, Ack, TypeOK
  <2>2. LoopShape'
    BY <1>13, LenProperties DEF Answer, Loop, TypeOK, LoopShape
  <2> QED
    BY <1>13, <2>1, <2>2 DEF Answer, Loop, TypeOK, LoopShape, volatileVars
<1>14. CASE ProcessCrash
  <2>1. file' \in Seq(Frame) /\ synced' \in 0 .. Len(file')
    BY <1>14, InFlightType, CutProperties, LenProperties DEF ProcessCrash, TypeOK
  <2> QED
    BY <1>14, <2>1, VolatileLost DEF ProcessCrash
<1>15. CASE PowerFail
  <2>1. file' \in Seq(Frame) /\ synced' \in 0 .. Len(file')
    BY <1>15, InFlightType, CutProperties, LenProperties DEF PowerFail, TypeOK
  <2> QED
    BY <1>15, <2>1, VolatileLost DEF PowerFail
<1>16. CASE Close
  <2>1. file' \in Seq(Frame) /\ synced' \in 0 .. Len(file')
    BY <1>16 DEF Close, TypeOK, Frame
  <2> QED
    BY <1>16, <2>1, VolatileLost DEF Close
<1>17. CASE UNCHANGED vars
  BY <1>17 DEF vars, TypeOK, LoopShape
<1> QED
  BY <1>1, <1>2, <1>3, <1>4, <1>5, <1>6, <1>7, <1>8, <1>9, <1>10, <1>11, <1>12,
     <1>13, <1>14, <1>15, <1>16, <1>17 DEF Next, Committer

-----------------------------------------------------------------------------
(* The inductive invariant of the log                                      *)

OrderedLog(f) ==
  \A i, j \in Intact(f) :
    i < j => f[i].seq < f[j].seq /\ f[i].req.idem # f[j].req.idem

(* The clock and the dedup map know of a record. *)
Remembered(rec) == rec.seq <= hlc /\ idem[rec.req.idem] = rec.seq

(* While the store is open, memory knows all that recovery could reach ...   *)
LogIsRemembered ==
  pc # "down" => \A i \in Intact(file) : Remembered(file[i])

(* ... and all that is staged, in order.                                    *)
StagedIsRemembered ==
  /\ \A i \in DOMAIN staged : Remembered(staged[i].rec)
  /\ \A i, j \in DOMAIN staged : i < j => staged[i].rec.seq < staged[j].rec.seq

(* What is not written yet is newer than all of the log.                    *)
StagedIsNewer ==
  pc \in {"stage", "write"} =>
    \A i \in Intact(file), j \in DOMAIN staged : file[i].seq < staged[j].rec.seq

(* What was written is the tail of the file, and after the fsync all of the  *)
(* file is durable.                                                        *)
StagedIsWritten ==
  /\ pc \in {"fsync", "apply", "publish", "ack"} =>
       /\ Len(staged) <= Len(file)
       /\ \A j \in 1 .. Len(staged) :
            file[Len(file) - Len(staged) + j] = staged[j].rec
  /\ pc \in {"apply", "publish", "ack"} => synced = Len(file)

(* What is not applied yet is above the applied watermark.                  *)
AppliedIsOld ==
  /\ applied <= hlc
  /\ pc \in {"stage", "write", "fsync", "apply"} =>
       \A i \in DOMAIN staged : applied < staged[i].rec.seq

LogInv ==
  /\ LogWellFormed
  /\ LogIsRemembered /\ StagedIsRemembered
  /\ StagedIsNewer /\ StagedIsWritten
  /\ AppliedIsOld
  /\ AckedIsOnDisk

-----------------------------------------------------------------------------

(* The log file is a sequence of frames, its synced part a prefix of it. *)
LEMMA FileType ==
  ASSUME TypeOK
  PROVE  /\ file \in Seq(Frame) /\ Len(file) \in Nat /\ DOMAIN file = 1 .. Len(file)
         /\ staged \in Seq(Staged) /\ Len(staged) \in Nat /\ DOMAIN staged = 1 .. Len(staged)
         /\ \A j \in 1 .. Len(staged) :
              /\ staged[j] \in Staged /\ staged[j].rec \in WalRecord
              /\ staged[j].rec.seq \in 1 .. MaxTs /\ staged[j].rec.req.idem \in Idems
         /\ \A i \in Intact(file) :
              /\ i \in 1 .. Len(file) /\ file[i] \in WalRecord
              /\ file[i].seq \in 1 .. MaxTs /\ file[i].req.idem \in Idems
         /\ hlc \in Nat /\ MaxTs \in Nat /\ applied \in Nat /\ synced \in 0 .. Len(file)
<1>1. /\ file \in Seq(Frame) /\ staged \in Seq(Staged) /\ MaxTs \in Nat
      /\ hlc \in Nat /\ applied \in Nat /\ synced \in 0 .. Len(file)
  BY MvccAssumption DEF TypeOK, Frame
<1>2. /\ Len(file) \in Nat /\ DOMAIN file = 1 .. Len(file)
      /\ Len(staged) \in Nat /\ DOMAIN staged = 1 .. Len(staged)
  BY <1>1, LenProperties
<1>3. ASSUME NEW j \in 1 .. Len(staged)
      PROVE  /\ staged[j] \in Staged /\ staged[j].rec \in WalRecord
             /\ staged[j].rec.seq \in 1 .. MaxTs /\ staged[j].rec.req.idem \in Idems
  <2>1. staged[j] \in Staged
    BY <1>1, ElementOfSeq
  <2>2. staged[j].rec \in WalRecord
    BY <2>1 DEF Staged
  <2> QED
    BY <2>1, <2>2 DEF WalRecord, WriteReq
<1>4. \A i \in Intact(file) : i \in 1 .. Len(file) /\ file[i] \in WalRecord
  BY <1>1, <1>2, ElementOfSeq DEF Intact, Frame
<1>5. \A i \in Intact(file) :
        file[i].seq \in 1 .. MaxTs /\ file[i].req.idem \in Idems
  BY <1>4 DEF WalRecord, WriteReq
<1> QED
  BY <1>1, <1>2, <1>3, <1>4, <1>5

(* The file with all of the batch appended is still in order and remembered; *)
(* the idempotency keys of the batch are new to it because the dedup map      *)
(* gives every key one timestamp.                                           *)
LEMMA AppendedBatchIsInOrder ==
  ASSUME TInv, LogInv, pc = "write"
  PROVE  LET full == file \o FramesOf(staged)
         IN  /\ full \in Seq(Frame) /\ Len(full) = Len(file) + Len(staged)
             /\ \A i \in 1 .. Len(file) : full[i] = file[i]
             /\ \A j \in 1 .. Len(staged) : full[Len(file) + j] = staged[j].rec
             /\ OrderedLog(full)
             /\ \A i \in Intact(full) : Remembered(full[i])
<1> DEFINE full == file \o FramesOf(staged)
           n == Len(file)
           m == Len(staged)
<1>0. /\ TypeOK /\ n \in Nat /\ m \in Nat /\ MaxTs \in Nat
      /\ file \in Seq(Frame) /\ staged \in Seq(Staged)
      /\ DOMAIN file = 1 .. n /\ DOMAIN staged = 1 .. m
      /\ \A j \in 1 .. m : staged[j].rec.seq \in 1 .. MaxTs
      /\ \A i \in Intact(file) : i \in 1 .. n /\ file[i].seq \in 1 .. MaxTs
  BY FileType DEF TInv
<1>f. /\ FramesOf(staged) \in Seq(Frame) /\ Len(FramesOf(staged)) = m
      /\ \A j \in 1 .. m : FramesOf(staged)[j] = staged[j].rec
  BY <1>0, FramesOfType
<1>1. /\ full \in Seq(Frame) /\ Len(full) = n + m
      /\ \A i \in 1 .. n + m : full[i] = IF i <= n THEN file[i] ELSE FramesOf(staged)[i - n]
  <2>1. /\ full \in Seq(Frame) /\ Len(full) = n + Len(FramesOf(staged))
        /\ \A i \in 1 .. n + Len(FramesOf(staged)) :
             full[i] = IF i <= n THEN file[i] ELSE FramesOf(staged)[i - n]
    BY <1>0, <1>f, ConcatProperties
  <2> QED
    BY <1>f, <2>1
<1>2. /\ \A i \in 1 .. n : full[i] = file[i]
      /\ \A j \in 1 .. m : full[n + j] = staged[j].rec
  BY <1>0, <1>f, <1>1
<1>3. DOMAIN full = 1 .. n + m
  BY <1>1, LenProperties
<1> HIDE DEF full, n, m
<1>4. \A i \in Intact(full) :
         \/ i \in Intact(file) /\ i <= n /\ full[i] = file[i]
         \/ i - n \in 1 .. m /\ full[i] = staged[i - n].rec
  <2>1. ASSUME NEW i \in Intact(full), i <= n
        PROVE  i \in Intact(file) /\ full[i] = file[i]
    BY <1>0, <1>2, <1>3, <2>1 DEF Intact
  <2>2. ASSUME NEW i \in Intact(full), ~ (i <= n)
        PROVE  i - n \in 1 .. m /\ full[i] = staged[i - n].rec
    <3>1. i - n \in 1 .. m /\ i = n + (i - n)
      BY <1>0, <1>3, <2>2 DEF Intact
    <3> QED
      BY <1>2, <3>1
  <2> QED
    BY <2>1, <2>2
<1>5. \A i \in Intact(full) :
        /\ Remembered(full[i])
        /\ full[i].seq \in Nat /\ full[i].seq > 0
  <2>1. /\ \A i \in Intact(file) : Remembered(file[i])
        /\ \A j \in 1 .. m : Remembered(staged[j].rec)
    BY <1>0 DEF LogInv, LogIsRemembered, StagedIsRemembered
  <2>2. \A i \in Intact(full) : Remembered(full[i])
    BY <1>4, <2>1
  <2>3. \A i \in Intact(full) : full[i].seq \in 1 .. MaxTs
    BY <1>0, <1>4
  <2> QED
    BY <1>0, <2>2, <2>3
<1>6. ASSUME NEW i \in Intact(full), NEW j \in Intact(full), i < j
      PROVE  full[i].seq < full[j].seq
  <2>0. i \in Int /\ j \in Int
    BY <1>0, <1>3 DEF Intact
  <2>1. CASE i \in Intact(file) /\ i <= n /\ full[i] = file[i]
    <3>1. CASE j \in Intact(file) /\ j <= n /\ full[j] = file[j]
      BY <1>6, <2>1, <3>1 DEF LogInv, LogWellFormed
    <3>2. CASE j - n \in 1 .. m /\ full[j] = staged[j - n].rec
      BY <1>0, <2>1, <3>2 DEF LogInv, StagedIsNewer
    <3> QED
      BY <1>4, <3>1, <3>2
  <2>2. CASE i - n \in 1 .. m /\ full[i] = staged[i - n].rec
    <3>1. ~ (j <= n) /\ i - n < j - n
      BY <1>0, <1>6, <2>0, <2>2
    <3>2. j - n \in 1 .. m /\ full[j] = staged[j - n].rec
      BY <1>4, <3>1
    <3> QED
      BY <1>0, <2>2, <3>1, <3>2 DEF LogInv, StagedIsRemembered
  <2> QED
    BY <1>4, <2>1, <2>2
<1>7. OrderedLog(full)
  <2>1. \A i, j \in Intact(full) :
          i < j => full[i].seq < full[j].seq /\ full[i].seq # full[j].seq
    BY <1>5, <1>6
  <2> QED
    BY <1>5, <2>1 DEF OrderedLog, Remembered
<1> QED
  BY <1>1, <1>2, <1>5, <1>7 DEF full, n, m

(* What is left of a file after a crash, or a failed write, is in order.     *)
LEMMA CutIsInOrder ==
  ASSUME NEW full \in Seq(Frame), NEW keep \in 0 .. Len(full),
         NEW f \in Cuts(full, keep), OrderedLog(full)
  PROVE  OrderedLog(f)
BY CutProperties DEF OrderedLog

(* What a crash cuts, the write in progress included, is in order. *)
LEMMA InFlightIsInOrder ==
  ASSUME TInv, LogInv
  PROVE  /\ OrderedLog(InFlight)
         /\ \A i \in 1 .. Len(file) : InFlight[i] = file[i]
<1>1. CASE pc = "write"
  BY <1>1, AppendedBatchIsInOrder DEF InFlight
<1>2. CASE pc # "write"
  BY <1>2 DEF InFlight, LogInv, LogWellFormed, OrderedLog
<1> QED
  BY <1>1, <1>2

(* An answered write is still at its place in whatever file a crash leaves. *)
LEMMA DurablePartSurvives ==
  ASSUME TInv, LogInv, NEW keep \in synced .. Len(file), file' \in Cuts(InFlight, keep),
         synced' \in Nat, synced <= synced', UNCHANGED acks
  PROVE  AckedIsOnDisk' /\ LogWellFormed'
<1>0. TypeOK /\ keep \in 0 .. Len(InFlight) /\ InFlight \in Seq(Frame)
  BY InFlightType DEF TInv
<1>1. \A i \in 1 .. keep : file'[i] = InFlight[i]
  BY <1>0, CutProperties
<1>2. \A i \in 1 .. synced : i \in 1 .. synced' /\ file'[i] = file[i]
  BY <1>0, <1>1, InFlightIsInOrder, FileType
<1>3. AckedIsOnDisk'
  BY <1>2 DEF LogInv, AckedIsOnDisk
<1>4. OrderedLog(file')
  BY <1>0, InFlightIsInOrder, CutIsInOrder
<1>5. LogWellFormed'
  BY <1>4 DEF OrderedLog, LogWellFormed
<1> QED
  BY <1>3, <1>5

(* Once memory is lost only the file matters.                                *)
LEMMA NothingToRemember ==
  ASSUME LoseVolatile, AckedIsOnDisk', LogWellFormed'
  PROVE  LogInv'
<1>1. DOMAIN staged' = {}
  BY DEF LoseVolatile
<1> QED
  BY <1>1 DEF LoseVolatile, LogInv, LogIsRemembered, StagedIsRemembered,
     StagedIsNewer, StagedIsWritten, AppliedIsOld

(* An empty log is in order and nothing has been answered. *)
LEMMA LogInit == Init => LogInv
<1> SUFFICES ASSUME Init PROVE LogInv
  OBVIOUS
<1>1. DOMAIN file = {} /\ DOMAIN staged = {}
  BY DEF Init
<1>2. Intact(file) = {}
  BY <1>1 DEF Intact
<1> QED
  BY <1>1, <1>2 DEF Init, LogInv, LogWellFormed, LogIsRemembered, StagedIsRemembered,
     StagedIsNewer, StagedIsWritten, AppliedIsOld, AckedIsOnDisk

(* Steps that touch neither the log nor what memory knows of it.             *)
LEMMA LogUntouched ==
  ASSUME LogInv, UNCHANGED <<file, synced, hlc, idem, staged, acks, applied>>,
         \/ UNCHANGED pc
         \/ pc = "recv" /\ pc' = "stage" /\ staged = <<>>
         \/ pc = "stage" /\ pc' = "write"
         \/ pc = "apply" /\ pc' = "publish"
         \/ pc = "publish" /\ pc' = "ack"
  PROVE  LogInv'
<1>1. pc = "recv" /\ staged = <<>> => DOMAIN staged = {}
  OBVIOUS
<1>2. LogWellFormed' /\ AckedIsOnDisk'
  BY DEF LogInv, LogWellFormed, AckedIsOnDisk
<1>3. LogIsRemembered' /\ StagedIsRemembered'
  BY DEF LogInv, LogIsRemembered, StagedIsRemembered, Remembered
<1>4. StagedIsNewer' /\ AppliedIsOld'
  BY <1>1 DEF LogInv, StagedIsNewer, AppliedIsOld
<1>5. StagedIsWritten'
  BY DEF LogInv, StagedIsWritten
<1> QED
  BY <1>2, <1>3, <1>4, <1>5 DEF LogInv

(* Recovery rebuilds the dedup map and the clock from the log it reads. *)
LEMMA OpenKeepsLog == TInv /\ LogInv /\ Open => LogInv'
<1> SUFFICES ASSUME TInv, LogInv, Open PROVE LogInv'
  OBVIOUS
<1>0. TypeOK /\ file' = file /\ staged' = <<>> /\ DOMAIN staged' = {}
  BY DEF TInv, LoopShape, Open, OpenForAppend
<1>1. ASSUME NEW i \in Intact(file)
      PROVE  idem'[file[i].req.idem] = file[i].seq /\ file[i].seq <= hlc'
  <2> DEFINE k == file[i].req.idem
  <2>1. i \in WithIdem(file, k) /\ k \in Idems
    BY <1>0, FileType DEF WithIdem
  <2>2. \A j \in WithIdem(file, k) : j = i
    BY <1>0, FileType DEF WithIdem, LogInv, LogWellFormed
  <2>3. FirstWithIdem(file, k) = i
    <3>1. i <= i
      BY <1>0, FileType
    <3>2. \E m \in WithIdem(file, k) : \A j \in WithIdem(file, k) : m <= j
      BY <2>1, <2>2, <3>1
    <3> QED
      BY <2>2, <3>2 DEF FirstWithIdem
  <2>4. idem'[k] = file[i].seq
    BY <2>1, <2>3 DEF Open, ReplayedIdem
  <2>5. file[i].seq <= hlc'
    BY DEF Open, HighWatermarks
  <2> QED
    BY <2>4, <2>5
<1>2. hlc' >= 0
  BY DEF Open, HighWatermarks
<1>3. LogIsRemembered'
  BY <1>0, <1>1 DEF LogIsRemembered, Remembered
<1>4. LogWellFormed'
  BY <1>0 DEF LogInv, LogWellFormed
<1>5. AckedIsOnDisk'
  BY <1>0 DEF LogInv, AckedIsOnDisk, Open
<1> QED
  BY <1>0, <1>2, <1>3, <1>4, <1>5 DEF Open, LogInv, StagedIsRemembered, StagedIsNewer,
     StagedIsWritten, AppliedIsOld

(* A new write gets a timestamp and a key that no frame has. *)
LEMMA StageNewKeepsLog == TInv /\ LogInv /\ StageNew => LogInv'
<1> SUFFICES ASSUME TInv, LogInv, StageNew PROVE LogInv'
  OBVIOUS
<1> DEFINE k == Head(batch).req.idem
           m == Len(staged)
<1>0. /\ TypeOK /\ m \in Nat /\ DOMAIN staged = 1 .. m /\ hlc \in Nat
      /\ \A j \in 1 .. m : staged[j].rec.seq \in 1 .. MaxTs /\ staged[j].rec.req.idem \in Idems
      /\ \A i \in Intact(file) : file[i].seq \in 1 .. MaxTs /\ file[i].req.idem \in Idems
      /\ idem \in [Idems -> 0 .. MaxTs] /\ applied \in Nat
  BY FileType DEF TInv, TypeOK
<1>1. /\ pc = "stage" /\ pc' = "stage" /\ k \in Idems /\ idem[k] = 0
      /\ hlc' = hlc + 1 /\ idem' = [idem EXCEPT ![k] = hlc + 1]
      /\ UNCHANGED <<file, synced, acks, applied>>
  BY <1>0, PendingHead DEF StageNew
<1>2. /\ Len(staged') = m + 1 /\ DOMAIN staged' = 1 .. m + 1
      /\ \A j \in 1 .. m : staged'[j] = staged[j]
      /\ staged'[m + 1].rec.seq = hlc + 1 /\ staged'[m + 1].rec.req.idem = k
  <2> DEFINE e == [client |-> Head(batch).client,
                   rec |-> [req |-> Head(batch).req, seq |-> hlc + 1]]
  <2>1. staged' = Append(staged, e) /\ staged \in Seq(Staged \union {e})
    BY <1>0 DEF StageNew, TypeOK
  <2>2. /\ staged' \in Seq(Staged \union {e}) /\ Len(staged') = m + 1
        /\ \A j \in 1 .. m : staged'[j] = staged[j]
        /\ staged'[m + 1] = e
    BY <2>1, AppendProperties
  <2> QED
    BY <2>2, LenProperties
<1>3. ASSUME NEW r, r.seq \in 1 .. MaxTs, r.req.idem \in Idems, Remembered(r)
      PROVE  r.seq <= hlc' /\ idem'[r.req.idem] = r.seq /\ r.seq < hlc + 1
  <2>1. idem[r.req.idem] = r.seq /\ r.seq <= hlc /\ r.req.idem # k
    BY <1>1, <1>3 DEF Remembered
  <2> QED
    BY <1>0, <1>1, <1>3, <2>1
<1> HIDE DEF k, m
<1>4. LogIsRemembered'
  BY <1>0, <1>1, <1>3 DEF LogInv, LogIsRemembered, Remembered
<1>5. \A j \in 1 .. m : staged[j].rec.seq <= hlc' /\ idem'[staged[j].rec.req.idem] = staged[j].rec.seq
        /\ staged[j].rec.seq < hlc + 1
  <2>1. \A j \in 1 .. m : Remembered(staged[j].rec)
    BY <1>0 DEF LogInv, StagedIsRemembered
  <2> QED
    BY <1>0, <1>3, <2>1
<1>6. staged'[m + 1].rec.seq <= hlc' /\ idem'[staged'[m + 1].rec.req.idem] = staged'[m + 1].rec.seq
  BY <1>0, <1>1, <1>2
<1>7. \A j \in 1 .. m + 1 : j \in 1 .. m \/ j = m + 1
  BY <1>0
<1>8. StagedIsRemembered'
  <2>1. \A j \in DOMAIN staged' : Remembered(staged[j].rec)' 
    BY <1>2, <1>5, <1>6, <1>7 DEF Remembered
  <2>2. ASSUME NEW i \in DOMAIN staged', NEW j \in DOMAIN staged', i < j
        PROVE  staged'[i].rec.seq < staged'[j].rec.seq
    <3>1. i \in 1 .. m
      BY <1>0, <1>2, <2>2
    <3>2. CASE j \in 1 .. m
      BY <1>0, <1>2, <2>2, <3>1, <3>2 DEF LogInv, StagedIsRemembered
    <3>3. CASE j = m + 1
      BY <1>2, <1>5, <3>1, <3>3
    <3> QED
      BY <1>2, <1>7, <3>2, <3>3
  <2> QED
    BY <2>1, <2>2 DEF StagedIsRemembered
<1>9. StagedIsNewer'
  <2>1. \A i \in Intact(file) : file[i].seq < hlc + 1
    BY <1>0, <1>1, <1>3 DEF LogInv, LogIsRemembered
  <2>2. \A i \in Intact(file), j \in 1 .. m : file[i].seq < staged[j].rec.seq
    BY <1>0, <1>1 DEF LogInv, StagedIsNewer
  <2> QED
    BY <1>1, <1>2, <1>7, <2>1, <2>2 DEF StagedIsNewer
<1>10. AppliedIsOld'
  <2>1. applied <= hlc /\ \A j \in 1 .. m : applied < staged[j].rec.seq
    BY <1>0, <1>1 DEF LogInv, AppliedIsOld
  <2>2. applied <= hlc + 1 /\ applied < hlc + 1
    BY <1>0, <2>1
  <2> QED
    BY <1>1, <1>2, <1>7, <2>1, <2>2 DEF AppliedIsOld
<1> QED
  BY <1>1, <1>4, <1>8, <1>9, <1>10 DEF LogInv, LogWellFormed, StagedIsWritten, AckedIsOnDisk

(* Appending the batch keeps the log in order. *)
LEMMA WriteKeepsLog == TInv /\ LogInv /\ Write => LogInv'
<1> SUFFICES ASSUME TInv, LogInv, Write PROVE LogInv'
  OBVIOUS
<1>1. /\ pc = "write" /\ pc' = "fsync" /\ file' = file \o FramesOf(staged)
      /\ UNCHANGED <<hlc, idem, staged, synced, acks, applied>>
  BY DEF Write, volatileVars
<1>2. /\ Len(file') = Len(file) + Len(staged)
      /\ \A i \in 1 .. Len(file) : file'[i] = file[i]
      /\ \A j \in 1 .. Len(staged) : file'[Len(file) + j] = staged[j].rec
      /\ OrderedLog(file')
      /\ \A i \in Intact(file') : Remembered(file'[i])
  BY <1>1, AppendedBatchIsInOrder
<1>3. Len(file) \in Nat /\ Len(staged) \in Nat /\ synced \in 0 .. Len(file)
  BY FileType DEF TInv
<1>4. LogWellFormed' /\ LogIsRemembered' /\ StagedIsRemembered'
  BY <1>1, <1>2 DEF OrderedLog, LogWellFormed, LogIsRemembered, StagedIsRemembered,
     Remembered, LogInv
<1>5. StagedIsWritten'
  BY <1>1, <1>2, <1>3 DEF StagedIsWritten
<1>6. AckedIsOnDisk'
  <2>1. \A i \in 1 .. synced : file'[i] = file[i]
    BY <1>2, <1>3
  <2> QED
    BY <1>1, <2>1 DEF LogInv, AckedIsOnDisk
<1>7. StagedIsNewer' /\ AppliedIsOld'
  BY <1>1 DEF LogInv, StagedIsNewer, AppliedIsOld
<1> QED
  BY <1>4, <1>5, <1>6, <1>7 DEF LogInv

(* After the fsync every staged write is in the synced part. *)
LEMMA FsyncKeepsLog == TInv /\ LogInv /\ Fsync => LogInv'
<1> SUFFICES ASSUME TInv, LogInv, Fsync PROVE LogInv'
  OBVIOUS
<1>1. /\ pc = "fsync" /\ pc' = "apply" /\ synced' = Len(file)
      /\ UNCHANGED <<hlc, idem, staged, file, acks, applied>>
  BY DEF Fsync, volatileVars
<1>2. \A i \in 1 .. synced : i \in 1 .. synced'
  BY <1>1, FileType DEF TInv
<1>3. AckedIsOnDisk'
  BY <1>1, <1>2 DEF LogInv, AckedIsOnDisk
<1>4. LogWellFormed' /\ LogIsRemembered' /\ StagedIsRemembered'
  BY <1>1 DEF LogWellFormed, LogIsRemembered, StagedIsRemembered, Remembered, LogInv
<1>5. StagedIsWritten' /\ StagedIsNewer' /\ AppliedIsOld'
  BY <1>1 DEF LogInv, StagedIsWritten, StagedIsNewer, AppliedIsOld
<1> QED
  BY <1>3, <1>4, <1>5 DEF LogInv

(* A failed write leaves part of the batch, in order, and nothing answered. *)
LEMMA StopKeepsLog == TInv /\ LogInv /\ StopWithError => LogInv'
<1> SUFFICES ASSUME TInv, LogInv, StopWithError PROVE LogInv'
  OBVIOUS
<1>1. /\ pc' = "stopped" /\ staged' = <<>> /\ DOMAIN staged' = {}
      /\ file' \in Cuts(InFlight, Len(file)) \/ file' = file
      /\ UNCHANGED <<hlc, idem, synced, acks, applied>>
  BY DEF StopWithError, InFlight, volatileVars
<1>2. CASE file' = file
  BY <1>1, <1>2 DEF LogInv, LogWellFormed, LogIsRemembered, StagedIsRemembered,
     StagedIsNewer, StagedIsWritten, AppliedIsOld, AckedIsOnDisk, StopWithError, Remembered
<1>3. CASE pc = "write" /\ file' \in Cuts(InFlight, Len(file))
  <2>1. TypeOK /\ Len(file) \in synced .. Len(file) /\ synced \in Nat /\ synced' = synced
    BY <1>1, FileType DEF TInv
  <2>2. LogWellFormed' /\ AckedIsOnDisk'
    BY <1>1, <1>3, <2>1, DurablePartSurvives
  <2>3. /\ \A i \in Intact(InFlight) : Remembered(InFlight[i])
        /\ InFlight \in Seq(Frame) /\ Len(file) \in 0 .. Len(InFlight)
    BY <1>3, <2>1, AppendedBatchIsInOrder, InFlightType DEF InFlight
  <2>4. \A i \in Intact(file') : Remembered(file'[i])
    BY <1>3, <2>3, CutProperties
  <2>5. LogIsRemembered'
    BY <1>1, <2>4 DEF LogIsRemembered, Remembered
  <2> QED
    BY <1>1, <2>2, <2>5 DEF LogInv, StagedIsRemembered, StagedIsNewer, StagedIsWritten,
       AppliedIsOld
<1> QED
  BY <1>1, <1>2, <1>3 DEF StopWithError, InFlight

(* Applying changes the store only; the watermark is set to the clock. *)
LEMMA ApplyKeepsLog == TInv /\ LogInv /\ Apply => LogInv'
<1> SUFFICES ASSUME TInv, LogInv, Apply PROVE LogInv'
  OBVIOUS
<1>1. /\ pc = "apply" /\ pc' \in {"apply", "publish"}
      /\ pc' = "apply" => applied' = applied
      /\ applied' = applied \/ applied' = hlc
      /\ UNCHANGED <<hlc, idem, staged, file, synced, acks>>
  BY DEF Apply, Loop
<1>2. hlc <= hlc
  BY FileType DEF TInv
<1>3. LogWellFormed' /\ LogIsRemembered' /\ StagedIsRemembered' /\ AckedIsOnDisk'
  BY <1>1 DEF LogWellFormed, LogIsRemembered, StagedIsRemembered, Remembered,
     AckedIsOnDisk, LogInv
<1>4. StagedIsWritten' /\ StagedIsNewer' /\ AppliedIsOld'
  BY <1>1, <1>2 DEF LogInv, StagedIsWritten, StagedIsNewer, AppliedIsOld
<1> QED
  BY <1>3, <1>4 DEF LogInv

(* A client is answered for a write that is in the synced part. *)
LEMMA AnswerKeepsLog == TInv /\ LogInv /\ Answer => LogInv'
<1> SUFFICES ASSUME TInv, LogInv, Answer PROVE LogInv'
  OBVIOUS
<1>1. /\ pc = "ack" /\ pc' \in {"ack", "recv"} /\ cursor \in 1 .. Len(staged)
      /\ \/ staged' = staged
         \/ pc' = "recv" /\ staged' = <<>> /\ DOMAIN staged' = {}
      /\ acks' = acks \union {Ack(staged[cursor].rec, "batch")}
      /\ UNCHANGED <<hlc, idem, file, synced, applied>>
  BY DEF Answer, Loop, volatileVars, TInv, LoopShape
<1>2. Len(file) \in Nat /\ Len(staged) \in Nat
  BY FileType DEF TInv
<1>3. Len(file) - Len(staged) + cursor \in 1 .. synced
      /\ file[Len(file) - Len(staged) + cursor] = staged[cursor].rec
  BY <1>1, <1>2 DEF LogInv, StagedIsWritten
<1>4. AckedIsOnDisk'
  BY <1>1, <1>3 DEF LogInv, AckedIsOnDisk, Ack
<1>5. LogWellFormed' /\ LogIsRemembered' /\ StagedIsRemembered'
  BY <1>1 DEF LogWellFormed, LogIsRemembered, StagedIsRemembered, Remembered, LogInv
<1>6. StagedIsWritten' /\ StagedIsNewer' /\ AppliedIsOld'
  BY <1>1 DEF LogInv, StagedIsWritten, StagedIsNewer, AppliedIsOld
<1> QED
  BY <1>4, <1>5, <1>6 DEF LogInv

(* Every step keeps the log invariant. *)
LEMMA LogStep == TInv /\ LogInv /\ [Next]_vars => LogInv'
<1> SUFFICES ASSUME TInv, LogInv, [Next]_vars PROVE LogInv'
  OBVIOUS
<1>0. /\ TypeOK /\ synced \in Nat /\ Len(file) \in Nat /\ synced \in synced .. Len(file)
      /\ Len(file) \in synced .. Len(file) /\ hlc <= hlc
  BY FileType DEF TInv
<1>1. ASSUME NEW c \in Clients, Submit(c)
      PROVE  LogInv'
  BY <1>1, LogUntouched DEF Submit, committerVars, volatileVars
<1>2. CASE Drain
  BY <1>2, LogUntouched DEF Drain, volatileVars, TInv, LoopShape
<1>3. CASE StageDup
  <2>1. \E r : acks' = acks \union {Ack(r, "dedup")}
    BY <1>3 DEF StageDup
  <2>2. AckedIsOnDisk'
    BY <1>3, <2>1 DEF StageDup, LogInv, AckedIsOnDisk, Ack
  <2> QED
    BY <1>3, <2>2 DEF StageDup, volatileVars, LogInv, LogWellFormed, LogIsRemembered,
       StagedIsRemembered, StagedIsNewer, StagedIsWritten, AppliedIsOld, Remembered
<1>4. CASE AllDuplicates
  <2>1. /\ pc' = "recv" /\ applied' = hlc /\ DOMAIN staged = {}
        /\ UNCHANGED <<file, synced, hlc, idem, staged, acks>> /\ pc # "down"
    BY <1>4 DEF AllDuplicates
  <2>2. LogWellFormed' /\ LogIsRemembered' /\ StagedIsRemembered' /\ AckedIsOnDisk'
    BY <2>1 DEF LogWellFormed, LogIsRemembered, StagedIsRemembered, Remembered,
       AckedIsOnDisk, LogInv
  <2>3. StagedIsNewer' /\ StagedIsWritten' /\ AppliedIsOld'
    BY <1>0, <2>1 DEF StagedIsNewer, StagedIsWritten, AppliedIsOld
  <2> QED
    BY <2>2, <2>3 DEF LogInv
<1>5. CASE BatchStaged
  BY <1>5, LogUntouched DEF BatchStaged, volatileVars
<1>6. CASE Publish
  BY <1>6, LogUntouched DEF Publish, Loop
<1>7. CASE ProcessCrash
  <2>1. LogWellFormed' /\ AckedIsOnDisk'
    BY <1>0, <1>7, DurablePartSurvives DEF ProcessCrash, LoseVolatile
  <2> QED
    BY <1>7, <2>1, NothingToRemember DEF ProcessCrash
<1>8. CASE PowerFail
  <2>1. file' \in Cuts(InFlight, synced) /\ synced' = Len(file')
    BY <1>8 DEF PowerFail
  <2>2. synced' \in Nat /\ synced <= synced'
    BY <1>0, <2>1, InFlightType, CutProperties, LenProperties
  <2>3. LogWellFormed' /\ AckedIsOnDisk'
    BY <1>0, <1>8, <2>1, <2>2, DurablePartSurvives DEF PowerFail, LoseVolatile
  <2> QED
    BY <1>8, <2>3, NothingToRemember DEF PowerFail
<1>9. CASE Close
  <2>1. LogWellFormed' /\ AckedIsOnDisk'
    BY <1>9 DEF Close, LoseVolatile, LogInv, LogWellFormed, AckedIsOnDisk
  <2> QED
    BY <1>9, <2>1, NothingToRemember DEF Close
<1>10. CASE UNCHANGED vars
  BY <1>10, LogUntouched DEF vars
<1> QED
  BY <1>1, <1>2, <1>3, <1>4, <1>5, <1>6, <1>7, <1>8, <1>9, <1>10, OpenKeepsLog,
     StageNewKeepsLog, WriteKeepsLog, FsyncKeepsLog, StopKeepsLog, ApplyKeepsLog,
     AnswerKeepsLog DEF Next, Committer

-----------------------------------------------------------------------------
(* The inductive invariant holds in every behaviour.                        *)
THEOREM Invariance == Spec => [](TInv /\ LogInv)
<1>1. Init => TInv /\ LogInv
  BY TypeInit, LogInit
<1>2. TInv /\ LogInv /\ [Next]_vars => TInv' /\ LogInv'
  BY TypeStep, LogStep DEF LogInv
<1> QED
  BY <1>1, <1>2, PTL DEF Spec

(* Every variable keeps its type.                                           *)
THEOREM TypeCorrect == Spec => []TypeOK
<1>1. TInv /\ LogInv => TypeOK
  BY DEF TInv
<1> QED
  BY <1>1, Invariance, PTL

(* Whatever crashes and retries happen, what recovery would read back is in   *)
(* timestamp order and holds every idempotency key once (wal.rs dedup).       *)
THEOREM LogIsWellFormed == Spec => []LogWellFormed
<1>1. TInv /\ LogInv => LogWellFormed
  BY DEF LogInv
<1> QED
  BY <1>1, Invariance, PTL

(* A write answered at the end of its batch stays on the disk at its place    *)
(* through every later crash and power loss (wal.rs, fsync before ack).       *)
THEOREM AckedStaysOnDisk == Spec => []AckedIsOnDisk
<1>1. TInv /\ LogInv => AckedIsOnDisk
  BY DEF LogInv
<1> QED
  BY <1>1, Invariance, PTL

-----------------------------------------------------------------------------
(* The abstract log, snapshots, subscribers and scans *)

(* Where crashes do not cut frames the file holds whole frames only.         *)
WholeFrames == \A i \in DOMAIN file : file[i] # Torn

(* Where no crash cuts a frame, the file holds whole frames only. *)
LEMMA WholeFramesStep ==
  ASSUME ~ TornTails, TInv, LogInv, WholeFrames, [Next]_vars
  PROVE  WholeFrames'
<1>0. /\ TypeOK /\ file \in Seq(Frame) /\ DOMAIN file = 1 .. Len(file) /\ Len(file) \in Nat
      /\ staged \in Seq(Staged) /\ Len(staged) \in Nat
      /\ InFlight \in Seq(Frame) /\ Len(file) \in 0 .. Len(InFlight)
      /\ synced \in 0 .. Len(InFlight)
  BY FileType, InFlightType DEF TInv
<1>1. \A i \in DOMAIN InFlight : InFlight[i] # Torn
  <2>1. CASE pc = "write"
    <3> DEFINE full == file \o FramesOf(staged)
    <3>1. /\ full \in Seq(Frame) /\ Len(full) = Len(file) + Len(staged)
          /\ \A i \in 1 .. Len(file) : full[i] = file[i]
          /\ \A j \in 1 .. Len(staged) : full[Len(file) + j] = staged[j].rec
      BY <2>1, AppendedBatchIsInOrder
    <3>2. DOMAIN full = 1 .. Len(file) + Len(staged)
      BY <3>1, LenProperties
    <3>3. \A j \in 1 .. Len(staged) : staged[j].rec # Torn
      BY <1>0, FileType, GroupCommitAssumption
    <3> HIDE DEF full
    <3>4. ASSUME NEW i \in DOMAIN full
          PROVE  full[i] # Torn
      <4>1. CASE i \in 1 .. Len(file)
        BY <1>0, <3>1, <4>1 DEF WholeFrames
      <4>2. CASE i \notin 1 .. Len(file)
        <5>1. i - Len(file) \in 1 .. Len(staged) /\ i = Len(file) + (i - Len(file))
          BY <1>0, <3>2, <4>2
        <5> QED
          BY <3>1, <3>3, <5>1
      <4> QED
        BY <4>1, <4>2
    <3> QED
      BY <2>1, <3>4 DEF InFlight, full
  <2>2. CASE pc # "write"
    BY <2>2 DEF InFlight, WholeFrames
  <2> QED
    BY <2>1, <2>2
<1>2. ASSUME NEW keep \in 0 .. Len(InFlight), file' \in Cuts(InFlight, keep)
      PROVE  WholeFrames'
  BY <1>0, <1>1, <1>2, CutProperties DEF WholeFrames
<1>3. CASE Write
  BY <1>1, <1>3 DEF Write, InFlight, WholeFrames
<1>4. CASE StopWithError
  BY <1>0, <1>2, <1>4 DEF StopWithError, InFlight, WholeFrames
<1>5. CASE ProcessCrash
  BY <1>0, <1>2, <1>5 DEF ProcessCrash
<1>6. CASE PowerFail
  BY <1>0, <1>2, <1>6 DEF PowerFail
<1>7. ASSUME UNCHANGED file
      PROVE  WholeFrames'
  BY <1>7 DEF WholeFrames
<1> QED
  BY <1>3, <1>4, <1>5, <1>6, <1>7 DEF Next, Committer, Open, OpenForAppend, Submit, Drain,
     StageDup, StageNew, AllDuplicates, BatchStaged, Fsync, Apply, Publish, Answer, Close,
     committerVars, volatileVars, vars

(* Every answered write can be recovered where no crash cuts a frame: an      *)
(* abrupt stop loses nothing committed (server/README.md:108-109).            *)
THEOREM AckedCanBeRecovered ==
  ASSUME ~ TornTails
  PROVE  Spec => []AckedIsRecoverable
<1>1. Init => WholeFrames
  BY DEF Init, WholeFrames
<1>2. TInv /\ LogInv /\ WholeFrames /\ [Next]_vars => WholeFrames'
  BY WholeFramesStep
<1>3. TInv /\ LogInv /\ WholeFrames => AckedIsRecoverable
  <2> SUFFICES ASSUME TInv, LogInv, WholeFrames PROVE AckedIsRecoverable
    OBVIOUS
  <2>1. DOMAIN file = 1 .. Len(file) /\ synced \in 0 .. Len(file) /\ Len(file) \in Nat
    BY FileType DEF TInv
  <2>2. \A i \in 1 .. synced : i \in Intact(file) /\ i <= synced
    BY <2>1 DEF WholeFrames, Intact
  <2> QED
    BY <2>2 DEF LogInv, AckedIsOnDisk, AckedIsRecoverable
<1> QED
  BY <1>1, <1>2, <1>3, Invariance, PTL DEF Spec

-----------------------------------------------------------------------------
(* Refinement *)

(* Only Answer tells clients "committed"; no step shortens or rewrites the    *)
(* durable part of the file.                                                 *)
LEMMA DurablePartIsKept ==
  ASSUME TInv, LogInv, [Next]_vars
  PROVE  /\ synced <= synced'
         /\ \A i \in 1 .. synced : file'[i] = file[i]
         /\ Answer \/ Answered' = Answered
<1>0. /\ TypeOK /\ synced \in Nat /\ synced \in 0 .. Len(file) /\ Len(file) \in Nat
      /\ InFlight \in Seq(Frame) /\ Len(file) \in 0 .. Len(InFlight)
      /\ synced \in 0 .. Len(InFlight)
      /\ \A i \in 1 .. Len(file) : InFlight[i] = file[i]
  BY FileType, InFlightType, InFlightIsInOrder DEF TInv
<1>1. ASSUME UNCHANGED <<file, synced, acks>>
      PROVE  /\ synced <= synced'
             /\ \A i \in 1 .. synced : file'[i] = file[i]
             /\ Answered' = Answered
  BY <1>0, <1>1 DEF Answered
<1>2. ASSUME NEW keep \in synced .. Len(file), file' \in Cuts(InFlight, keep)
      PROVE  synced <= Len(file') /\ \A i \in 1 .. synced : file'[i] = file[i]
  <2>1. keep \in 0 .. Len(InFlight)
    BY <1>0
  <2>2. /\ file' \in Seq(Frame) /\ keep <= Len(file')
        /\ \A i \in 1 .. keep : file'[i] = InFlight[i]
    BY <1>0, <1>2, <2>1, CutProperties
  <2>3. Len(file') \in Nat
    BY <2>2, LenProperties
  <2> QED
    BY <1>0, <2>2, <2>3
<1>3. CASE StageDup
  <2>1. /\ UNCHANGED <<file, synced>>
        /\ \E r : acks' = acks \union {Ack(r, "dedup")}
    BY <1>3 DEF StageDup
  <2> QED
    BY <1>0, <2>1 DEF Answered, Ack
<1>4. CASE Write
  BY <1>0, <1>4 DEF Write, InFlight, Answered
<1>5. CASE Fsync
  BY <1>0, <1>5 DEF Fsync, Answered
<1>6. CASE StopWithError
  <2>1. UNCHANGED <<synced, acks>>
    BY <1>6 DEF StopWithError
  <2>2. file' \in Cuts(InFlight, Len(file)) \/ file' = file
    BY <1>6 DEF StopWithError, InFlight
  <2>3. \A i \in 1 .. synced : file'[i] = file[i]
    BY <1>0, <1>2, <2>2
  <2> QED
    BY <1>0, <2>1, <2>3 DEF Answered
<1>7. CASE ProcessCrash
  BY <1>0, <1>2, <1>7 DEF ProcessCrash, LoseVolatile, Answered
<1>8. CASE PowerFail
  BY <1>0, <1>2, <1>8 DEF PowerFail, LoseVolatile, Answered
<1>9. CASE Answer
  BY <1>0, <1>9 DEF Answer
<1> QED
  BY <1>1, <1>3, <1>4, <1>5, <1>6, <1>7, <1>8, <1>9 DEF Next, Committer, Open,
     OpenForAppend, Submit, Drain, StageNew, AllDuplicates, BatchStaged, Apply, Publish,
     Close, LoseVolatile, committerVars, volatileVars, vars

(* The store's clients see a log that only grows and answers that are in it, *)
(* through any crash, restart, power loss or failed write that cuts no frame. *)
THEOREM WritePathImplementsDurableLog ==
  ASSUME ~ TornTails
  PROVE  Spec => ImplementsDurableLog
<1>1. Init => Durable!Init
  BY DEF Init, Durable!Init, DurablePrefix, Intact, Answered
<1>2. ASSUME TInv, LogInv, WholeFrames, [Next]_vars, TInv', LogInv'
      PROVE  [Durable!Next]_(Durable!vars)
  <2>0. /\ synced \in Nat /\ synced <= Len(file) /\ DOMAIN file = 1 .. Len(file)
        /\ Len(file) \in Nat
    BY <1>2, FileType DEF TInv
  <2>1. /\ synced <= synced'
        /\ \A i \in 1 .. synced : file'[i] = file[i]
        /\ Answer \/ Answered' = Answered
    BY <1>2, DurablePartIsKept
  <2>2. CASE Answered' = Answered
    <3>1. /\ synced' \in Nat /\ synced' <= Len(file') /\ DOMAIN file' = 1 .. Len(file')
          /\ Len(file') \in Nat
      BY <1>2, LenProperties DEF TInv, TypeOK
    <3>2. \A i \in Intact(file) : i <= synced => i \in Intact(file')
      BY <2>0, <2>1, <3>1 DEF Intact
    <3>3. Durable!Extends(DurablePrefix, DurablePrefix')
      BY <2>0, <2>1, <3>1, <3>2 DEF Durable!Extends, DurablePrefix, Intact
    <3>4. Durable!WellFormed(DurablePrefix')
      BY <1>2 DEF Durable!WellFormed, DurablePrefix, LogInv, LogWellFormed
    <3> QED
      BY <2>2, <3>3, <3>4 DEF Durable!Next, Durable!Grow
  <2>3. CASE Answer
    <3> DEFINE r == staged[cursor].rec
               e == [rec |-> r, via |-> "batch", epoch |-> epoch]
    <3>0. UNCHANGED <<file, synced>> /\ acks' = acks \union {e}
      BY <2>3 DEF Answer, Ack, volatileVars
    <3>a. e.rec = r /\ e.via = "batch"
      OBVIOUS
    <3> HIDE DEF e, r
    <3>1. Answered' = Answered \union {r}
      BY <3>0, <3>a DEF Answered
    <3>2. \E a \in acks' : a.via = "batch" /\ a.rec = r
      BY <3>0, <3>a
    <3>3. \E i \in 1 .. synced : file[i] = r
      BY <1>2, <3>0, <3>2 DEF LogInv, AckedIsOnDisk
    <3>4. \E i \in DOMAIN DurablePrefix : DurablePrefix[i] = r
      BY <1>2, <2>0, <3>3 DEF DurablePrefix, Intact, WholeFrames
    <3>5. UNCHANGED DurablePrefix
      BY <3>0 DEF DurablePrefix
    <3> QED
      BY <3>1, <3>4, <3>5 DEF Durable!Next, Durable!Acknowledge
  <2> QED
    BY <2>1, <2>2, <2>3
<1>3. Init => WholeFrames
  BY DEF Init, WholeFrames
<1>4. TInv /\ LogInv /\ WholeFrames /\ [Next]_vars => WholeFrames'
  BY WholeFramesStep
<1> QED
  BY <1>1, <1>2, <1>3, <1>4, Invariance, PTL DEF Spec, ImplementsDurableLog, Durable!Spec

-----------------------------------------------------------------------------
(* Snapshots *)

(* A version above the snapshot does not change what the snapshot returns. *)
LEMMA LaterPutIsInvisible ==
  ASSUME NEW K \in SUBSET Version, NEW v \in Version,
         NEW s \in Sids, NEW p \in Preds, NEW t \in 0 .. MaxTs, t < v.seq
  PROVE  GetAt(PutGrain(K, v), s, p, t) = GetAt(K, s, p, t)
<1>0. MaxTs \in Nat /\ v.seq \in 0 .. MaxTs /\ \A w \in K : w.seq \in 0 .. MaxTs
  BY MvccAssumption DEF Version
<1>1. \A w \in K : KeyOf(w) = KeyOf(v) => w.seq = v.seq
  BY <1>0 DEF KeyOf, GrainKey, Complement
<1>2. Visible(PutGrain(K, v), s, p, t) = Visible(K, s, p, t)
  BY <1>0, <1>1 DEF Visible, PutGrain
<1>3. PutGrain(K, v) \in SUBSET Version
  BY DEF PutGrain
<1>4. NewestVisible(PutGrain(K, v), s, p, t) = NewestVisible(K, s, p, t)
  BY <1>2 DEF NewestVisible
<1> QED
  BY <1>3, <1>4, SeekIsSnapshotRead

(* A read at or below the applied watermark returns the same for as long as   *)
(* the store is open (wal.rs, put_meta after the batch's last put_grain).      *)
THEOREM SnapshotsAreRepeatable == Spec => SnapshotsBelowAppliedAreStable
<1>1. ASSUME TInv, LogInv, [Next]_vars, pc # "down", pc' # "down",
             NEW s \in Sids, NEW p \in Preds, NEW t \in 0 .. applied
      PROVE  GetAt(kv', s, p, t) = GetAt(kv, s, p, t)
  <2>0. t \in 0 .. MaxTs /\ kv \in SUBSET Version /\ applied \in Nat
    BY <1>1, MvccAssumption DEF TInv, TypeOK
  <2>1. CASE Apply
    <3> DEFINE v == VersionOf(staged[cursor].rec)
    <3>1. pc = "apply" /\ cursor \in DOMAIN staged /\ kv' = PutGrain(kv, v)
      BY <1>1, <2>1, FileType DEF Apply, Loop, TInv, LoopShape
    <3>2. v \in Version /\ v.seq = staged[cursor].rec.seq /\ v.seq \in Nat
      BY <1>1, <3>1, StagedElement, MvccAssumption DEF VersionOf, Version
    <3>3. t < v.seq
      BY <1>1, <2>0, <3>1, <3>2 DEF LogInv, AppliedIsOld
    <3> QED
      BY <2>0, <3>1, <3>2, <3>3, LaterPutIsInvisible
  <2>2. CASE UNCHANGED kv
    BY <2>2
  <2> QED
    BY <1>1, <2>1, <2>2 DEF Next, Committer, Open, Submit, Drain, StageDup, StageNew,
       AllDuplicates, BatchStaged, Write, Fsync, StopWithError, Publish, Answer,
       ProcessCrash, PowerFail, Close, LoseVolatile, committerVars, volatileVars, vars
<1>2. TInv /\ LogInv /\ [Next]_vars =>
        [pc # "down" /\ pc' # "down" =>
           \A s \in Sids, p \in Preds, t \in 0 .. applied :
             GetAt(kv', s, p, t) = GetAt(kv, s, p, t)]_vars
  BY <1>1
<1> QED
  BY <1>2, Invariance, PTL DEF Spec, SnapshotsBelowAppliedAreStable

-----------------------------------------------------------------------------
(* Reads and subscribers *)

(* Every read of the running store returns the newest version visible at its   *)
(* snapshot, on every store recovery and the committer can build (get_at).      *)
THEOREM EveryReadIsASnapshotRead == Spec => []SeekReadsNewestVisible
<1>1. TypeOK => SeekReadsNewestVisible
  BY SeekIsSnapshotRead DEF TypeOK, SeekReadsNewestVisible
<1> QED
  BY <1>1, TypeCorrect, PTL

(* What subscribers were sent is in the synced part of the log, whatever fails *)
(* afterwards (committer_loop, the fsync precedes the publication).           *)
THEOREM PublishedStaysDurable == Spec => []PublishedIsDurable
<1>1. Init => PublishedIsDurable
  BY DEF Init, PublishedIsDurable
<1>2. ASSUME TInv, LogInv, PublishedIsDurable, [Next]_vars
      PROVE  PublishedIsDurable'
  <2>1. \A j \in 1 .. synced : j \in 1 .. synced' /\ file'[j] = file[j]
    <3>1. TInv'
      BY <1>2, TypeStep DEF LogInv
    <3>2. synced \in Int /\ synced' \in Int
      BY <1>2, <3>1 DEF TInv, TypeOK
    <3> QED
      BY <1>2, <3>2, DurablePartIsKept
  <2>2. CASE feed' = <<>>
    BY <2>2 DEF PublishedIsDurable
  <2>3. CASE UNCHANGED feed
    BY <1>2, <2>1, <2>3 DEF PublishedIsDurable
  <2>4. CASE Publish
    <3>1. /\ pc = "publish" /\ cursor \in 1 .. Len(staged)
          /\ feed' = Append(feed, staged[cursor].rec)
      BY <1>2, <2>4 DEF Publish, Loop, TInv, LoopShape
    <3>2. Len(file) - Len(staged) + cursor \in 1 .. synced
          /\ file[Len(file) - Len(staged) + cursor] = staged[cursor].rec
      BY <1>2, <3>1, FileType DEF LogInv, StagedIsWritten, TInv
    <3>3. feed \in Seq(WalRecord) /\ staged[cursor].rec \in WalRecord
      BY <1>2, <3>1, FileType DEF TInv, TypeOK
    <3>4. \A i \in DOMAIN feed' : \/ i \in DOMAIN feed /\ feed'[i] = feed[i]
                                  \/ feed'[i] = staged[cursor].rec
      BY <3>1, <3>3, AppendProperties, LenProperties
    <3> QED
      BY <1>2, <2>1, <3>2, <3>4 DEF PublishedIsDurable
  <2> QED
    BY <1>2, <2>2, <2>3, <2>4 DEF Next, Committer, Open, Submit, Drain, StageDup,
       StageNew, AllDuplicates, BatchStaged, Write, Fsync, StopWithError, Apply, Answer,
       ProcessCrash, PowerFail, Close, LoseVolatile, committerVars, volatileVars, vars
<1> QED
  BY <1>1, <1>2, Invariance, PTL DEF Spec

-----------------------------------------------------------------------------
(* Scans *)

(* A store has finitely many versions, one for a key. *)
IsStore(s) == s \in SUBSET Version /\ IsFiniteSet(s) /\ OneVersionPerKey(s)

KeyOrder(s) == {p \in s \X s : KeyLeq(KeyOf(p[1]), KeyOf(p[2]))}

LEMMA KeyShape ==
  ASSUME NEW v \in Version
  PROVE  /\ KeyOf(v) = <<v.sid, v.pred, MaxTs - v.seq>>
         /\ v.sid \in Nat /\ v.pred \in Nat /\ MaxTs - v.seq \in Nat /\ v.seq \in 0 .. MaxTs
<1>1. KeyOf(v) = <<v.sid, v.pred, MaxTs - v.seq>>
  BY DEF KeyOf, GrainKey, Complement
<1>2. v.sid \in Nat /\ v.pred \in Nat /\ v.seq \in 0 .. MaxTs /\ MaxTs \in Nat
  BY MvccAssumption DEF Version
<1>3. MaxTs - v.seq \in Nat
  BY <1>2
<1>4. QED
  BY <1>1, <1>2, <1>3

(* The order of the keys, and what lies between two keys of a grain.              *)
LEMMA KeyLaws ==
  /\ \A v, w \in Version : KeyLeq(KeyOf(v), KeyOf(w)) \/ KeyLeq(KeyOf(w), KeyOf(v))
  /\ \A v, w \in Version : KeyLeq(KeyOf(v), KeyOf(w)) /\ KeyLeq(KeyOf(w), KeyOf(v))
                             => KeyOf(v) = KeyOf(w)
  /\ \A u, v, w \in Version :
       KeyLeq(KeyOf(u), KeyOf(v)) /\ KeyLeq(KeyOf(v), KeyOf(w)) =>
         /\ KeyLeq(KeyOf(u), KeyOf(w))
         /\ SamePrefix(KeyOf(u), KeyOf(w)) => SamePrefix(KeyOf(v), KeyOf(w))
  BY KeyShape DEF KeyLeq, SamePrefix

LEMMA KeysOrderTotally ==
  ASSUME NEW s, IsStore(s)
  PROVE  OrdersTotally(KeyOrder(s), s)
  BY KeyLaws DEF IsStore, OneVersionPerKey, KeyOrder, OrdersTotally

(* A scan meets every version once, in the order of the keys.                    *)
LEMMA ScanIsSorted ==
  ASSUME NEW s, IsStore(s)
  PROVE  /\ Cardinality(s) \in Nat
         /\ ScanAll(s) \in [1 .. Cardinality(s) -> s]
         /\ \A i, j \in 1 .. Cardinality(s) :
              i <= j => KeyLeq(KeyOf(ScanAll(s)[i]), KeyOf(ScanAll(s)[j]))
         /\ \A i, j \in 1 .. Cardinality(s) : ScanAll(s)[i] = ScanAll(s)[j] => i = j
         /\ \A v \in s : \E i \in 1 .. Cardinality(s) : ScanAll(s)[i] = v
<1> DEFINE leq == KeyOrder(s)
           r(v) == Rank(leq, s, v)
           k == Cardinality(s)
           q == ScanAll(s)
<1>1. /\ k \in Nat
      /\ \A v \in s : r(v) \in 1 .. k
      /\ \A v, w \in s : r(v) <= r(w) <=> <<v, w>> \in leq
      /\ \A n \in 1 .. k : \E v \in s : r(v) = n
      /\ \A v, w \in s : r(v) = r(w) => v = w
  BY KeysOrderTotally, RanksCount DEF IsStore
<1>2. \A v \in s : {w \in s : KeyLeq(KeyOf(w), KeyOf(v))} = {w \in s : <<w, v>> \in leq}
  BY DEF KeyOrder
<1>3. q = [n \in 1 .. k |-> CHOOSE v \in s : Cardinality({w \in s : KeyLeq(KeyOf(w), KeyOf(v))}) = n]
  BY DEF ScanAll
<1>4. \A v \in s : Cardinality({w \in s : KeyLeq(KeyOf(w), KeyOf(v))}) = r(v)
  BY <1>2 DEF Rank
<1> HIDE DEF r, q
<1>5. ASSUME NEW n \in 1 .. k PROVE q[n] \in s /\ r(q[n]) = n
  <2> DEFINE c(v) == Cardinality({w \in s : KeyLeq(KeyOf(w), KeyOf(v))})
  <2>1. \E v \in s : c(v) = n
    BY <1>1, <1>4
  <2>2. q[n] = CHOOSE v \in s : c(v) = n
    BY <1>3
  <2>3. \A v \in s : c(v) = r(v)
    BY <1>4
  <2> HIDE DEF c
  <2>4. q[n] \in s /\ c(q[n]) = n
    BY <2>1, <2>2
  <2>5. QED
    BY <2>3, <2>4
<1>6. q \in [1 .. k -> s]
  BY <1>3, <1>5
<1>7. \A i, j \in 1 .. k : i <= j => KeyLeq(KeyOf(q[i]), KeyOf(q[j]))
  <2> SUFFICES ASSUME NEW i \in 1 .. k, NEW j \in 1 .. k, i <= j
               PROVE  KeyLeq(KeyOf(q[i]), KeyOf(q[j]))
    OBVIOUS
  <2>1. <<q[i], q[j]>> \in leq
    BY <1>1, <1>5
  <2>2. QED
    BY <2>1 DEF KeyOrder
<1>8. \A i, j \in 1 .. k : q[i] = q[j] => i = j
  BY <1>5
<1>9. \A v \in s : \E i \in 1 .. k : q[i] = v
  BY <1>1, <1>5
<1>10. QED
  BY <1>1, <1>6, <1>7, <1>8, <1>9 DEF q

(* The versions a scan of the first n entries returns: those that are the first of *)
(* their grain and no tombstone.                                             *)
Heads(q, n) ==
  {q[i] : i \in {m \in 1 .. n : /\ q[m].op # "delete"
                                /\ \A j \in 1 .. m - 1 : ~ SamePrefix(KeyOf(q[j]), KeyOf(q[m]))}}

(* What the scan remembers after n entries. *)
Scanned(q, n, acc) ==
  /\ acc.started <=> n # 0
  /\ n # 0 => SamePrefix(acc.last, KeyOf(q[n]))
  /\ acc.out = Heads(q, n)

LEMMA OneMoreHead ==
  ASSUME NEW q, NEW n \in Nat
  PROVE  Heads(q, n + 1) = Heads(q, n) \union
           (IF /\ q[n + 1].op # "delete"
               /\ \A j \in 1 .. n : ~ SamePrefix(KeyOf(q[j]), KeyOf(q[n + 1]))
            THEN {q[n + 1]} ELSE {})
<1>1. (n + 1) - 1 = n /\ 1 .. n + 1 = (1 .. n) \union {n + 1}
  OBVIOUS
<1> DEFINE Hd(m) == /\ q[m].op # "delete"
                    /\ \A j \in 1 .. m - 1 : ~ SamePrefix(KeyOf(q[j]), KeyOf(q[m]))
<1>2. Hd(n + 1) <=> /\ q[n + 1].op # "delete"
                    /\ \A j \in 1 .. n : ~ SamePrefix(KeyOf(q[j]), KeyOf(q[n + 1]))
  BY <1>1
<1>3. Heads(q, n) = {q[i] : i \in {m \in 1 .. n : Hd(m)}}
  BY DEF Heads
<1>4. Heads(q, n + 1) = {q[i] : i \in {m \in 1 .. n + 1 : Hd(m)}}
  BY DEF Heads
<1> HIDE DEF Hd
<1>5. Heads(q, n + 1) = Heads(q, n) \union (IF Hd(n + 1) THEN {q[n + 1]} ELSE {})
  BY <1>1, <1>3, <1>4
<1>6. QED
  BY <1>2, <1>5

(* One step of the scan. *)
LEMMA ScanStepScans ==
  ASSUME NEW s, IsStore(s), NEW n \in Nat, n + 1 \in 1 .. Cardinality(s), NEW acc,
         Scanned(ScanAll(s), n, acc)
  PROVE  Scanned(ScanAll(s), n + 1, ScanStep(acc, ScanAll(s)[n + 1]))
<1> DEFINE q == ScanAll(s)
           v == q[n + 1]
           k == Cardinality(s)
<1>1. /\ \A i \in 1 .. k : q[i] \in Version
      /\ \A i, j \in 1 .. k : i <= j => KeyLeq(KeyOf(q[i]), KeyOf(q[j]))
      /\ k \in Nat
  BY ScanIsSorted DEF IsStore
<1>2. (acc.started <=> n # 0) /\ (n # 0 => SamePrefix(acc.last, KeyOf(q[n]))) /\ acc.out = Heads(q, n)
  BY DEF Scanned
<1> HIDE DEF q
<1>3. \A i \in 1 .. n + 1 : i \in 1 .. k /\ (i # n + 1 => i \in 1 .. n /\ i <= n /\ n \in 1 .. k)
  BY <1>1
<1>4. (\E j \in 1 .. n : SamePrefix(KeyOf(q[j]), KeyOf(v)))
        <=> n # 0 /\ SamePrefix(acc.last, KeyOf(v))
  <2>1. ASSUME NEW j \in 1 .. n, SamePrefix(KeyOf(q[j]), KeyOf(v))
        PROVE  n # 0 /\ SamePrefix(KeyOf(q[n]), KeyOf(v))
    <3>1. j \in 1 .. k /\ n \in 1 .. k /\ j <= n /\ n <= n + 1 /\ n # 0
      BY <1>3
    <3>2. KeyLeq(KeyOf(q[j]), KeyOf(q[n])) /\ KeyLeq(KeyOf(q[n]), KeyOf(v))
      BY <1>1, <3>1
    <3>3. QED
      BY <1>1, <2>1, <3>1, <3>2, KeyLaws
  <2>2. n # 0 => n \in 1 .. n
    OBVIOUS
  <2>3. n # 0 => (SamePrefix(KeyOf(q[n]), KeyOf(v)) <=> SamePrefix(acc.last, KeyOf(v)))
    BY <1>2 DEF SamePrefix
  <2>4. QED
    BY <2>1, <2>2, <2>3
<1>5. CASE n # 0 /\ SamePrefix(acc.last, KeyOf(v))
  <2>1. ScanStep(acc, v) = acc
    BY <1>2, <1>5 DEF ScanStep
  <2>2. Heads(q, n + 1) = Heads(q, n)
    <3>1. ~ \A j \in 1 .. n : ~ SamePrefix(KeyOf(q[j]), KeyOf(q[n + 1]))
      BY <1>4, <1>5
    <3>2. Heads(q, n + 1) = Heads(q, n) \union {}
      BY <3>1, OneMoreHead
    <3>3. QED
      BY <3>2
  <2>3. n + 1 # 0
    OBVIOUS
  <2>4. QED
    BY <1>2, <1>5, <2>1, <2>2, <2>3 DEF Scanned, q
<1>6. CASE ~ (n # 0 /\ SamePrefix(acc.last, KeyOf(v)))
  <2>1. ScanStep(acc, v) = [started |-> TRUE, last |-> KeyOf(v),
                            out |-> IF v.op = "delete" THEN acc.out ELSE acc.out \union {v}]
    BY <1>2, <1>6 DEF ScanStep
  <2>2. Heads(q, n + 1) = Heads(q, n) \union (IF v.op # "delete" THEN {v} ELSE {})
    <3>1. \A j \in 1 .. n : ~ SamePrefix(KeyOf(q[j]), KeyOf(q[n + 1]))
      BY <1>4, <1>6
    <3>2. CASE v.op = "delete"
      BY <3>1, <3>2, OneMoreHead
    <3>3. CASE v.op # "delete"
      BY <3>1, <3>3, OneMoreHead
    <3>4. QED
      BY <3>2, <3>3
  <2>3. n + 1 # 0 /\ SamePrefix(KeyOf(v), KeyOf(v))
    BY DEF SamePrefix
  <2>4. ScanStep(acc, v).out = Heads(q, n + 1)
    <3>1. CASE v.op = "delete"
      <4>1. Heads(q, n + 1) = Heads(q, n) \union {}
        BY <2>2, <3>1
      <4>2. ScanStep(acc, v).out = acc.out
        BY <2>1, <3>1
      <4>3. QED
        BY <1>2, <4>1, <4>2
    <3>2. CASE v.op # "delete"
      <4>1. Heads(q, n + 1) = Heads(q, n) \union {v}
        BY <2>2, <3>2
      <4>2. ScanStep(acc, v).out = acc.out \union {v}
        BY <2>1, <3>2
      <4>3. QED
        BY <1>2, <4>1, <4>2
    <3>3. QED
      BY <3>1, <3>2
  <2>5. ScanStep(acc, v).started = TRUE /\ ScanStep(acc, v).last = KeyOf(v)
    BY <2>1
  <2>6. QED
    BY <2>3, <2>4, <2>5 DEF Scanned, q
<1>7. QED
  BY <1>5, <1>6

NothingScanned == [started |-> FALSE, last |-> <<0, 0, 0>>, out |-> {}]

(* The fold over a scan, position by position. *)
LEMMA ScanIsAFold ==
  ASSUME NEW s, IsStore(s)
  PROVE  \E f : /\ f[{}] = NothingScanned
                /\ \A U \in SUBSET (1 .. Cardinality(s)) :
                     U # {} => f[U] = ScanStep(f[U \ {Max(U)}], ScanAll(s)[Max(U)])
                /\ ScanLive(s) = f[1 .. Cardinality(s)].out
<1> DEFINE n == Cardinality(s)
           q == ScanAll(s)
           T == [started : BOOLEAN, last : {<<0, 0, 0>>} \union {KeyOf(v) : v \in s}, out : SUBSET s]
           Body(it) == [U \in SUBSET DOMAIN q |->
                          IF U = {} THEN NothingScanned
                          ELSE ScanStep(it[U \ {Max(U)}], q[Max(U)])]
           Iter == CHOOSE it : it = Body(it)
           step == [x \in (1 .. n) \X T |-> ScanStep(x[2], q[x[1]])]
<1>1. n \in Nat /\ q \in [1 .. n -> s] /\ DOMAIN q = 1 .. n /\ \A m \in 1 .. n : q[m] \in s
  <2>1. n \in Nat /\ q \in [1 .. n -> s]
    BY ScanIsSorted
  <2> HIDE DEF q, n
  <2>2. QED
    BY <2>1
<1>2. ASSUME NEW acc \in T, NEW v \in s PROVE ScanStep(acc, v) \in T
  <2>1. CASE acc.started /\ SamePrefix(acc.last, KeyOf(v))
    BY <2>1 DEF ScanStep
  <2>2. CASE ~ (acc.started /\ SamePrefix(acc.last, KeyOf(v)))
    <3> DEFINE more == IF v.op = "delete" THEN acc.out ELSE acc.out \union {v}
    <3>1. ScanStep(acc, v) = [started |-> TRUE, last |-> KeyOf(v), out |-> more]
      BY <2>2, Zenon DEF ScanStep
    <3>2. more \in SUBSET s
      OBVIOUS
    <3> HIDE DEF more
    <3>3. QED
      BY <3>1, <3>2
  <2>3. QED
    BY <2>1, <2>2
<1>3. NothingScanned \in T
  BY DEF NothingScanned
<1> HIDE DEF T, q, n
<1>4. step \in [(1 .. n) \X T -> T]
  BY <1>1, <1>2
<1>5. PICK f : f \in [SUBSET (1 .. n) -> T] /\ FoldsLeft(f, n, NothingScanned, step)
  <2> HIDE DEF step
  <2>1. QED
    BY <1>1, <1>3, <1>4, FoldExists, Zenon
<1>6. f = Body(f)
  <2>1. \A U \in SUBSET (1 .. n) :
          U # {} => Max(U) \in 1 .. n /\ U \ {Max(U)} \in SUBSET (1 .. n)
    BY MaxIsGreatest, <1>1
  <2>2. \A U \in SUBSET (1 .. n) :
          f[U] = IF U = {} THEN NothingScanned ELSE ScanStep(f[U \ {Max(U)}], q[Max(U)])
    BY <1>5, <2>1 DEF FoldsLeft
  <2>3. QED
    BY <1>1, <1>5, <2>2
<1>7. Iter = Body(Iter)
  <2> HIDE DEF Body
  <2>1. QED
    BY <1>6
<1>8. ScanLive(s) = Iter[DOMAIN q].out
  BY DEF ScanLive, FoldLeft, MapThenFoldSet, NothingScanned, q
<1> HIDE DEF Iter
<1>9. Iter[{}] = NothingScanned
  <2>1. Iter[{}] = Body(Iter)[{}]
    BY <1>7
  <2>2. QED
    BY <2>1
<1>10. ASSUME NEW U \in SUBSET (1 .. n), U # {}
       PROVE  Iter[U] = ScanStep(Iter[U \ {Max(U)}], q[Max(U)])
  <2>1. Iter[U] = Body(Iter)[U]
    BY <1>7
  <2>2. QED
    BY <1>1, <1>10, <2>1
<1>11. ScanLive(s) = Iter[1 .. n].out
  BY <1>1, <1>8
<1> HIDE DEF Body
<1>12. QED
  BY <1>9, <1>10, <1>11 DEF q, n

(* A scan returns the heads of the grains. *)
LEMMA ScanReturnsHeads ==
  ASSUME NEW s, IsStore(s)
  PROVE  ScanLive(s) = Heads(ScanAll(s), Cardinality(s))
<1> DEFINE k == Cardinality(s)
           q == ScanAll(s)
<1>1. k \in Nat
  BY ScanIsSorted
<1>2. PICK f : /\ f[{}] = NothingScanned
               /\ \A U \in SUBSET (1 .. k) :
                     U # {} => f[U] = ScanStep(f[U \ {Max(U)}], q[Max(U)])
               /\ ScanLive(s) = f[1 .. k].out
  BY ScanIsAFold
<1> DEFINE Good == {n \in Nat : n <= k => Scanned(q, n, f[1 .. n])}
<1>3. 0 \in Good
  <2>1. 1 .. 0 = {}
    OBVIOUS
  <2>2. NothingScanned.started = FALSE /\ NothingScanned.out = {}
    BY DEF NothingScanned
  <2>3. Heads(q, 0) = {}
    BY <2>1 DEF Heads
  <2>4. Scanned(q, 0, NothingScanned)
    BY <2>2, <2>3 DEF Scanned
  <2>5. f[1 .. 0] = NothingScanned
    BY <1>2, <2>1
  <2>6. Scanned(q, 0, f[1 .. 0])
    BY <2>4, <2>5, Zenon
  <2>7. QED
    BY <2>6
<1>4. ASSUME NEW n \in Nat, n \in Good PROVE n + 1 \in Good
  <2> SUFFICES ASSUME n + 1 <= k PROVE Scanned(q, n + 1, f[1 .. n + 1])
    OBVIOUS
  <2>1. n <= k /\ n + 1 \in 1 .. k /\ 1 .. n + 1 \in SUBSET (1 .. k)
    BY <1>1
  <2>2. Scanned(q, n, f[1 .. n])
    BY <1>4, <2>1
  <2>3. Scanned(q, n + 1, ScanStep(f[1 .. n], q[n + 1]))
    BY <2>1, <2>2, ScanStepScans
  <2>4. 1 .. n + 1 # {} /\ Max(1 .. n + 1) = n + 1 /\ (1 .. n + 1) \ {n + 1} = 1 .. n
    BY LastPosition, Zenon
  <2>5. f[1 .. n + 1] = ScanStep(f[1 .. n], q[n + 1])
    <3> HIDE DEF q, k
    <3>1. f[1 .. n + 1] = ScanStep(f[(1 .. n + 1) \ {Max(1 .. n + 1)}], q[Max(1 .. n + 1)])
      BY <1>2, <2>1, <2>4, Zenon
    <3>2. QED
      BY <2>4, <3>1, Zenon
  <2>6. QED
    BY <2>3, <2>5, Zenon
<1>5. k \in Good
  <2> HIDE DEF Good, k
  <2>1. QED
    BY <1>1, <1>3, <1>4, NumbersInduction
<1>6. Scanned(q, k, f[1 .. k])
  BY <1>1, <1>5
<1>7. QED
  BY <1>2, <1>6 DEF Scanned

(* The heads of the grains are their newest versions. *)
LEMMA HeadsAreNewest ==
  ASSUME NEW s, IsStore(s)
  PROVE  Heads(ScanAll(s), Cardinality(s))
           = UNION {NewestVisible(s, sid, pred, MaxTs) : sid \in Sids, pred \in Preds}
<1> DEFINE k == Cardinality(s)
           q == ScanAll(s)
           all == UNION {NewestVisible(s, sid, pred, MaxTs) : sid \in Sids, pred \in Preds}
           IsHead(m) == \A j \in 1 .. m - 1 : ~ SamePrefix(KeyOf(q[j]), KeyOf(q[m]))
           IsNewest(v) == \A w \in s : w.sid = v.sid /\ w.pred = v.pred => w.seq <= v.seq
<1>1. /\ k \in Nat
      /\ \A i \in 1 .. k : q[i] \in s
      /\ \A i, j \in 1 .. k : i <= j => KeyLeq(KeyOf(q[i]), KeyOf(q[j]))
      /\ \A i, j \in 1 .. k : q[i] = q[j] => i = j
      /\ \A v \in s : \E i \in 1 .. k : q[i] = v
  <2>1. k \in Nat /\ q \in [1 .. k -> s]
    BY ScanIsSorted
  <2>2. \A i \in 1 .. k : q[i] \in s
    <3> HIDE DEF k, q
    <3>1. QED
      BY <2>1
  <2>3. QED
    BY <2>1, <2>2, ScanIsSorted
<1>2. s \in SUBSET Version /\ \A v, w \in s : KeyOf(v) = KeyOf(w) => v = w
  BY DEF IsStore, OneVersionPerKey
<1>3. \A v, w \in s : SamePrefix(KeyOf(v), KeyOf(w)) <=> v.sid = w.sid /\ v.pred = w.pred
  BY <1>2, KeyShape DEF SamePrefix
<1>4. Heads(q, k) = {q[i] : i \in {m \in 1 .. k : q[m].op # "delete" /\ IsHead(m)}}
  BY DEF Heads
<1> HIDE DEF q, k
<1>5. ASSUME NEW m \in 1 .. k PROVE IsHead(m) <=> IsNewest(q[m])
  <2>1. ASSUME IsHead(m), NEW w \in s, w.sid = q[m].sid, w.pred = q[m].pred
        PROVE  w.seq <= q[m].seq
    <3>1. PICK i \in 1 .. k : q[i] = w
      BY <1>1
    <3>2. SamePrefix(KeyOf(q[i]), KeyOf(q[m]))
      BY <1>1, <1>3, <2>1, <3>1
    <3>3. ~ (i \in 1 .. m - 1)
      BY <2>1, <3>2
    <3>4. m <= i
      BY <1>1, <3>3
    <3>5. KeyLeq(KeyOf(q[m]), KeyOf(w))
      BY <1>1, <3>1, <3>4
    <3>6. QED
      BY <1>1, <1>2, <2>1, <3>5, NewestFirst
  <2>2. ASSUME IsNewest(q[m]), NEW j \in 1 .. m - 1, SamePrefix(KeyOf(q[j]), KeyOf(q[m]))
        PROVE  FALSE
    <3>1. j \in 1 .. k /\ j <= m /\ j # m
      BY <1>1
    <3>2. q[j] \in s /\ q[m] \in s /\ q[j].sid = q[m].sid /\ q[j].pred = q[m].pred
      BY <1>1, <1>3, <2>2, <3>1
    <3>3. q[j].seq <= q[m].seq
      BY <2>2, <3>2
    <3>4. KeyLeq(KeyOf(q[m]), KeyOf(q[j]))
      BY <1>2, <3>2, <3>3, NewestFirst
    <3>5. KeyLeq(KeyOf(q[j]), KeyOf(q[m]))
      BY <1>1, <3>1
    <3>6. KeyOf(q[j]) = KeyOf(q[m])
      BY <1>2, <3>2, <3>4, <3>5, KeyLaws
    <3>7. QED
      BY <1>1, <1>2, <3>1, <3>2, <3>6
  <2>3. QED
    BY <2>1, <2>2
<1>6. \A v : v \in all <=> v \in s /\ v.op # "delete" /\ IsNewest(v)
  <2>1. ASSUME NEW v, v \in all PROVE v \in s /\ v.op # "delete" /\ IsNewest(v)
    <3>1. PICK sid \in Sids, pred \in Preds : v \in NewestVisible(s, sid, pred, MaxTs)
      BY <2>1
    <3>2. v \in s /\ v.sid = sid /\ v.pred = pred /\ v.op # "delete"
          /\ \A w \in Visible(s, sid, pred, MaxTs) : w.seq <= v.seq
      BY <3>1 DEF NewestVisible, Newest, Live, Visible
    <3>3. \A w \in s : w.sid = sid /\ w.pred = pred => w \in Visible(s, sid, pred, MaxTs)
      BY <1>2, KeyShape, MvccAssumption DEF Visible
    <3>4. QED
      BY <3>2, <3>3
  <2>2. ASSUME NEW v \in s, v.op # "delete", IsNewest(v) PROVE v \in all
    <3>1. v.sid \in Sids /\ v.pred \in Preds /\ v.seq <= MaxTs
      BY <1>2, MvccAssumption DEF Version
    <3>2. v \in NewestVisible(s, v.sid, v.pred, MaxTs)
      BY <2>2, <3>1 DEF NewestVisible, Newest, Live, Visible
    <3>3. QED
      BY <3>1, <3>2
  <2>3. QED
    BY <2>1, <2>2
<1> HIDE DEF all, IsHead, IsNewest
<1>7. \A v : v \in Heads(q, k) <=> v \in s /\ v.op # "delete" /\ IsNewest(v)
  BY <1>1, <1>4, <1>5
<1>8. Heads(q, k) = all
  BY <1>6, <1>7
<1>9. QED
  BY <1>8 DEF q, k, all

(* The rebuild scan returns for each grain what a read at the end of time returns. *)
THEOREM ScanIsSnapshotRead ==
  ASSUME NEW s, IsStore(s)
  PROVE  ScanLive(s) = UNION {GetAt(s, sid, pred, MaxTs) : sid \in Sids, pred \in Preds}
<1>1. MaxTs \in 0 .. MaxTs /\ s \in SUBSET Version
  BY MvccAssumption DEF IsStore
<1>2. \A sid \in Sids, pred \in Preds :
        GetAt(s, sid, pred, MaxTs) = NewestVisible(s, sid, pred, MaxTs)
  BY <1>1, SeekIsSnapshotRead
<1>3. UNION {GetAt(s, sid, pred, MaxTs) : sid \in Sids, pred \in Preds}
        = UNION {NewestVisible(s, sid, pred, MaxTs) : sid \in Sids, pred \in Preds}
  BY <1>2
<1>4. QED
  BY <1>3, ScanReturnsHeads, HeadsAreNewest

-----------------------------------------------------------------------------
(* Stores *)

LEMMA PutKeepsStore ==
  ASSUME NEW s, IsStore(s), NEW v \in Version
  PROVE  IsStore(PutGrain(s, v))
<1> DEFINE rest == {w \in s : KeyOf(w) # KeyOf(v)}
<1>1. IsFiniteSet(rest)
  BY FS_Subset DEF IsStore
<1>2. PutGrain(s, v) = rest \union {v}
  BY DEF PutGrain
<1>3. IsFiniteSet(rest \union {v})
  <2> HIDE DEF rest
  <2>1. QED
    BY <1>1, FS_AddElement
<1>4. QED
  BY <1>2, <1>3 DEF IsStore, OneVersionPerKey

LEMMA ReplayIsStore ==
  ASSUME TypeOK, LogWellFormed
  PROVE  IsStore(ReplayedKv(file))
<1> DEFINE last(i) == \A j \in Intact(file) :
                        j > i => KeyOf(VersionOf(file[j])) # KeyOf(VersionOf(file[i]))
           L == {n \in Intact(file) : last(n)}
           M == [i \in L |-> VersionOf(file[i])]
<1>1. Len(file) \in Nat /\ Intact(file) \subseteq 1 .. Len(file)
  BY FileType
<1>2. ReplayedKv(file) = {VersionOf(file[i]) : i \in L}
  BY DEF ReplayedKv
<1>3. IsFiniteSet(L)
  <2>1. IsFiniteSet(1 .. Len(file)) /\ L \in SUBSET (1 .. Len(file))
    BY <1>1, FS_Interval
  <2> HIDE DEF L
  <2>2. QED
    BY <2>1, FS_Subset
<1>4. \A i, j \in L : KeyOf(VersionOf(file[i])) = KeyOf(VersionOf(file[j])) => i = j
  <2> SUFFICES ASSUME NEW i \in L, NEW j \in L, KeyOf(VersionOf(file[i])) = KeyOf(VersionOf(file[j]))
               PROVE  i = j
    OBVIOUS
  <2>1. ~ (j > i) /\ ~ (i > j) /\ i \in Nat /\ j \in Nat
    BY <1>1
  <2>2. QED
    BY <2>1
<1> HIDE DEF L
<1>5. OneVersionPerKey(ReplayedKv(file))
  BY <1>2, <1>4 DEF OneVersionPerKey
<1>6. IsFiniteSet(ReplayedKv(file))
  <2>1. M \in Surjection(L, ReplayedKv(file))
    BY <1>2 DEF Surjection
  <2> HIDE DEF M
  <2>2. QED
    BY <1>3, <2>1, FS_Surjection
<1>7. QED
  BY <1>5, <1>6, ReplayType DEF IsStore

(* A store, whatever put, replayed or lost its versions. *)
KvIsStore == IsStore(kv)

LEMMA StoreStep == TInv /\ LogInv /\ KvIsStore /\ [Next]_vars => KvIsStore'
<1> SUFFICES ASSUME TInv, LogInv, KvIsStore, [Next]_vars
             PROVE  IsStore(kv')
  BY DEF KvIsStore
<1>1. CASE Apply
  <2> DEFINE v == VersionOf(staged[cursor].rec)
  <2>1. pc = "apply" /\ cursor \in DOMAIN staged /\ kv' = PutGrain(kv, v)
    BY <1>1, FileType DEF Apply, Loop, TInv, LoopShape
  <2>2. v \in Version
    BY <2>1, StagedElement, MvccAssumption DEF VersionOf, Version
  <2>3. QED
    BY <2>1, <2>2, PutKeepsStore DEF KvIsStore
<1>2. CASE Open
  BY <1>2, ReplayIsStore DEF Open, TInv, LogInv, KvIsStore
<1>3. CASE kv' = {}
  BY <1>3, FS_EmptySet DEF IsStore, OneVersionPerKey
<1>4. CASE UNCHANGED kv
  BY <1>4 DEF KvIsStore
<1>5. QED
  BY <1>1, <1>2, <1>3, <1>4 DEF Next, Committer, Submit, Drain, StageDup, StageNew,
     AllDuplicates, BatchStaged, Write, Fsync, StopWithError, Publish, Answer,
     ProcessCrash, PowerFail, Close, LoseVolatile, committerVars, volatileVars, vars

(* The rebuild scan and the reads of every store agree (scan_live, get_at). *)
THEOREM ScansAgree == Spec => []ScanAgreesWithReads
<1>1. Init => KvIsStore
  BY FS_EmptySet DEF Init, KvIsStore, IsStore, OneVersionPerKey
<1>2. KvIsStore => ScanAgreesWithReads
  BY ScanIsSnapshotRead DEF KvIsStore, ScanAgreesWithReads
<1>3. QED
  BY <1>1, StoreStep, <1>2, Invariance, PTL DEF Spec

=============================================================================
