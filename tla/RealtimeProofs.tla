---------------------------- MODULE RealtimeProofs ----------------------------
(***************************************************************************)
(* The realtime client against a server that may lose, delay and repeat    *)
(* its requests: proofs of OneJobPerKey, NoRepeatedRevision,               *)
(* NoSelfConflict and ClientAgrees.                                        *)
(*                                                                         *)
(* The argument follows the requests that may still reach the server, the  *)
(* open revision of the client and the copies of revisions it has given    *)
(* up.  A copy whose key has a job has a base older than the session, so   *)
(* it is never accepted again; of a live session the client is in, every   *)
(* copy but that of the open revision has an old base; and the open one is *)
(* either the session's latest revision, with its receipt, or still        *)
(* current and different from what the server has.                         *)
(***************************************************************************)
EXTENDS RealtimeClient, SequenceTheorems, TLAPS

-----------------------------------------------------------------------------
(* Types. *)

Locals == [pending: Revision \cup {NoRevision}, frozen: Files \cup {NoFiles}, last: Files \cup {NoFiles},
           dirty: BOOLEAN, trigger: BOOLEAN, resume: BOOLEAN, extra: Nat, rounds: Nat, displayed: Nat,
           shown: Nat, diagnosed: Nat, lastOk: Nat, latest: Nat, thenSubmit: BOOLEAN]
ClientPC == {"create", "loop", "freeze", "prepare", "commit", "publish", "diagnose", "close", "done"}
Client == [pc: ClientPC, creation: 1 .. MaxCreations, revisions: 0 .. MaxRevisions,
           session: SessionIds \cup {None}, stop: BOOLEAN, run: Locals]
Row == [session: SessionIds, revision: Nat, key: Keys, files: Files,
        status: {"queued", "running", "succeeded", "failed", "cancelled"}]
SessionRecord == [status: {"none", "live", "gone"}, key: Nat, revision: Nat, pending: Nat, running: Nat,
                  lastOk: Nat, latest: Nat, receipts: Seq([key: Keys, job: Nat])]

(* What the client's place says of its variables: a frozen capture is not   *)
(* what was last submitted, and no capture has more rounds of missing files *)
(* than were resolved.                                                      *)
Places(c) ==
    /\ c.pc \notin {"create", "done"} => c.session \in SessionIds
    /\ c.pc \in {"freeze", "prepare"} => c.run.pending = NoRevision
    /\ c.pc = "prepare" => c.run.frozen \in Files /\ c.run.frozen # c.run.last /\ c.run.frozen[2] = c.run.extra
    /\ c.pc = "commit" => c.run.pending # NoRevision
    /\ c.pc \in {"create", "close", "done"} => c.run = FreshLocals
    /\ c.run.last # NoFiles => c.run.last[2] <= c.run.extra
    /\ c.run.pending # NoRevision => c.run.pending.session = c.session /\ c.run.pending.files[2] <= c.run.extra
(* What names a job names one that was made. *)
Refers(c) == c.run.lastOk <= Len(jobs) /\ c.run.latest <= Len(jobs)
ClientReferences == Refers(client) /\ published.job \in 0 .. Len(jobs)
References ==
    \A s \in SessionIds :
        /\ sessions[s].pending <= Len(jobs) /\ sessions[s].running <= Len(jobs)
        /\ sessions[s].lastOk <= Len(jobs) /\ sessions[s].latest <= Len(jobs)
ReceiptsBounded == \A s \in SessionIds : Len(sessions[s].receipts) <= MaxSessionReceipts
TypeInv ==
    /\ source \in 0 .. MaxEdits /\ changed \in BOOLEAN
    /\ client \in Client /\ Places(client) /\ ClientReferences
    /\ jobs \in Seq(Row) /\ sessions \in [SessionIds -> SessionRecord] /\ References /\ ReceiptsBounded
    /\ late \subseteq Request

(* The constants of the model are what they stand for. *)
LEMMA Constants ==
    /\ SessionIds \subseteq Nat /\ None \notin SessionIds /\ None \in Nat
    /\ Keys \subseteq Nat /\ None \notin Keys
    /\ NoRevision \notin Revision /\ NoFiles \notin Files
    /\ \A f \in Files : f[2] \in Nat
    /\ \A r \in Revision : r.session \in SessionIds /\ r.base \in Nat /\ r.key \in Keys /\ r.files \in Files
<1>1. SessionIds \subseteq Nat /\ None \notin SessionIds /\ None \in Nat /\ Keys \subseteq Nat /\ None \notin Keys
  BY RealtimeClientAssumption DEF SessionIds, Keys, None
<1>2. NoRevision \notin Revision
  BY <1>1 DEF NoRevision, Revision
<1>3. ASSUME NEW f \in Files
      PROVE  f # NoFiles /\ f[2] \in Nat
  <2>1. PICK a \in 0 .. MaxEdits, b \in Nat : f = <<a, b>>
    BY DEF Files
  <2>2. Len(f) = 2 /\ f[2] = b
    BY <2>1
  <2>3. QED
    BY <2>1, <2>2 DEF NoFiles
<1>4. \A r \in Revision : r.session \in SessionIds /\ r.base \in Nat /\ r.key \in Keys /\ r.files \in Files
  BY DEF Revision
<1>5. QED
  BY <1>1, <1>2, <1>3, <1>4

(* A request in flight has the fields of its operation. *)
LEMMA RequestFacts ==
    ASSUME NEW r \in Request
    PROVE  /\ r.op = "create" => r.key \in 1 .. MaxCreations
           /\ r.op = "revision" => r.body \in Revision
           /\ r.op = "close" => r.session \in SessionIds
           /\ r.op \in {"create", "revision", "close"}
BY DEF Request

(* The initial state has the types. *)
LEMMA InitTypes == Init => TypeInv
<1>1. SUFFICES ASSUME Init PROVE TypeInv
  OBVIOUS
<1>2. client \in Client
  <2>1. FreshLocals \in Locals
    BY DEF FreshLocals, Locals, None
  <2>2. QED
    BY <1>1, <2>1, RealtimeClientAssumption DEF Init, Outside, Client, ClientPC
<1>3. Places(client)
  BY <1>1 DEF Init, Outside, Places, FreshLocals
<1>4. sessions \in [SessionIds -> SessionRecord] /\ jobs \in Seq(Row)
  BY <1>1 DEF Init, NoSession, SessionRecord, None
<1>5. References /\ ReceiptsBounded /\ ClientReferences
  BY <1>1, RealtimeClientAssumption DEF Init, Outside, FreshLocals, NoSession, None, References, ReceiptsBounded, ClientReferences, Refers
<1>6. source \in 0 .. MaxEdits /\ changed \in BOOLEAN /\ late \subseteq Request
  <2>1. source \in 0 .. MaxEdits
    BY <1>1, RealtimeClientAssumption DEF Init
  <2>2. QED
    BY <1>1, <2>1 DEF Init
<1>7. QED
  BY <1>2, <1>3, <1>4, <1>5, <1>6 DEF TypeInv

-----------------------------------------------------------------------------
(* The server's handlers keep its state well typed and forget no job. *)

(* A function on an initial segment is a sequence. *)
LEMMA FunctionIsSeq ==
    ASSUME NEW S, NEW n \in Nat, NEW f \in [1 .. n -> S]
    PROVE  f \in Seq(S) /\ Len(f) = n /\ DOMAIN f = 1 .. n
OBVIOUS

JobsKept ==
    /\ DOMAIN jobs' = DOMAIN jobs
    /\ \A j \in DOMAIN jobs : /\ jobs'[j].session = jobs[j].session /\ jobs'[j].revision = jobs[j].revision
                              /\ jobs'[j].key = jobs[j].key /\ jobs'[j].files = jobs[j].files
ServerTyped ==
    /\ jobs' \in Seq(Row) /\ Len(jobs) <= Len(jobs')
    /\ sessions' \in [SessionIds -> SessionRecord] /\ References' /\ ReceiptsBounded'

(* A server that does nothing keeps its types. *)
LEMMA StillTyped ==
    ASSUME TypeInv, UNCHANGED serverVars
    PROVE  ServerTyped /\ JobsKept
BY DEF serverVars, TypeInv, ServerTyped, References, ReceiptsBounded, JobsKept

(* A session that is new, or gone, has nothing in it. *)
LEMMA EmptySession ==
    ASSUME NEW S, \/ S = [NoSession EXCEPT !.status = "gone"]
                  \/ \E k \in Nat : S = [NoSession EXCEPT !.status = "live", !.key = k]
    PROVE  /\ S \in SessionRecord /\ Len(S.receipts) = 0 /\ S.receipts = <<>> /\ S.revision = 0
           /\ S.pending = 0 /\ S.running = 0 /\ S.lastOk = 0 /\ S.latest = 0
<1>1. PICK st \in {"live", "gone"}, k \in Nat :
          S = [status |-> st, key |-> k, revision |-> 0, pending |-> 0, running |-> 0, lastOk |-> 0,
               latest |-> 0, receipts |-> <<>>]
  BY DEF NoSession, None
<1>2. S \in SessionRecord
  <2>1. <<>> \in Seq([key: Keys, job: Nat])
    BY EmptySeq
  <2> DEFINE T == Seq([key: Keys, job: Nat])
  <2>2. <<>> \in T
    BY <2>1
  <2> HIDE DEF T
  <2>3. S \in [status: {"none", "live", "gone"}, key: Nat, revision: Nat, pending: Nat, running: Nat,
               lastOk: Nat, latest: Nat, receipts: T]
    BY <1>1, <2>2
  <2>4. QED
    BY <2>3 DEF SessionRecord, T
<1>3. S.receipts = <<>> /\ S.revision = 0 /\ S.pending = 0 /\ S.running = 0 /\ S.lastOk = 0 /\ S.latest = 0
  BY <1>1
<1>4. QED
  BY <1>2, <1>3

(* Creating a session. *)
LEMMA CreateTyped ==
    ASSUME TypeInv, NEW k \in Nat, NEW s \in SessionIds, HandleCreate(k, s)
    PROVE  ServerTyped /\ JobsKept
<1>1. CASE UNCHANGED serverVars
  BY <1>1, StillTyped
<1>2. CASE jobs' = jobs /\ sessions' = [sessions EXCEPT ![s] = [NoSession EXCEPT !.status = "live", !.key = k]]
  <2> DEFINE S == [NoSession EXCEPT !.status = "live", !.key = k]
  <2>1. /\ S \in SessionRecord /\ Len(S.receipts) = 0
        /\ S.pending = 0 /\ S.running = 0 /\ S.lastOk = 0 /\ S.latest = 0
    BY EmptySession
  <2> HIDE DEF S
  <2>2. sessions' \in [SessionIds -> SessionRecord] /\ sessions'[s] = S /\ \A t \in SessionIds \ {s} : sessions'[t] = sessions[t]
    BY <1>2, <2>1 DEF S, TypeInv
  <2>3. References' /\ ReceiptsBounded'
    <3>1. Len(jobs) \in Nat /\ MaxSessionReceipts \in Nat
      BY RealtimeClientAssumption DEF TypeInv
    <3>2. References'
      <4>1. \A t \in SessionIds : sessions'[t] = S \/ sessions'[t] = sessions[t]
        BY <2>2
      <4>2. Len(jobs') = Len(jobs) /\ References
        BY <1>2 DEF TypeInv
      <4>3. QED
        BY <2>1, <3>1, <4>1, <4>2 DEF References
    <3>3. ReceiptsBounded'
      BY <2>1, <2>2, <3>1 DEF TypeInv, ReceiptsBounded
    <3>4. QED
      BY <3>2, <3>3
  <2>4. QED
    BY <1>2, <2>2, <2>3 DEF TypeInv, ServerTyped, JobsKept
<1>3. QED
  BY <1>1, <1>2 DEF HandleCreate, serverVars

(* Closing one. *)
LEMMA CloseTyped ==
    ASSUME TypeInv, NEW s \in SessionIds, HandleClose(s)
    PROVE  ServerTyped /\ JobsKept
<1>1. /\ \A t \in SessionIds \ {s} : sessions'[t] = sessions[t]
      /\ sessions'[s] = IF Live(s) THEN [NoSession EXCEPT !.status = "gone"] ELSE sessions[s]
      /\ DOMAIN sessions' = SessionIds /\ sessions' = [t \in SessionIds |-> sessions'[t]]
  BY DEF HandleClose, TypeInv
<1> DEFINE S == [NoSession EXCEPT !.status = "gone"]
<1>2. /\ S \in SessionRecord /\ Len(S.receipts) = 0
      /\ S.pending = 0 /\ S.running = 0 /\ S.lastOk = 0 /\ S.latest = 0
  BY EmptySession
<1> HIDE DEF S
<1>3. \A t \in SessionIds : sessions'[t] = S \/ sessions'[t] = sessions[t]
  BY <1>1 DEF S
<1>4. sessions' \in [SessionIds -> SessionRecord]
  BY <1>1, <1>2, <1>3 DEF TypeInv
<1>5. \A j \in DOMAIN jobs : jobs[j] \in Row
  BY DEF TypeInv
<1>6. /\ jobs' = [j \in DOMAIN jobs |-> jobs'[j]]
      /\ \A j \in DOMAIN jobs : jobs'[j] = jobs[j] \/ jobs'[j] = [jobs[j] EXCEPT !.status = "cancelled"]
  BY DEF HandleClose
<1>7. \A j \in DOMAIN jobs : jobs'[j] \in Row
  BY <1>5, <1>6 DEF Row
<1>8. Len(jobs) \in Nat /\ DOMAIN jobs = 1 .. Len(jobs)
  BY DEF TypeInv
<1>9. jobs' \in [1 .. Len(jobs) -> Row]
  BY <1>6, <1>7, <1>8
<1>10. jobs' \in Seq(Row) /\ Len(jobs') = Len(jobs)
  BY <1>8, <1>9, FunctionIsSeq
<1>11. JobsKept
  BY <1>5, <1>6 DEF JobsKept, Row
<1>12. References' /\ ReceiptsBounded'
  <2>1. MaxSessionReceipts \in Nat
    BY RealtimeClientAssumption
  <2>2. References'
    BY <1>2, <1>3, <1>8, <1>10 DEF TypeInv, References
  <2>3. ReceiptsBounded'
    BY <1>2, <1>3, <2>1 DEF TypeInv, ReceiptsBounded
  <2>4. QED
    BY <2>2, <2>3
<1>13. QED
  BY <1>4, <1>8, <1>10, <1>11, <1>12 DEF ServerTyped

(* Taking and finishing a revision move the slots and the status of rows   *)
(* only.                                                                   *)
LEMMA ServerStepTyped ==
    ASSUME TypeInv, NEW s \in SessionIds, TakeSession(s) \/ \E out \in {"succeeded", "failed"} : FinishSession(s, out)
    PROVE  /\ ServerTyped /\ JobsKept
           /\ \A t \in SessionIds : /\ sessions'[t].status = sessions[t].status /\ sessions'[t].key = sessions[t].key
                                    /\ sessions'[t].revision = sessions[t].revision /\ sessions'[t].latest = sessions[t].latest
                                    /\ sessions'[t].receipts = sessions[t].receipts
<1>1. \A j \in DOMAIN jobs : jobs[j] \in Row
  BY DEF TypeInv
<1>2. Len(jobs) \in Nat /\ DOMAIN jobs = 1 .. Len(jobs)
  BY DEF TypeInv
<1>3. sessions[s] \in SessionRecord /\ sessions[s].pending <= Len(jobs) /\ sessions[s].running <= Len(jobs)
      /\ sessions[s].lastOk <= Len(jobs) /\ sessions[s].latest <= Len(jobs)
  BY DEF TypeInv, References
<1>4. PICK x, st : st \in {"running", "succeeded", "failed"} /\ jobs' = [jobs EXCEPT ![x].status = st]
  BY DEF TakeSession, FinishSession
<1>5. /\ jobs' = [j \in DOMAIN jobs |-> jobs'[j]]
      /\ \A j \in DOMAIN jobs : jobs'[j] = jobs[j] \/ jobs'[j] = [jobs[j] EXCEPT !.status = st]
  BY <1>4
<1>6. \A j \in DOMAIN jobs : jobs'[j] \in Row
  BY <1>1, <1>4, <1>5 DEF Row
<1>7. jobs' \in [1 .. Len(jobs) -> Row]
  BY <1>2, <1>5, <1>6
<1>8. jobs' \in Seq(Row) /\ Len(jobs') = Len(jobs)
  BY <1>2, <1>7, FunctionIsSeq
<1>9. JobsKept
  BY <1>1, <1>5 DEF JobsKept, Row
<1>10. PICK S \in SessionRecord :
             /\ sessions' = [sessions EXCEPT ![s] = S]
             /\ S.status = sessions[s].status /\ S.key = sessions[s].key /\ S.revision = sessions[s].revision
             /\ S.latest = sessions[s].latest /\ S.receipts = sessions[s].receipts
             /\ {S.pending, S.running, S.lastOk} \subseteq {0, sessions[s].pending, sessions[s].running, sessions[s].lastOk}
  <2>1. CASE TakeSession(s)
    <3> DEFINE S == [sessions[s] EXCEPT !.running = sessions[s].pending, !.pending = None]
    <3>1. sessions' = [sessions EXCEPT ![s] = S]
      BY <2>1 DEF TakeSession
    <3>2. S \in SessionRecord
      BY <1>3 DEF SessionRecord, None
    <3>3. /\ S.status = sessions[s].status /\ S.key = sessions[s].key /\ S.revision = sessions[s].revision
          /\ S.latest = sessions[s].latest /\ S.receipts = sessions[s].receipts
          /\ S.pending = 0 /\ S.running = sessions[s].pending /\ S.lastOk = sessions[s].lastOk
      BY <1>3 DEF SessionRecord, None
    <3> HIDE DEF S
    <3>4. WITNESS S \in SessionRecord
    <3>5. QED
      BY <3>1, <3>3
  <2>2. ASSUME NEW out \in {"succeeded", "failed"}, FinishSession(s, out)
        PROVE  \E S \in SessionRecord :
             /\ sessions' = [sessions EXCEPT ![s] = S]
             /\ S.status = sessions[s].status /\ S.key = sessions[s].key /\ S.revision = sessions[s].revision
             /\ S.latest = sessions[s].latest /\ S.receipts = sessions[s].receipts
             /\ {S.pending, S.running, S.lastOk} \subseteq {0, sessions[s].pending, sessions[s].running, sessions[s].lastOk}
    <3> DEFINE S == [sessions[s] EXCEPT !.running = None, !.lastOk = IF out = "succeeded" THEN sessions[s].running ELSE @]
    <3>1. sessions' = [sessions EXCEPT ![s] = S]
      BY <2>2 DEF FinishSession
    <3>2. S \in SessionRecord
      BY <1>3 DEF SessionRecord, None
    <3>3. /\ S.status = sessions[s].status /\ S.key = sessions[s].key /\ S.revision = sessions[s].revision
          /\ S.latest = sessions[s].latest /\ S.receipts = sessions[s].receipts
          /\ S.pending = sessions[s].pending /\ S.running = 0 /\ S.lastOk \in {sessions[s].lastOk, sessions[s].running}
      BY <1>3 DEF SessionRecord, None
    <3> HIDE DEF S
    <3>4. WITNESS S \in SessionRecord
    <3>5. QED
      BY <3>1, <3>3
  <2>3. QED
    BY <2>1, <2>2
<1>11. sessions' \in [SessionIds -> SessionRecord] /\ sessions'[s] = S /\ \A t \in SessionIds \ {s} : sessions'[t] = sessions[t]
  BY <1>10 DEF TypeInv
<1>12. References' /\ ReceiptsBounded'
  <2>1. S.pending <= Len(jobs) /\ S.running <= Len(jobs) /\ S.lastOk <= Len(jobs)
    BY <1>2, <1>3, <1>10
  <2>2. QED
    BY <1>3, <1>8, <1>10, <1>11, <2>1 DEF TypeInv, References, ReceiptsBounded
<1>13. QED
  BY <1>2, <1>8, <1>9, <1>10, <1>11, <1>12 DEF ServerTyped

(* The receipt of the newest revision is kept, the oldest is dropped. *)
ReceiptKept(T, z, q, e) ==
    /\ z \in Seq(T) /\ Len(z) <= MaxSessionReceipts
    /\ \E i \in DOMAIN z : z[i] = e
    /\ \A i \in DOMAIN z : z[i] = e \/ \E k \in DOMAIN q : z[i] = q[k]
(* The newest receipt is kept, older ones may be dropped. *)
LEMMA ReceiptFacts ==
    ASSUME NEW T, NEW q \in Seq(T), Len(q) <= MaxSessionReceipts, NEW e \in T
    PROVE  ReceiptKept(T, KeepReceipts(Append(q, e)), q, e)
<1> DEFINE a == Append(q, e)
           z == KeepReceipts(a)
           n == Len(q)
<1>1. /\ n \in Nat /\ DOMAIN q = 1 .. n /\ a \in Seq(T) /\ a # <<>> /\ Len(a) = n + 1
      /\ \A i \in 1 .. n : a[i] = q[i]
      /\ a[n + 1] = e
  BY AppendProperties
<1>2. MaxSessionReceipts \in Nat \ {0} /\ n <= MaxSessionReceipts
  BY RealtimeClientAssumption
<1> HIDE DEF a, n
<1>3. CASE n + 1 > MaxSessionReceipts
  <2>1. z = Tail(a)
    BY <1>1, <1>3 DEF KeepReceipts
  <2>2. z \in Seq(T) /\ Len(z) = n /\ \A i \in 1 .. n : z[i] = a[i + 1]
    <3>1. Tail(a) \in Seq(T) /\ Len(Tail(a)) = Len(a) - 1 /\ \A i \in 1 .. Len(Tail(a)) : Tail(a)[i] = a[i + 1]
      BY <1>1, HeadTailProperties
    <3>2. QED
      BY <1>1, <2>1, <3>1
  <2> HIDE DEF z
  <2>3. n # 0 /\ DOMAIN z = 1 .. n
    BY <1>1, <1>2, <1>3, <2>2
  <2>4. z[n] = e /\ n \in DOMAIN z
    BY <1>1, <2>2, <2>3
  <2>5. \A i \in DOMAIN z : z[i] = e \/ \E k \in DOMAIN q : z[i] = q[k]
    <3>1. SUFFICES ASSUME NEW i \in 1 .. n PROVE z[i] = e \/ \E k \in DOMAIN q : z[i] = q[k]
      BY <2>3
    <3>2. CASE i = n
      BY <2>4, <3>2
    <3>3. CASE i # n
      <4>1. i + 1 \in 1 .. n
        BY <1>1, <3>3
      <4>2. z[i] = q[i + 1]
        BY <1>1, <2>2, <4>1
      <4>3. QED
        BY <1>1, <4>1, <4>2
    <3>4. QED
      BY <3>2, <3>3
  <2>6. QED
    BY <1>2, <2>2, <2>4, <2>5 DEF z, a, ReceiptKept
<1>4. CASE ~(n + 1 > MaxSessionReceipts)
  <2>1. z = a /\ n + 1 <= MaxSessionReceipts
    BY <1>1, <1>2, <1>4 DEF KeepReceipts
  <2>2. DOMAIN a = 1 .. n + 1 /\ n + 1 \in DOMAIN a
    BY <1>1
  <2>3. \A i \in DOMAIN a : a[i] = e \/ \E k \in DOMAIN q : a[i] = q[k]
    <3>1. SUFFICES ASSUME NEW i \in 1 .. n + 1 PROVE a[i] = e \/ \E k \in DOMAIN q : a[i] = q[k]
      BY <2>2
    <3>2. i \in 1 .. n \/ i = n + 1
      BY <1>1
    <3>3. QED
      BY <1>1, <3>2
  <2> HIDE DEF z
  <2>4. QED
    BY <1>1, <2>1, <2>2, <2>3 DEF z, a, ReceiptKept
<1>5. QED
  BY <1>3, <1>4

(* What the server is like after it accepted revision r. *)
Accepts(r) ==
    LET s == r.session
        J == Len(jobs) + 1
        new == [key |-> r.key, job |-> J]
    IN  /\ jobs' \in Seq(Row) /\ Len(jobs') = J
        /\ \A j \in 1 .. Len(jobs) : /\ jobs'[j].session = jobs[j].session /\ jobs'[j].revision = jobs[j].revision
                                     /\ jobs'[j].key = jobs[j].key /\ jobs'[j].files = jobs[j].files
        /\ jobs'[J].session = s /\ jobs'[J].revision = sessions[s].revision + 1
        /\ jobs'[J].key = r.key /\ jobs'[J].files = r.files
        /\ sessions' \in [SessionIds -> SessionRecord] /\ \A t \in SessionIds \ {s} : sessions'[t] = sessions[t]
        /\ sessions'[s].status = "live" /\ sessions'[s].key = sessions[s].key
        /\ sessions'[s].revision = sessions[s].revision + 1 /\ sessions'[s].latest = J
        /\ \E i \in DOMAIN sessions'[s].receipts : sessions'[s].receipts[i] = new
        /\ \A i \in DOMAIN sessions'[s].receipts :
              \/ sessions'[s].receipts[i] = new
              \/ \E k \in DOMAIN sessions[s].receipts : sessions'[s].receipts[i] = sessions[s].receipts[k]

(* An accepted revision: its base is current and it had no receipt. *)
LEMMA AcceptFacts ==
    ASSUME TypeInv, NEW r \in Revision, HandleRevision(r), Verdict(r) = "accept"
    PROVE  /\ Accepts(r) /\ ServerTyped
           /\ Live(r.session) /\ r.base = sessions[r.session].revision /\ Receipt(r) = {}
<1> DEFINE s == r.session
           n == Len(jobs)
           J == n + 1
           sup == Superseded(s)
           row == [session |-> s, revision |-> sessions[s].revision + 1, key |-> r.key, files |-> r.files,
                   status |-> "queued"]
           new == [key |-> r.key, job |-> J]
           T == [key: Keys, job: Nat]
           kept == KeepReceipts(Append(sessions[s].receipts, new))
           S == [sessions[s] EXCEPT !.revision = @ + 1, !.pending = J, !.latest = J, !.receipts = kept]
<1>1. Live(s) /\ r.base = sessions[s].revision /\ Receipt(r) = {}
  BY DEF Verdict, BaseMatches
<1>2. s \in SessionIds /\ r.key \in Keys /\ r.files \in Files /\ n \in Nat /\ DOMAIN jobs = 1 .. n
  BY Constants DEF TypeInv
<1>3. sessions[s] \in SessionRecord /\ sessions[s].status = "live"
  BY <1>1, <1>2 DEF TypeInv, Live
<1>4. /\ jobs' = Append(sup, row)
      /\ sessions' = [sessions EXCEPT ![s] = S]
  BY DEF HandleRevision
<1>5. sup \in Seq(Row) /\ Len(sup) = n
  <2>1. \A j \in 1 .. n : jobs[j] \in Row
    BY <1>2 DEF TypeInv
  <2>2. sup \in [1 .. n -> Row]
    BY <1>2, <2>1 DEF Superseded, Row
  <2> HIDE DEF sup
  <2>3. QED
    BY <1>2, <2>2, FunctionIsSeq
<1>6. row \in Row
  BY <1>2, <1>3 DEF Row, SessionRecord
<1>7. \A j \in 1 .. n : /\ sup[j].session = jobs[j].session /\ sup[j].revision = jobs[j].revision
                        /\ sup[j].key = jobs[j].key /\ sup[j].files = jobs[j].files
  <2>1. \A j \in 1 .. n : jobs[j] \in Row
    BY <1>2 DEF TypeInv
  <2>2. QED
    BY <1>2, <2>1 DEF Superseded, Row
<1>8. row.session = s /\ row.revision = sessions[s].revision + 1 /\ row.key = r.key /\ row.files = r.files
  OBVIOUS
<1> HIDE DEF sup, row
<1>9. /\ jobs' \in Seq(Row) /\ Len(jobs') = J /\ jobs'[J] = row
      /\ \A j \in 1 .. n : jobs'[j] = sup[j]
  BY <1>4, <1>5, <1>6, AppendProperties
<1>10. /\ kept \in Seq(T) /\ Len(kept) <= MaxSessionReceipts
       /\ \E i \in DOMAIN kept : kept[i] = new
       /\ \A i \in DOMAIN kept : kept[i] = new \/ \E k \in DOMAIN sessions[s].receipts : kept[i] = sessions[s].receipts[k]
  <2>1. sessions[s].receipts \in Seq(T) /\ Len(sessions[s].receipts) <= MaxSessionReceipts
    BY <1>2, <1>3 DEF SessionRecord, TypeInv, ReceiptsBounded
  <2>2. new \in T
    BY <1>2
  <2> DEFINE q == sessions[s].receipts
  <2>3. q \in Seq(T) /\ Len(q) <= MaxSessionReceipts
    BY <2>1
  <2> HIDE DEF T, new, q
  <2>4. ReceiptKept(T, KeepReceipts(Append(q, new)), q, new)
    BY <2>2, <2>3, ReceiptFacts
  <2>5. kept = KeepReceipts(Append(q, new)) /\ q = sessions[s].receipts
    BY DEF q
  <2> HIDE DEF kept
  <2>6. QED
    BY <2>4, <2>5 DEF ReceiptKept
<1> HIDE DEF kept
<1>11. S \in SessionRecord
  <2> DEFINE R == Seq(T)
  <2>1. SessionRecord = [status: {"none", "live", "gone"}, key: Nat, revision: Nat, pending: Nat, running: Nat,
                         lastOk: Nat, latest: Nat, receipts: R]
    BY DEF SessionRecord
  <2>2. kept \in R
    BY <1>10
  <2>3. J \in Nat
    BY <1>2
  <2> DEFINE Q == sessions[s]
  <2>4. Q \in SessionRecord
    BY <1>3
  <2> HIDE DEF R, J, Q
  <2>7. Q.revision + 1 \in Nat
    BY <2>1, <2>4
  <2>8. \A a \in Nat, b \in Nat, c \in R : [Q EXCEPT !.revision = a, !.pending = b, !.latest = b, !.receipts = c] \in SessionRecord
    BY <2>1, <2>4
  <2>5. [Q EXCEPT !.revision = Q.revision + 1, !.pending = J, !.latest = J, !.receipts = kept] \in SessionRecord
    BY <2>7, <2>8, <2>2, <2>3
  <2>6. QED
    BY <2>5 DEF Q
<1>12. /\ S.status = "live" /\ S.key = sessions[s].key /\ S.revision = sessions[s].revision + 1
       /\ S.latest = J /\ S.pending = J /\ S.running = sessions[s].running /\ S.lastOk = sessions[s].lastOk
       /\ S.receipts = kept
  BY <1>3 DEF SessionRecord
<1> HIDE DEF S
<1>13. /\ sessions' \in [SessionIds -> SessionRecord] /\ sessions'[s] = S
       /\ \A t \in SessionIds \ {s} : sessions'[t] = sessions[t]
  BY <1>2, <1>4, <1>11 DEF TypeInv
<1>14. References'
  <2>1. \A t \in SessionIds : /\ sessions[t] \in SessionRecord
                              /\ sessions[t].pending <= n /\ sessions[t].running <= n
                              /\ sessions[t].lastOk <= n /\ sessions[t].latest <= n
    BY DEF TypeInv, References
  <2>2. \A x \in Nat : x <= n => x <= J
    BY <1>2
  <2>3. \A t \in SessionIds : /\ sessions[t].pending <= J /\ sessions[t].running <= J
                              /\ sessions[t].lastOk <= J /\ sessions[t].latest <= J
    BY <2>1, <2>2 DEF SessionRecord
  <2>4. J <= J
    BY <1>2
  <2> HIDE DEF J
  <2>5. QED
    BY <1>2, <1>9, <1>12, <1>13, <2>3, <2>4 DEF References
<1>15. ReceiptsBounded'
  BY <1>2, <1>10, <1>12, <1>13 DEF ReceiptsBounded, TypeInv
<1>16. ServerTyped
  BY <1>2, <1>9, <1>13, <1>14, <1>15 DEF ServerTyped
<1>17. Accepts(r)
  BY <1>7, <1>8, <1>9, <1>10, <1>12, <1>13 DEF Accepts
<1>18. QED
  BY <1>1, <1>16, <1>17

(* Any other verdict leaves the server alone. *)
LEMMA RevisionTyped ==
    ASSUME TypeInv, NEW r \in Revision, HandleRevision(r)
    PROVE  /\ ServerTyped
           /\ \/ Verdict(r) = "accept" /\ Accepts(r)
              \/ Verdict(r) # "accept" /\ UNCHANGED serverVars
<1>1. CASE Verdict(r) = "accept"
  BY <1>1, AcceptFacts
<1>2. CASE Verdict(r) # "accept"
  BY <1>2, StillTyped DEF HandleRevision
<1>3. QED
  BY <1>1, <1>2

-----------------------------------------------------------------------------
(* The client's steps. *)

(* Work inside the session that neither opens nor ends a submission. *)
Alike(c, d) ==
    /\ d \in Client /\ d.session = c.session /\ d.creation = c.creation /\ d.revisions = c.revisions
    /\ d.run.pending = c.run.pending /\ d.run.last = c.run.last /\ d.run.extra = c.run.extra
Within(c) == c.pc \notin {"create", "close", "done"}
Works(c, d) == Alike(c, d) /\ Within(c) /\ Within(d) /\ Places(d) /\ Refers(d)

(* StartSubmit goes where the open revision says. *)
LEMMA StartSubmitFacts ==
    ASSUME NEW c \in Client, Within(c), Places(c), Refers(c)
    PROVE  Works(c, StartSubmit(c))
<1> DEFINE L == c.run
           M == [L EXCEPT !.resume = L.pending # NoRevision]
           p == IF L.pending = NoRevision THEN "freeze" ELSE "commit"
           d == [c EXCEPT !.pc = p, !.run = M]
<1>1. L \in Locals /\ p \in ClientPC
  BY DEF Client, ClientPC
<1>2. StartSubmit(c) = d
  BY DEF StartSubmit, Client
<1>3. M \in Locals
  BY <1>1 DEF Locals
<1>4. /\ M.pending = L.pending /\ M.last = L.last /\ M.extra = L.extra
      /\ M.lastOk = L.lastOk /\ M.latest = L.latest
  BY <1>1 DEF Locals
<1> HIDE DEF M
<1>5. d \in Client /\ d.run = M /\ d.session = c.session /\ d.creation = c.creation /\ d.revisions = c.revisions /\ d.pc = p
  BY <1>1, <1>3 DEF Client
<1> HIDE DEF d, L
<1>6. L = c.run
  BY DEF L
<1>7. QED
  BY <1>2, <1>4, <1>5, <1>6 DEF Works, Alike, Within, Places, Refers

(* One step of work after another is work. *)
LEMMA WorksOn ==
    ASSUME NEW b, NEW c, NEW d, Works(b, c), Works(c, d)
    PROVE  Works(b, d)
BY DEF Works, Alike

(* Other locals that agree on the submission, at another place. *)
LEMMA Worked ==
    ASSUME NEW c \in Client, Within(c), Places(c), NEW p \in ClientPC \ {"create", "close", "done"}, NEW M \in Locals,
           M.pending = c.run.pending, M.last = c.run.last, M.extra = c.run.extra,
           M.lastOk <= Len(jobs), M.latest <= Len(jobs),
           p \in {"freeze", "prepare"} => M.pending = NoRevision,
           p = "prepare" => M.frozen \in Files /\ M.frozen # M.last /\ M.frozen[2] = M.extra,
           p = "commit" => M.pending # NoRevision
    PROVE  Works(c, [c EXCEPT !.pc = p, !.run = M])
<1> DEFINE d == [c EXCEPT !.pc = p, !.run = M]
<1>1. d \in Client /\ d.run = M /\ d.session = c.session /\ d.creation = c.creation /\ d.revisions = c.revisions /\ d.pc = p
  BY DEF Client
<1> HIDE DEF d
<1>2. Works(c, d)
  BY <1>1 DEF Works, Alike, Within, Places, Refers
<1>3. QED
  BY <1>2 DEF d

(* AfterReport forgets what was read and may go on to submit. *)
LEMMA AfterReportFacts ==
    ASSUME NEW c \in Client, Within(c), Places(c), Refers(c), Len(jobs) \in Nat
    PROVE  Works(c, AfterReport(c))
<1> DEFINE L == c.run
           M == [L EXCEPT !.thenSubmit = FALSE, !.lastOk = None, !.latest = None]
           d == [c EXCEPT !.pc = "loop", !.run = M]
<1>1. L \in Locals /\ "loop" \in ClientPC
  BY DEF Client, ClientPC
<1>2. AfterReport(c) = IF c.run.thenSubmit /\ c.run.dirty THEN StartSubmit(d) ELSE d
  BY DEF AfterReport, Client
<1>3. M \in Locals
  BY <1>1 DEF Locals, None
<1>4. /\ M.pending = L.pending /\ M.last = L.last /\ M.extra = L.extra
      /\ M.lastOk = 0 /\ M.latest = 0
  BY <1>1 DEF Locals, None
<1> HIDE DEF M
<1>5. d \in Client /\ d.run = M /\ d.session = c.session /\ d.creation = c.creation /\ d.revisions = c.revisions /\ d.pc = "loop"
  BY <1>1, <1>3 DEF Client
<1> HIDE DEF d, L
<1>6. L = c.run
  BY DEF L
<1>7. Works(c, d)
  BY <1>4, <1>5, <1>6 DEF Works, Alike, Within, Places, Refers
<1>8. Works(d, StartSubmit(d))
  BY <1>5, <1>7, StartSubmitFacts DEF Works
<1>9. QED
  BY <1>2, <1>7, <1>8, WorksOn

(* The session's own goroutine at work: no submission begins or ends. *)
LEMMA QuietSteps ==
    ASSUME TypeInv,
           \/ SubmitOnChange \/ SubmitOnTrigger \/ SubmitOnVerify \/ Freeze \/ CaptureFailed \/ CommitFailed
           \/ \E poll \in BOOLEAN : Report(poll)
           \/ ReportFailed \/ Publish \/ PublishHalfway \/ Diagnose
    PROVE  Works(client, client')
<1> DEFINE L == client.run
<1>1. client \in Client /\ Places(client) /\ Refers(client) /\ L \in Locals /\ Len(jobs) \in Nat
  BY DEF TypeInv, ClientReferences, Client
<1>2. Within(client)
  BY DEF SubmitOnChange, SubmitOnTrigger, SubmitOnVerify, Freeze, CaptureFailed, CommitFailed, Report,
         ReportFailed, Publish, PublishHalfway, Diagnose, Within
<1>3. L.lastOk <= Len(jobs) /\ L.latest <= Len(jobs)
  BY <1>1 DEF Refers
<1>4. \A M \in Locals : [client EXCEPT !.run = M] = [client EXCEPT !.pc = client.pc, !.run = M]
  BY <1>1 DEF Client
<1>5. ASSUME NEW M \in Locals, M.pending = L.pending, M.last = L.last, M.extra = L.extra, M.frozen = L.frozen,
             M.lastOk = L.lastOk, M.latest = L.latest
      PROVE  Works(client, [client EXCEPT !.run = M])
  <2>1. client.pc \in ClientPC \ {"create", "close", "done"}
    BY <1>1, <1>2 DEF Client, Within
  <2>2. /\ client.pc \in {"freeze", "prepare"} => M.pending = NoRevision
        /\ client.pc = "prepare" => M.frozen \in Files /\ M.frozen # M.last /\ M.frozen[2] = M.extra
        /\ client.pc = "commit" => M.pending # NoRevision
    BY <1>1, <1>5 DEF Places
  <2>3. Works(client, [client EXCEPT !.pc = client.pc, !.run = M])
    BY <1>1, <1>2, <1>3, <1>5, <2>1, <2>2, Worked
  <2>4. QED
    BY <1>4, <2>3
<1>6. ASSUME SubmitOnChange PROVE Works(client, client')
  <2> DEFINE M == [L EXCEPT !.rounds = 0]
             c == [client EXCEPT !.run = M]
  <2>1. /\ M \in Locals /\ M.pending = L.pending /\ M.last = L.last /\ M.extra = L.extra /\ M.frozen = L.frozen
        /\ M.lastOk = L.lastOk /\ M.latest = L.latest
    BY <1>1 DEF Locals
  <2>2. client' = StartSubmit(c)
    BY <1>1, <1>6 DEF SubmitOnChange, Client
  <2> HIDE DEF M
  <2>3. Works(client, c)
    BY <1>5, <2>1
  <2> HIDE DEF c
  <2>4. QED
    BY <2>2, <2>3, StartSubmitFacts, WorksOn DEF Works, Alike
<1>7. ASSUME SubmitOnTrigger PROVE Works(client, client')
  <2> DEFINE M == [L EXCEPT !.trigger = FALSE]
             c == [client EXCEPT !.run = M]
  <2>1. /\ M \in Locals /\ M.pending = L.pending /\ M.last = L.last /\ M.extra = L.extra /\ M.frozen = L.frozen
        /\ M.lastOk = L.lastOk /\ M.latest = L.latest
    BY <1>1 DEF Locals
  <2>2. client' = StartSubmit(c)
    BY <1>1, <1>7 DEF SubmitOnTrigger, Client
  <2> HIDE DEF M
  <2>3. Works(client, c)
    BY <1>5, <2>1
  <2> HIDE DEF c
  <2>4. QED
    BY <2>2, <2>3, StartSubmitFacts, WorksOn DEF Works, Alike
<1>8. ASSUME SubmitOnVerify PROVE Works(client, client')
  BY <1>1, <1>2, <1>8, StartSubmitFacts DEF SubmitOnVerify
<1>9. ASSUME Freeze PROVE Works(client, client')
  <2>1. Selected \in Files /\ Selected[2] = L.extra
    BY <1>1 DEF Selected, Run, TypeInv, Files, Locals
  <2>2. CASE L.last = Selected
    <3> DEFINE M == [L EXCEPT !.dirty = FALSE]
    <3>1. /\ M \in Locals /\ M.pending = L.pending /\ M.last = L.last /\ M.extra = L.extra
          /\ M.lastOk = L.lastOk /\ M.latest = L.latest
      BY <1>1 DEF Locals
    <3>2. client' = [client EXCEPT !.pc = "loop", !.run = M]
      BY <1>1, <1>9, <2>2 DEF Freeze, Client, Run
    <3> HIDE DEF M
    <3>3. QED
      BY <1>1, <1>2, <1>3, <3>1, <3>2, Worked DEF ClientPC
  <2>3. CASE L.last # Selected
    <3> DEFINE M == [L EXCEPT !.dirty = TRUE, !.frozen = Selected]
    <3>1. /\ M \in Locals /\ M.pending = L.pending /\ M.last = L.last /\ M.extra = L.extra /\ M.frozen = Selected
          /\ M.lastOk = L.lastOk /\ M.latest = L.latest
      BY <1>1, <2>1 DEF Locals
    <3>2. client' = [client EXCEPT !.pc = "prepare", !.run = M] /\ L.pending = NoRevision
      BY <1>1, <1>9, <2>3 DEF Freeze, Client, Run, Places
    <3> HIDE DEF M
    <3>3. QED
      BY <1>1, <1>2, <1>3, <2>1, <2>3, <3>1, <3>2, Worked DEF ClientPC
  <2>4. QED
    BY <2>2, <2>3
<1>10. ASSUME CaptureFailed PROVE Works(client, client')
  <2> DEFINE M == [L EXCEPT !.dirty = TRUE, !.frozen = NoFiles]
  <2>1. /\ M \in Locals /\ M.pending = L.pending /\ M.last = L.last /\ M.extra = L.extra
        /\ M.lastOk = L.lastOk /\ M.latest = L.latest
    BY <1>1 DEF Locals
  <2>2. client' = [client EXCEPT !.pc = "loop", !.run = M]
    BY <1>1, <1>10 DEF CaptureFailed, Client
  <2> HIDE DEF M
  <2>3. QED
    BY <1>1, <1>2, <1>3, <2>1, <2>2, Worked DEF ClientPC
<1>11. ASSUME CommitFailed PROVE Works(client, client')
  <2> DEFINE M == [L EXCEPT !.resume = FALSE]
  <2>1. /\ M \in Locals /\ M.pending = L.pending /\ M.last = L.last /\ M.extra = L.extra
        /\ M.lastOk = L.lastOk /\ M.latest = L.latest
    BY <1>1 DEF Locals
  <2>2. client' = [client EXCEPT !.pc = "loop", !.run = M]
    BY <1>1, <1>11 DEF CommitFailed, AfterCommitError, Client
  <2> HIDE DEF M
  <2>3. QED
    BY <1>1, <1>2, <1>3, <2>1, <2>2, Worked DEF ClientPC
<1>12. ASSUME NEW poll \in BOOLEAN, Report(poll) PROVE Works(client, client')
  <2> DEFINE S == sessions[client.session]
             M == [L EXCEPT !.thenSubmit = poll, !.lastOk = S.lastOk, !.latest = S.latest]
  <2>1. client.session \in SessionIds
    BY <1>1, <1>12 DEF Report, Places
  <2>2. S.lastOk \in Nat /\ S.latest \in Nat /\ S.lastOk <= Len(jobs) /\ S.latest <= Len(jobs)
    BY <2>1 DEF TypeInv, References, SessionRecord
  <2>3. /\ M \in Locals /\ M.pending = L.pending /\ M.last = L.last /\ M.extra = L.extra
        /\ M.lastOk = S.lastOk /\ M.latest = S.latest
    BY <1>1, <2>2 DEF Locals
  <2>4. client' = [client EXCEPT !.pc = "publish", !.run = M]
    BY <1>1, <1>12 DEF Report, Client
  <2> HIDE DEF M, S
  <2>5. QED
    BY <1>1, <1>2, <2>2, <2>3, <2>4, Worked DEF ClientPC
<1>13. ASSUME NEW c, Works(client, c), client' = AfterReport(c) PROVE Works(client, client')
  BY <1>1, <1>13, AfterReportFacts, WorksOn DEF Works, Alike
<1>14. ASSUME ReportFailed PROVE Works(client, client')
  <2>1. PICK poll \in BOOLEAN : client' = AfterReport([client EXCEPT !.run.thenSubmit = poll])
    BY <1>1, <1>14 DEF ReportFailed, Locals, Run
  <2> DEFINE M == [L EXCEPT !.thenSubmit = poll]
             c == [client EXCEPT !.run = M]
  <2>2. /\ M \in Locals /\ M.pending = L.pending /\ M.last = L.last /\ M.extra = L.extra /\ M.frozen = L.frozen
        /\ M.lastOk = L.lastOk /\ M.latest = L.latest
    BY <1>1 DEF Locals
  <2>3. client' = AfterReport(c)
    BY <1>1, <2>1 DEF Client
  <2> HIDE DEF M
  <2>4. Works(client, c)
    BY <1>5, <2>2
  <2> HIDE DEF c
  <2>5. QED
    BY <1>13, <2>3, <2>4
<1>15. Works(client, client)
  BY <1>1, <1>2 DEF Works, Alike
<1>16. ASSUME Publish PROVE Works(client, client')
  <2>1. CASE client' = [client EXCEPT !.pc = "diagnose"]
    <3>1. client' = [client EXCEPT !.pc = "diagnose", !.run = L]
      BY <1>1, <2>1 DEF Client
    <3>2. QED
      BY <1>1, <1>2, <1>3, <3>1, Worked DEF ClientPC
  <2>2. CASE client' = Shown /\ Unshown
    <3> DEFINE v == jobs[Run.lastOk].revision
               M == [L EXCEPT !.displayed = v, !.shown = L.lastOk]
    <3>1. L.lastOk \in Nat /\ L.lastOk # 0
      BY <1>1, <2>2 DEF Unshown, Run, None, Locals
    <3>2. v \in Nat
      <4>1. L.lastOk \in DOMAIN jobs /\ jobs \in Seq(Row)
        BY <1>1, <1>3, <3>1 DEF TypeInv
      <4>2. jobs[L.lastOk] \in Row
        BY <4>1
      <4>3. QED
        BY <4>2 DEF Row, Run
    <3> HIDE DEF v
    <3>3. /\ M \in Locals /\ M.pending = L.pending /\ M.last = L.last /\ M.extra = L.extra
          /\ M.lastOk = L.lastOk /\ M.latest = L.latest
      BY <1>1, <3>1, <3>2 DEF Locals
    <3>4. client' = [client EXCEPT !.pc = "diagnose", !.run = M]
      BY <1>1, <2>2 DEF Shown, Client, v, Run
    <3> HIDE DEF M
    <3>5. QED
      BY <1>1, <1>2, <1>3, <3>3, <3>4, Worked DEF ClientPC
  <2>3. CASE client' = AfterReport(client)
    BY <1>13, <1>15, <2>3
  <2>4. QED
    BY <1>16, <2>1, <2>2, <2>3 DEF Publish
<1>17. ASSUME PublishHalfway PROVE Works(client, client')
  BY <1>13, <1>15, <1>17 DEF PublishHalfway
<1>18. ASSUME Diagnose PROVE Works(client, client')
  <2>1. CASE client' = AfterReport(client)
    BY <1>13, <1>15, <2>1
  <2>2. CASE client' = AfterReport([client EXCEPT !.run.diagnosed = Run.latest])
    <3> DEFINE M == [L EXCEPT !.diagnosed = L.latest]
               c == [client EXCEPT !.run = M]
    <3>1. /\ M \in Locals /\ M.pending = L.pending /\ M.last = L.last /\ M.extra = L.extra /\ M.frozen = L.frozen
          /\ M.lastOk = L.lastOk /\ M.latest = L.latest
      BY <1>1 DEF Locals
    <3>2. client' = AfterReport(c)
      BY <1>1, <2>2 DEF Client, Run
    <3> HIDE DEF M
    <3>3. Works(client, c)
      BY <1>5, <3>1
    <3> HIDE DEF c
    <3>4. QED
      BY <1>13, <3>2, <3>3
  <2>3. QED
    BY <1>18, <2>1, <2>2 DEF Diagnose
<1>19. QED
  BY <1>6, <1>7, <1>8, <1>9, <1>10, <1>11, <1>12, <1>14, <1>16, <1>17, <1>18

(* runLiveSession returns. *)
Leaves ==
    /\ client' \in Client /\ client.pc \notin {"create", "done"} /\ client'.pc = "close"
    /\ client'.session = client.session /\ client'.creation = client.creation
    /\ client'.revisions = client.revisions /\ Run' = FreshLocals
(* An interrupt before there is a session. *)
Ends ==
    /\ client' \in Client /\ client.pc = "create" /\ client'.pc = "done"
    /\ client'.session = client.session /\ client'.creation = client.creation
    /\ client'.revisions = client.revisions /\ Run' = FreshLocals
(* CloseSession returned. *)
Closes ==
    /\ client' \in Client /\ client.pc = "close" /\ client'.revisions = client.revisions /\ Run' = FreshLocals
    /\ \/ client'.pc = "done" /\ client'.creation = client.creation
       \/ client'.pc = "create" /\ client'.creation = client.creation + 1
(* CreateSession returned session s. *)
Enters(s) ==
    /\ client' \in Client /\ client.pc = "create" /\ client'.pc = "loop"
    /\ client'.session = s /\ client'.creation = client.creation
    /\ client'.revisions = client.revisions /\ Run' = FreshLocals
(* A revision with a new key is open. *)
Prepares ==
    /\ client' \in Client /\ client.pc = "prepare" /\ client'.pc = "commit"
    /\ client'.session = client.session /\ client'.creation = client.creation
    /\ client'.revisions = client.revisions + 1 /\ Run'.last = Run.last /\ Run'.extra = Run.extra
    /\ Run'.pending = [session |-> client.session, base |-> sessions[client.session].revision,
                       key |-> client.revisions + 1, files |-> Run.frozen]
    /\ Run'.pending \in Revision /\ Run.frozen \in Files
    /\ Run'.lastOk = Run.lastOk /\ Run'.latest = Run.latest
(* The open revision was answered. *)
IsAccepted ==
    /\ client' \in Client /\ client.pc = "commit" /\ client'.pc \in {"freeze", "loop"}
    /\ client'.session = client.session /\ client'.creation = client.creation
    /\ client'.revisions = client.revisions /\ Run'.last = Run.pending.files /\ Run'.extra = Run.extra
    /\ Run'.pending = NoRevision /\ Run'.lastOk = Run.lastOk /\ Run'.latest = Run.latest
(* Missing files were resolved. *)
Recovers ==
    /\ client' \in Client /\ Within(client) /\ Within(client')
    /\ client'.session = client.session /\ client'.creation = client.creation
    /\ client'.revisions = client.revisions /\ Run'.last = NoFiles /\ Run'.extra = Run.extra + 1
    /\ Run'.pending = Run.pending

(* The locals of a new session run. *)
LEMMA FreshTyped == FreshLocals \in Locals /\ FreshLocals.pending = NoRevision /\ FreshLocals.last = NoFiles
                    /\ FreshLocals.lastOk = 0 /\ FreshLocals.latest = 0
BY DEF FreshLocals, Locals, None

(* Leaving a session run, and stopping. *)
LEMMA LeaveFacts ==
    ASSUME TypeInv
    PROVE  /\ client' = Leave /\ client.pc \notin {"create", "done"} => Leaves
           /\ Stop => Leaves \/ Ends
<1>1. client \in Client /\ Places(client)
  BY DEF TypeInv
<1>2. ASSUME client' = Leave, client.pc \notin {"create", "done"} PROVE Leaves
  BY <1>1, <1>2, FreshTyped DEF Leave, Leaves, Client, ClientPC, Run
<1>3. ASSUME Stop PROVE Leaves \/ Ends
  <2>1. CASE client.pc = "create"
    <3>1. client' = [client EXCEPT !.pc = "done", !.stop = TRUE] /\ client.run = FreshLocals
      BY <1>1, <1>3, <2>1 DEF Stop, Places
    <3>2. QED
      BY <1>1, <2>1, <3>1 DEF Ends, Client, ClientPC, Run
  <2>2. CASE client.pc # "create"
    <3>1. client' = [client EXCEPT !.pc = "close", !.run = FreshLocals, !.stop = TRUE] /\ client.pc # "done"
      BY <1>1, <1>3, <2>2 DEF Stop, Leave
    <3>2. QED
      BY <1>1, <2>2, <3>1, FreshTyped DEF Leaves, Client, ClientPC, Run
  <2>3. QED
    BY <2>1, <2>2
<1>4. QED
  BY <1>2, <1>3

(* The answer to the close request. *)
LEMMA CloseFacts ==
    ASSUME TypeInv, CloseAnswered \/ CloseFailed
    PROVE  Closes
<1>1. client \in Client /\ Places(client) /\ client.pc = "close" /\ client' = AfterClose
  BY DEF TypeInv, CloseAnswered, CloseFailed
<1>2. client.run = FreshLocals
  BY <1>1 DEF Places
<1>3. CASE client.stop
  <2>1. client' = [client EXCEPT !.pc = "done", !.session = None]
    BY <1>1, <1>3 DEF AfterClose
  <2>2. QED
    BY <1>1, <1>2, <2>1 DEF Closes, Client, ClientPC, Run
<1>4. CASE ~client.stop
  <2>1. client' = [client EXCEPT !.pc = "create", !.session = None, !.creation = client.creation + 1]
    BY <1>1, <1>4 DEF AfterClose
  <2>2. client.creation + 1 \in 1 .. MaxCreations
    <3>1. client.creation \in 1 .. MaxCreations /\ client.creation < MaxCreations
      BY <1>1, <1>4 DEF CloseAnswered, CloseFailed, Client
    <3>2. QED
      BY <3>1, RealtimeClientAssumption
  <2>3. QED
    BY <1>1, <1>2, <2>1, <2>2 DEF Closes, Client, ClientPC, Run
<1>5. QED
  BY <1>3, <1>4

(* Entering a created session. *)
LEMMA EnterFacts ==
    ASSUME TypeInv, NEW s \in SessionIds, CreateAnswered(s)
    PROVE  Enters(s)
<1>1. client \in Client /\ client.run = FreshLocals /\ client' = [client EXCEPT !.pc = "loop", !.session = s]
  BY DEF TypeInv, CreateAnswered, Places
<1>2. QED
  BY <1>1 DEF Enters, CreateAnswered, Client, ClientPC, Run

(* Preparing a revision from the frozen capture. *)
LEMMA PrepareFacts ==
    ASSUME TypeInv, Prepare
    PROVE  Prepares /\ Live(client.session)
<1> DEFINE r == [session |-> client.session, base |-> sessions[client.session].revision,
                 key |-> client.revisions + 1, files |-> Run.frozen]
           L == client.run
           M == [L EXCEPT !.pending = r, !.frozen = NoFiles]
           k == client.revisions + 1
<1>1. client \in Client /\ client.session \in SessionIds /\ Run.frozen \in Files /\ L \in Locals
      /\ client.revisions \in 0 .. MaxRevisions /\ client.revisions < MaxRevisions
  BY DEF TypeInv, Prepare, Places, Client, Run
<1>2. k \in 1 .. MaxRevisions /\ k \in 0 .. MaxRevisions
  BY <1>1, RealtimeClientAssumption
<1>3. r \in Revision
  BY <1>1, <1>2 DEF Revision, Keys, TypeInv, SessionRecord
<1>4. client' = [client EXCEPT !.pc = "commit", !.revisions = k, !.run = M]
  BY <1>1 DEF Prepare, Client
<1> DEFINE R == r
<1>5. R \in Revision
  BY <1>3
<1>6. M = [L EXCEPT !.pending = R, !.frozen = NoFiles]
  OBVIOUS
<1> HIDE DEF R, M, r, k
<1>7. /\ M \in Locals /\ M.pending = R /\ M.last = L.last /\ M.extra = L.extra /\ M.lastOk = L.lastOk
      /\ M.latest = L.latest
  BY <1>1, <1>5, <1>6 DEF Locals
<1>8. /\ client' \in Client /\ client'.pc = "commit" /\ client'.session = client.session
      /\ client'.creation = client.creation /\ client'.revisions = k /\ client'.run = M
  BY <1>1, <1>2, <1>4, <1>7 DEF Client, ClientPC
<1>9. R = r
  BY DEF R
<1>10. QED
  BY <1>1, <1>3, <1>7, <1>8, <1>9 DEF Prepares, Prepare, Run, r, k

(* Taking note of an accepted revision. *)
LEMMA AcceptedFacts ==
    ASSUME TypeInv, client.pc = "commit", client' = Accepted
    PROVE  IsAccepted
<1> DEFINE L == client.run
           M == [L EXCEPT !.last = L.pending.files, !.pending = NoRevision, !.resume = FALSE, !.dirty = L.resume]
           p == IF L.resume THEN "freeze" ELSE "loop"
<1>1. client \in Client /\ L \in Locals /\ L.pending # NoRevision
  BY DEF TypeInv, Places, Client
<1>2. L.pending \in Revision
  BY <1>1 DEF Locals
<1>3. L.pending.files \in Files
  BY <1>2, Constants
<1>4. client' = [client EXCEPT !.pc = p, !.run = M]
  BY <1>1 DEF Accepted, AcceptedFiles, Run, Client
<1>5. /\ M \in Locals /\ M.pending = NoRevision /\ M.last = L.pending.files /\ M.extra = L.extra
      /\ M.lastOk = L.lastOk /\ M.latest = L.latest
  BY <1>1, <1>3 DEF Locals
<1> HIDE DEF M
<1>6. p \in {"freeze", "loop"} /\ p \in ClientPC
  BY DEF ClientPC
<1> HIDE DEF p
<1>7. /\ client' \in Client /\ client'.pc = p /\ client'.session = client.session
      /\ client'.creation = client.creation /\ client'.revisions = client.revisions /\ client'.run = M
  BY <1>1, <1>4, <1>5, <1>6 DEF Client
<1>8. QED
  BY <1>5, <1>6, <1>7 DEF IsAccepted, Run

(* Asking for missing files: the next capture has more of them. *)
LEMMA RecoverFacts ==
    ASSUME TypeInv, Recover
    PROVE  Recovers /\ Places(client') /\ Refers(client')
<1> DEFINE L == client.run
           M == [L EXCEPT !.diagnosed = L.latest, !.extra = L.extra + 1, !.rounds = L.rounds + 1,
                          !.last = NoFiles, !.trigger = TRUE]
           c == [client EXCEPT !.run = M]
<1>1. client \in Client /\ L \in Locals /\ client.pc = "diagnose" /\ Places(client) /\ Refers(client) /\ Len(jobs) \in Nat
  BY DEF TypeInv, Client, Recover, ClientReferences
<1>2. client' = AfterReport(c)
  BY <1>1 DEF Recover, Run, Client
<1>3. /\ M \in Locals /\ M.pending = L.pending /\ M.last = NoFiles /\ M.extra = L.extra + 1
      /\ M.lastOk = L.lastOk /\ M.latest = L.latest /\ L.extra \in Nat
  <2>1. L.extra \in Nat /\ L.rounds \in Nat /\ L.extra + 1 \in Nat /\ L.rounds + 1 \in Nat /\ L.latest \in Nat
    BY <1>1 DEF Locals
  <2> DEFINE e == L.extra + 1
             n == L.rounds + 1
             N == [L EXCEPT !.diagnosed = L.latest, !.trigger = TRUE]
             O == [N EXCEPT !.extra = e, !.rounds = n, !.last = NoFiles]
  <2>2. /\ N \in Locals /\ N.pending = L.pending /\ N.lastOk = L.lastOk /\ N.latest = L.latest
    BY <1>1, <2>1 DEF Locals
  <2>3. M = O
    BY <1>1 DEF Locals
  <2> HIDE DEF N, e, n, M
  <2>4. O \in Locals /\ O.pending = N.pending /\ O.last = NoFiles /\ O.extra = e /\ O.lastOk = N.lastOk /\ O.latest = N.latest
    BY <2>1, <2>2 DEF Locals, e, n
  <2> HIDE DEF O
  <2>5. QED
    BY <2>1, <2>2, <2>3, <2>4 DEF e
<1> HIDE DEF M
<1>4. /\ c \in Client /\ c.pc = "diagnose" /\ c.session = client.session /\ c.creation = client.creation
      /\ c.revisions = client.revisions /\ c.run = M
  BY <1>1, <1>3 DEF Client
<1> HIDE DEF c
<1>5. L.pending # NoRevision => L.pending.files[2] \in Nat
  BY <1>1, Constants DEF Locals
<1>6. Within(c) /\ Places(c) /\ Refers(c)
  BY <1>1, <1>3, <1>4, <1>5 DEF Within, Places, Refers
<1>7. Works(c, client')
  BY <1>1, <1>2, <1>4, <1>6, AfterReportFacts
<1>8. QED
  BY <1>1, <1>3, <1>4, <1>7 DEF Works, Alike, Recovers, Within, Run

-----------------------------------------------------------------------------
(* The requests that may still reach the server. *)

Bodies == {r.body : r \in {q \in late : q.op = "revision"}}
Requests == Bodies \cup ({Run.pending} \ {NoRevision})
Born(s) == sessions[s].status # "none"

(* Keys are handed out once, and one key belongs to one revision. *)
KeysUsed ==
    /\ \A j \in DOMAIN jobs : jobs[j].key <= client.revisions
    /\ \A r \in Requests : r.key <= client.revisions
    /\ \A r, q \in Requests : r.key = q.key => r = q

(* A request whose key has a job has an old base. *)
Answered ==
    \A r \in Requests : \A j \in DOMAIN jobs :
        jobs[j].key = r.key => jobs[j].session = r.session /\ r.base < jobs[j].revision

(* The jobs of a live session are its revisions, the latest one its last. *)
Rows ==
    \A j \in DOMAIN jobs :
        /\ Born(jobs[j].session)
        /\ Live(jobs[j].session) =>
              /\ jobs[j].revision <= sessions[jobs[j].session].revision
              /\ jobs[j].revision = sessions[jobs[j].session].revision => j = sessions[jobs[j].session].latest

(* The latest revision of a live session is a job with a receipt, and every *)
(* receipt names a job of its key.                                          *)
LatestOf(s, S) ==
    /\ S.latest = None <=> S.revision = 0
    /\ S.latest # None =>
          /\ S.latest \in DOMAIN jobs /\ jobs[S.latest].session = s /\ jobs[S.latest].revision = S.revision
          /\ \E i \in DOMAIN S.receipts : S.receipts[i].key = jobs[S.latest].key
    /\ \A i \in DOMAIN S.receipts :
          /\ S.receipts[i].job \in DOMAIN jobs /\ jobs[S.receipts[i].job].key = S.receipts[i].key
          /\ jobs[S.receipts[i].job].session = s
Latests == \A s \in LiveSessions : LatestOf(s, sessions[s])

(* A request that could be accepted asks for something new. *)
Newer(r, S) ==
    /\ r.base <= S.revision
    /\ r.base = S.revision /\ S.latest # None => jobs[S.latest].files # r.files
RequestsNew ==
    \A r \in Requests : Born(r.session) /\ (Live(r.session) => Newer(r, sessions[r.session]))

RequestInv ==
    /\ KeysUsed /\ Answered /\ Rows /\ Latests /\ RequestsNew
    /\ OneJobPerKey /\ NoRepeatedRevision

(* What a step leaves of the sessions, as far as the requests tell. *)
SessionKept(t) ==
    /\ sessions'[t].status = sessions[t].status /\ sessions'[t].key = sessions[t].key
    /\ sessions'[t].revision = sessions[t].revision /\ sessions'[t].latest = sessions[t].latest
    /\ sessions'[t].receipts = sessions[t].receipts
SameServer == JobsKept /\ \A t \in SessionIds : SessionKept(t)
FewerRequests == Requests' \subseteq Requests /\ client'.revisions = client.revisions

(* Requests, jobs and receipts have comparable keys and revisions. *)
LEMMA RequestsTyped ==
    ASSUME TypeInv
    PROVE  /\ Requests \subseteq Revision
           /\ \A r \in Requests : r.session \in SessionIds /\ r.base \in Nat /\ r.key \in Nat /\ r.files \in Files
           /\ \A j \in DOMAIN jobs : /\ jobs[j].session \in SessionIds /\ jobs[j].revision \in Nat
                                     /\ jobs[j].key \in Nat /\ jobs[j].files \in Files
           /\ DOMAIN jobs = 1 .. Len(jobs) /\ Len(jobs) \in Nat /\ client.revisions \in Nat
           /\ \A s \in SessionIds : sessions[s].revision \in Nat /\ sessions[s].latest \in Nat /\ sessions[s].key \in Nat
<1>1. Requests \subseteq Revision
  <2>1. Run.pending \in Revision \cup {NoRevision}
    BY DEF TypeInv, Client, Locals, Run
  <2>2. \A q \in late : q.op = "revision" => q.body \in Revision
    BY RequestFacts DEF TypeInv
  <2>3. QED
    BY <2>1, <2>2 DEF Requests, Bodies
<1>2. \A r \in Requests : r.session \in SessionIds /\ r.base \in Nat /\ r.key \in Nat /\ r.files \in Files
  BY <1>1, Constants
<1>3. DOMAIN jobs = 1 .. Len(jobs) /\ Len(jobs) \in Nat /\ \A j \in DOMAIN jobs : jobs[j] \in Row
  BY DEF TypeInv
<1>4. \A j \in DOMAIN jobs : /\ jobs[j].session \in SessionIds /\ jobs[j].revision \in Nat
                             /\ jobs[j].key \in Nat /\ jobs[j].files \in Files
  BY <1>3, Constants DEF Row
<1>5. client.revisions \in Nat
  BY RealtimeClientAssumption DEF TypeInv, Client
<1>6. \A s \in SessionIds : sessions[s].revision \in Nat /\ sessions[s].latest \in Nat /\ sessions[s].key \in Nat
  BY DEF TypeInv, SessionRecord
<1>7. QED
  BY <1>1, <1>2, <1>3, <1>4, <1>5, <1>6

(* Taking and finishing a revision change nothing a request is judged by. *)
LEMMA ServerStepSame ==
    ASSUME TypeInv, NEW s \in SessionIds, TakeSession(s) \/ \E out \in {"succeeded", "failed"} : FinishSession(s, out)
    PROVE  SameServer
BY ServerStepTyped DEF SameServer, SessionKept

(* Nor does doing nothing. *)
LEMMA StillSame ==
    ASSUME UNCHANGED serverVars
    PROVE  SameServer
BY DEF serverVars, SameServer, SessionKept, JobsKept

(* A step that changes neither rows nor revisions. *)
LEMMA SameKeeps ==
    ASSUME TypeInv, RequestInv, SameServer, FewerRequests
    PROVE  RequestInv'
<1>1. /\ DOMAIN jobs' = DOMAIN jobs
      /\ \A j \in DOMAIN jobs : /\ jobs'[j].session = jobs[j].session /\ jobs'[j].revision = jobs[j].revision
                                /\ jobs'[j].key = jobs[j].key /\ jobs'[j].files = jobs[j].files
                                /\ jobs[j].session \in SessionIds
  BY RequestsTyped DEF SameServer, JobsKept
<1>2. \A t \in SessionIds : SessionKept(t) /\ (Live(t)' <=> Live(t)) /\ (Born(t)' <=> Born(t))
  BY DEF SameServer, SessionKept, Live, Born
<1>3. \A r \in Requests' : r \in Requests /\ r.session \in SessionIds
  BY RequestsTyped DEF FewerRequests
<1>4. KeysUsed' /\ Answered'
  BY <1>1, <1>3 DEF RequestInv, KeysUsed, Answered, FewerRequests
<1>5. Rows'
  BY <1>1, <1>2 DEF RequestInv, Rows, SessionKept
<1>6. Latests'
  <2>1. SUFFICES ASSUME NEW s \in SessionIds, Live(s)' PROVE LatestOf(s, sessions[s])'
    BY DEF Latests, LiveSessions
  <2>2. LatestOf(s, sessions[s])
    BY <1>2, <2>1 DEF RequestInv, Latests, LiveSessions
  <2>3. QED
    BY <1>1, <1>2, <2>2 DEF LatestOf, SessionKept
<1>7. RequestsNew'
  <2>1. SUFFICES ASSUME NEW r \in Requests' PROVE Born(r.session)' /\ (Live(r.session)' => Newer(r, sessions[r.session])')
    BY DEF RequestsNew
  <2>2. r \in Requests /\ r.session \in SessionIds /\ Born(r.session) /\ (Live(r.session) => Newer(r, sessions[r.session]))
    BY <1>3, <2>1 DEF RequestInv, RequestsNew
  <2>3. Live(r.session) /\ sessions[r.session].latest # None => sessions[r.session].latest \in DOMAIN jobs
    BY <2>2 DEF RequestInv, Latests, LiveSessions, LatestOf
  <2>4. QED
    BY <1>1, <1>2, <2>2, <2>3 DEF Newer, SessionKept
<1>8. OneJobPerKey' /\ NoRepeatedRevision'
  BY <1>1 DEF RequestInv, OneJobPerKey, NoRepeatedRevision
<1>9. QED
  BY <1>4, <1>5, <1>6, <1>7, <1>8 DEF RequestInv

(* A session appears or goes away: no row moves. *)
OthersKept(s) == \A t \in SessionIds \ {s} : sessions'[t] = sessions[t]
Appears(s, k) ==
    /\ JobsKept /\ OthersKept(s) /\ sessions[s].status = "none"
    /\ sessions'[s].status = "live" /\ sessions'[s].key = k
    /\ sessions'[s].revision = 0 /\ sessions'[s].latest = None /\ sessions'[s].receipts = <<>>
GoesAway(s) ==
    /\ JobsKept /\ OthersKept(s) /\ sessions[s].status = "live" /\ sessions'[s].status = "gone"

(* CreateSession answers with the session of its key, or makes one. *)
LEMMA CreateCases ==
    ASSUME TypeInv, NEW k \in Nat, NEW s \in SessionIds, HandleCreate(k, s)
    PROVE  /\ (SameServer /\ Live(s) /\ sessions[s].key = k) \/ Appears(s, k)
           /\ Live(s)' /\ sessions'[s].key = k
<1>1. CASE s \in CreatedBy(k) /\ UNCHANGED serverVars
  BY <1>1, StillSame DEF CreatedBy, LiveSessions, Live, serverVars
<1>2. CASE s \in Unborn /\ jobs' = jobs
           /\ sessions' = [sessions EXCEPT ![s] = [NoSession EXCEPT !.status = "live", !.key = k]]
  <2> DEFINE S == [NoSession EXCEPT !.status = "live", !.key = k]
  <2>1. S.status = "live" /\ S.key = k /\ S.revision = 0 /\ S.latest = None /\ S.receipts = <<>>
    BY DEF NoSession
  <2> HIDE DEF S
  <2>2. sessions'[s] = S /\ OthersKept(s)
    BY <1>2 DEF TypeInv, OthersKept, S
  <2>3. s # None /\ sessions[s].status = "none"
    BY <1>2, Constants DEF Unborn
  <2>4. QED
    BY <1>2, <2>1, <2>2, <2>3 DEF Appears, JobsKept, Live
<1>3. QED
  BY <1>1, <1>2 DEF HandleCreate, serverVars

(* CloseSession ends a live session and leaves any other alone. *)
LEMMA CloseCases ==
    ASSUME TypeInv, NEW s \in SessionIds, HandleClose(s)
    PROVE  (~Live(s) /\ SameServer) \/ (Live(s) /\ GoesAway(s))
<1>1. JobsKept
  BY CloseTyped
<1>2. /\ OthersKept(s)
      /\ sessions'[s] = IF Live(s) THEN [NoSession EXCEPT !.status = "gone"] ELSE sessions[s]
  BY DEF HandleClose, TypeInv, OthersKept
<1>3. [NoSession EXCEPT !.status = "gone"].status = "gone"
  BY DEF NoSession
<1>4. CASE Live(s)
  BY <1>1, <1>2, <1>3, <1>4 DEF GoesAway, Live
<1>5. CASE ~Live(s)
  BY <1>1, <1>2, <1>5 DEF SameServer, SessionKept, OthersKept
<1>6. QED
  BY <1>4, <1>5

(* A new session has no revision, so no request is repeated in it. *)
LEMMA AppearsKeeps ==
    ASSUME TypeInv, RequestInv, NEW s \in SessionIds, NEW k, Appears(s, k), FewerRequests
    PROVE  RequestInv'
<1>1. /\ DOMAIN jobs' = DOMAIN jobs
      /\ \A j \in DOMAIN jobs : /\ jobs'[j].session = jobs[j].session /\ jobs'[j].revision = jobs[j].revision
                                /\ jobs'[j].key = jobs[j].key /\ jobs'[j].files = jobs[j].files
                                /\ jobs[j].session \in SessionIds /\ jobs[j].session # s
  BY RequestsTyped DEF Appears, JobsKept, RequestInv, Rows, Born
<1>2. \A t \in SessionIds \ {s} : sessions'[t] = sessions[t] /\ (Live(t)' <=> Live(t)) /\ (Born(t)' <=> Born(t))
  BY DEF Appears, OthersKept, Live, Born
<1>3. \A r \in Requests' : r \in Requests /\ r.session \in SessionIds /\ r.session # s
  BY RequestsTyped DEF FewerRequests, RequestInv, RequestsNew, Appears, Born
<1>4. KeysUsed' /\ Answered'
  BY <1>1, <1>3 DEF RequestInv, KeysUsed, Answered, FewerRequests
<1>5. Rows'
  BY <1>1, <1>2 DEF RequestInv, Rows
<1>6. Latests'
  <2>1. SUFFICES ASSUME NEW t \in SessionIds, Live(t)' PROVE LatestOf(t, sessions[t])'
    BY DEF Latests, LiveSessions
  <2>2. CASE t = s
    BY <2>2 DEF Appears, LatestOf
  <2>3. CASE t # s
    <3>1. LatestOf(t, sessions[t])
      BY <1>2, <2>1, <2>3 DEF RequestInv, Latests, LiveSessions
    <3>2. QED
      BY <1>1, <1>2, <2>3, <3>1 DEF LatestOf
  <2>4. QED
    BY <2>2, <2>3
<1>7. RequestsNew'
  <2>1. SUFFICES ASSUME NEW r \in Requests' PROVE Born(r.session)' /\ (Live(r.session)' => Newer(r, sessions[r.session])')
    BY DEF RequestsNew
  <2>2. r \in Requests /\ r.session \in SessionIds \ {s} /\ Born(r.session) /\ (Live(r.session) => Newer(r, sessions[r.session]))
    BY <1>3, <2>1 DEF RequestInv, RequestsNew
  <2>3. Live(r.session) /\ sessions[r.session].latest # None => sessions[r.session].latest \in DOMAIN jobs
    BY <2>2 DEF RequestInv, Latests, LiveSessions, LatestOf
  <2>4. QED
    BY <1>1, <1>2, <2>2, <2>3 DEF Newer
<1>8. OneJobPerKey' /\ NoRepeatedRevision'
  BY <1>1 DEF RequestInv, OneJobPerKey, NoRepeatedRevision
<1>9. QED
  BY <1>4, <1>5, <1>6, <1>7, <1>8 DEF RequestInv

(* A session that goes away accepts nothing any more. *)
LEMMA GoesAwayKeeps ==
    ASSUME TypeInv, RequestInv, NEW s \in SessionIds, GoesAway(s), FewerRequests
    PROVE  RequestInv'
<1>1. /\ DOMAIN jobs' = DOMAIN jobs
      /\ \A j \in DOMAIN jobs : /\ jobs'[j].session = jobs[j].session /\ jobs'[j].revision = jobs[j].revision
                                /\ jobs'[j].key = jobs[j].key /\ jobs'[j].files = jobs[j].files
                                /\ jobs[j].session \in SessionIds
  BY RequestsTyped DEF GoesAway, JobsKept
<1>2. \A t \in SessionIds : /\ Born(t) => Born(t)'
                            /\ Live(t)' => t # s /\ sessions'[t] = sessions[t] /\ Live(t)
  BY DEF GoesAway, OthersKept, Live, Born
<1>3. \A r \in Requests' : r \in Requests /\ r.session \in SessionIds
  BY RequestsTyped DEF FewerRequests
<1>4. KeysUsed' /\ Answered'
  BY <1>1, <1>3 DEF RequestInv, KeysUsed, Answered, FewerRequests
<1>5. Rows'
  BY <1>1, <1>2 DEF RequestInv, Rows
<1>6. Latests'
  <2>1. SUFFICES ASSUME NEW t \in SessionIds, Live(t)' PROVE LatestOf(t, sessions[t])'
    BY DEF Latests, LiveSessions
  <2>2. LatestOf(t, sessions[t])
    BY <1>2, <2>1 DEF RequestInv, Latests, LiveSessions
  <2>3. QED
    BY <1>1, <1>2, <2>1, <2>2 DEF LatestOf
<1>7. RequestsNew'
  <2>1. SUFFICES ASSUME NEW r \in Requests' PROVE Born(r.session)' /\ (Live(r.session)' => Newer(r, sessions[r.session])')
    BY DEF RequestsNew
  <2>2. r \in Requests /\ r.session \in SessionIds /\ Born(r.session) /\ (Live(r.session) => Newer(r, sessions[r.session]))
    BY <1>3, <2>1 DEF RequestInv, RequestsNew
  <2>3. Live(r.session) /\ sessions[r.session].latest # None => sessions[r.session].latest \in DOMAIN jobs
    BY <2>2 DEF RequestInv, Latests, LiveSessions, LatestOf
  <2>4. QED
    BY <1>1, <1>2, <2>2, <2>3 DEF Newer
<1>8. OneJobPerKey' /\ NoRepeatedRevision'
  BY <1>1 DEF RequestInv, OneJobPerKey, NoRepeatedRevision
<1>9. QED
  BY <1>4, <1>5, <1>6, <1>7, <1>8 DEF RequestInv

(* Revision r of the requests is accepted. *)
LEMMA AcceptKeeps ==
    ASSUME TypeInv, RequestInv, NEW r \in Requests, Accepts(r), Live(r.session),
           r.base = sessions[r.session].revision, FewerRequests
    PROVE  RequestInv'
<1> DEFINE s == r.session
           n == Len(jobs)
           J == n + 1
           v == sessions[s].revision
<1>1. /\ s \in SessionIds /\ n \in Nat /\ DOMAIN jobs = 1 .. n /\ v \in Nat /\ r.key \in Nat
      /\ \A j \in 1 .. n : jobs[j].session \in SessionIds /\ jobs[j].revision \in Nat /\ jobs[j].key \in Nat
  BY RequestsTyped
<1>2. /\ DOMAIN jobs' = 1 .. n + 1 /\ J \in DOMAIN jobs' /\ J \notin 1 .. n /\ J # 0
      /\ \A j \in DOMAIN jobs' : j \in 1 .. n \/ j = J
      /\ \A j \in 1 .. n : j \in DOMAIN jobs'
  BY <1>1 DEF Accepts
<1>3. /\ \A j \in 1 .. n : /\ jobs'[j].session = jobs[j].session /\ jobs'[j].revision = jobs[j].revision
                           /\ jobs'[j].key = jobs[j].key /\ jobs'[j].files = jobs[j].files
      /\ jobs'[J].session = s /\ jobs'[J].revision = v + 1 /\ jobs'[J].key = r.key /\ jobs'[J].files = r.files
  BY DEF Accepts
<1>4. /\ \A t \in SessionIds \ {s} : sessions'[t] = sessions[t]
      /\ sessions'[s].status = "live" /\ sessions'[s].revision = v + 1 /\ sessions'[s].latest = J
      /\ \E i \in DOMAIN sessions'[s].receipts : sessions'[s].receipts[i] = [key |-> r.key, job |-> J]
      /\ \A i \in DOMAIN sessions'[s].receipts :
              \/ sessions'[s].receipts[i] = [key |-> r.key, job |-> J]
              \/ \E k \in DOMAIN sessions[s].receipts : sessions'[s].receipts[i] = sessions[s].receipts[k]
  BY DEF Accepts
<1>5. \A t \in SessionIds : (Live(t)' <=> Live(t)) /\ (Born(t)' <=> Born(t))
  BY <1>4 DEF Live, Born
<1>6. \A q \in Requests' : q \in Requests /\ q.session \in SessionIds /\ q.base \in Nat
  BY RequestsTyped DEF FewerRequests
<1>7. \A j \in 1 .. n : jobs[j].key # r.key
  <2>1. SUFFICES ASSUME NEW j \in 1 .. n, jobs[j].key = r.key PROVE FALSE
    OBVIOUS
  <2>2. jobs[j].session = s /\ r.base < jobs[j].revision
    BY <1>1, <2>1 DEF RequestInv, Answered
  <2>3. jobs[j].revision <= v
    BY <1>1, <2>1, <2>2 DEF RequestInv, Rows
  <2>4. QED
    BY <1>1, <2>1, <2>2, <2>3
<1>8. \A j \in 1 .. n : jobs[j].session = s => jobs[j].revision <= v /\ (jobs[j].revision = v => j = sessions[s].latest)
  BY <1>1 DEF RequestInv, Rows
<1> HIDE DEF J, v, n
<1>9. KeysUsed'
  BY <1>1, <1>2, <1>3, <1>6 DEF RequestInv, KeysUsed, FewerRequests
<1>10. Answered'
  <2>1. SUFFICES ASSUME NEW q \in Requests', NEW j \in DOMAIN jobs', jobs'[j].key = q.key
                 PROVE  jobs'[j].session = q.session /\ q.base < jobs'[j].revision
    BY DEF Answered
  <2>2. CASE j \in 1 .. n
    BY <1>1, <1>3, <1>6, <2>1, <2>2 DEF RequestInv, Answered
  <2>3. CASE j = J
    <3>1. q = r
      BY <1>3, <1>6, <2>1, <2>3 DEF RequestInv, KeysUsed
    <3>2. v < v + 1
      BY <1>1
    <3>3. QED
      BY <1>3, <2>3, <3>1, <3>2 DEF v
  <2>4. QED
    BY <1>2, <2>2, <2>3
<1>11. Rows'
  <2>1. SUFFICES ASSUME NEW j \in DOMAIN jobs'
                 PROVE  /\ Born(jobs[j].session)'
                        /\ Live(jobs[j].session)' =>
                              /\ jobs'[j].revision <= sessions'[jobs'[j].session].revision
                              /\ jobs'[j].revision = sessions'[jobs'[j].session].revision => j = sessions'[jobs'[j].session].latest
    BY DEF Rows
  <2>2. CASE j = J
    <3>1. v + 1 <= v + 1
      BY <1>1
    <3>2. QED
      BY <1>1, <1>3, <1>4, <2>2, <3>1 DEF Born
  <2>3. CASE j \in 1 .. n /\ jobs[j].session = s
    <3>1. jobs[j].revision <= v /\ jobs[j].revision \in Nat
      BY <1>1, <1>8, <2>3
    <3>2. jobs[j].revision <= v + 1 /\ jobs[j].revision # v + 1
      BY <1>1, <3>1
    <3>3. QED
      BY <1>3, <1>4, <2>3, <3>2 DEF Born
  <2>4. CASE j \in 1 .. n /\ jobs[j].session # s
    BY <1>1, <1>3, <1>4, <1>5, <2>4 DEF RequestInv, Rows
  <2>5. QED
    BY <1>2, <2>2, <2>3, <2>4
<1>12. Latests'
  <2>1. SUFFICES ASSUME NEW t \in SessionIds, Live(t)' PROVE LatestOf(t, sessions[t])'
    BY DEF Latests, LiveSessions
  <2>2. LatestOf(t, sessions[t])
    BY <1>5, <2>1 DEF RequestInv, Latests, LiveSessions
  <2>3. CASE t = s
    <3> DEFINE R == sessions'[s].receipts
               new == [key |-> r.key, job |-> J]
    <3>1. new.key = r.key /\ new.job = J
      OBVIOUS
    <3>2. /\ \E i \in DOMAIN R : R[i] = new
          /\ \A i \in DOMAIN R : R[i] = new \/ \E k \in DOMAIN sessions[s].receipts : R[i] = sessions[s].receipts[k]
      BY <1>4
    <3>3. \A k \in DOMAIN sessions[s].receipts :
              /\ sessions[s].receipts[k].job \in 1 .. n /\ jobs[sessions[s].receipts[k].job].key = sessions[s].receipts[k].key
              /\ jobs[sessions[s].receipts[k].job].session = s
      BY <1>1, <2>2, <2>3 DEF LatestOf
    <3> HIDE DEF new
    <3>4. \A i \in DOMAIN R : R[i].job \in DOMAIN jobs' /\ jobs'[R[i].job].key = R[i].key /\ jobs'[R[i].job].session = s
      BY <1>2, <1>3, <3>1, <3>2, <3>3
    <3>5. \E i \in DOMAIN R : R[i].key = jobs'[J].key
      BY <1>3, <3>1, <3>2
    <3>6. J # None /\ v + 1 # 0
      BY <1>1, <1>2 DEF None
    <3>7. QED
      BY <1>2, <1>3, <1>4, <2>3, <3>4, <3>5, <3>6 DEF LatestOf
  <2>4. CASE t # s
    <3> DEFINE S == sessions[t]
    <3>1. sessions'[t] = S /\ LatestOf(t, S)
      BY <1>4, <2>2, <2>4
    <3> HIDE DEF S
    <3>2. \A j \in DOMAIN jobs : j \in DOMAIN jobs' /\ jobs'[j].key = jobs[j].key /\ jobs'[j].session = jobs[j].session
                                /\ jobs'[j].revision = jobs[j].revision
      BY <1>1, <1>2, <1>3
    <3>3. QED
      BY <3>1, <3>2 DEF LatestOf
  <2>5. QED
    BY <2>3, <2>4
<1>13. RequestsNew'
  <2>1. SUFFICES ASSUME NEW q \in Requests' PROVE Born(q.session)' /\ (Live(q.session)' => Newer(q, sessions[q.session])')
    BY DEF RequestsNew
  <2>2. q \in Requests /\ q.session \in SessionIds /\ q.base \in Nat /\ Born(q.session) /\ (Live(q.session) => Newer(q, sessions[q.session]))
    BY <1>6, <2>1 DEF RequestInv, RequestsNew
  <2>3. CASE q.session = s
    <3>1. q.base <= v
      BY <2>2, <2>3 DEF Newer, v
    <3>2. q.base <= v + 1 /\ q.base # v + 1
      BY <1>1, <2>2, <3>1
    <3>3. QED
      BY <1>4, <1>5, <2>2, <2>3, <3>2 DEF Newer
  <2>4. CASE q.session # s
    <3>1. Live(q.session) /\ sessions[q.session].latest # None => sessions[q.session].latest \in 1 .. n
      BY <1>1, <2>2 DEF RequestInv, Latests, LiveSessions, LatestOf
    <3>2. QED
      BY <1>3, <1>4, <1>5, <2>2, <2>4, <3>1 DEF Newer
  <2>5. QED
    BY <2>3, <2>4
<1>14. OneJobPerKey'
  BY <1>1, <1>2, <1>3, <1>7 DEF RequestInv, OneJobPerKey
<1>15. NoRepeatedRevision'
  <2>1. SUFFICES ASSUME NEW i \in DOMAIN jobs', NEW j \in DOMAIN jobs', jobs'[i].session = jobs'[j].session,
                        jobs'[j].revision = jobs'[i].revision + 1
                 PROVE  jobs'[i].files # jobs'[j].files
    BY DEF NoRepeatedRevision
  <2>2. CASE i \in 1 .. n /\ j \in 1 .. n
    BY <1>1, <1>3, <2>1, <2>2 DEF RequestInv, NoRepeatedRevision
  <2>3. CASE i \in 1 .. n /\ j = J
    <3>1. jobs[i].session = s /\ jobs[i].revision = v
      BY <1>1, <1>3, <2>1, <2>3
    <3>2. i = sessions[s].latest /\ i # 0
      BY <1>1, <1>8, <2>3, <3>1
    <3>3. jobs[i].files # r.files
      BY <3>2 DEF RequestInv, RequestsNew, Newer, None
    <3>4. QED
      BY <1>3, <2>3, <3>3
  <2>4. CASE i = J
    <3>1. jobs'[j].revision = v + 2 /\ jobs'[j].session = s
      BY <1>1, <1>3, <2>1, <2>4
    <3>2. j # J
      BY <1>1, <1>3, <3>1
    <3>3. j \in 1 .. n /\ jobs[j].revision = v + 2 /\ jobs[j].session = s
      BY <1>2, <1>3, <3>1, <3>2
    <3>4. QED
      BY <1>1, <1>8, <3>3
  <2>5. QED
    BY <1>2, <2>2, <2>3, <2>4
<1>16. QED
  BY <1>9, <1>10, <1>11, <1>12, <1>13, <1>14, <1>15 DEF RequestInv

-----------------------------------------------------------------------------
(* The client and its session. *)

(* The client has been in session s, or will never be given it. *)
Used(s) ==
    \/ sessions[s].key < client.creation
    \/ client.pc = "done"
    \/ s = client.session /\ client.pc # "create"
SessionsUsed ==
    /\ \A s \in LiveSessions : sessions[s].key <= client.creation
    /\ \A s \in LiveSessions : sessions[s].latest # None => Used(s)
    /\ \A r \in Requests : Live(r.session) => Used(r.session)
    /\ \A r \in late : r.op = "create" => r.key <= client.creation
    /\ Within(client) => Born(client.session)

(* The open revision was made the latest, or can still be. *)
Current(S) ==
    \/ Run.pending.base = S.revision
    \/ S.latest # None /\ jobs[S.latest].key = Run.pending.key /\ jobs[S.latest].files = Run.pending.files
(* Without one the client knows what the server has, or has resolved files  *)
(* that the server lacks.                                                   *)
Known(S) ==
    /\ Run.last # NoFiles => S.latest # None /\ jobs[S.latest].files = Run.last
    /\ Run.last = NoFiles /\ S.latest # None => jobs[S.latest].files[2] < Run.extra
(* Every other request to the session is too old to be accepted. *)
OthersOld(S) == \A r \in Requests : r.session = client.session /\ r # Run.pending => r.base < S.revision
Agrees(S) == OthersOld(S) /\ IF Run.pending = NoRevision THEN Known(S) ELSE Current(S)
Agreement == Within(client) /\ Live(client.session) => Agrees(sessions[client.session])

ClientInv == SessionsUsed /\ Agreement
RealtimeInv == TypeInv /\ RequestInv /\ ClientInv

(* The client stays where it is, as far as its session can tell. *)
Continues ==
    /\ client'.session = client.session /\ client'.creation = client.creation /\ client'.revisions = client.revisions
    /\ Run'.pending = Run.pending /\ Run'.last = Run.last /\ Run'.extra = Run.extra
    /\ client'.pc = "create" <=> client.pc = "create"
    /\ client'.pc = "done" <=> client.pc = "done"
    /\ Within(client') <=> Within(client)
(* A creation that is given up has the key of the current attempt. *)
NewCreations == \A r \in late' : r.op = "create" => r \in late \/ r.key = client.creation

(* Working steps of the client keep its session and open revision. *)
LEMMA WorksContinues ==
    ASSUME Works(client, client') \/ client' = client
    PROVE  Continues
BY DEF Works, Alike, Within, Continues, Run

(* What the client refers to. *)
LEMMA ClientTyped ==
    ASSUME TypeInv
    PROVE  /\ client.creation \in Nat /\ client.revisions \in Nat /\ Run.extra \in Nat
           /\ Within(client) => client.session \in SessionIds
           /\ Run.pending # NoRevision => Run.pending \in Requests
           /\ \A s \in SessionIds : Live(s) <=> sessions[s].status = "live"
           /\ \A s \in SessionIds : Live(s) <=> s \in LiveSessions
           /\ \A s \in SessionIds : Live(s) => Born(s)
           /\ \A r \in late : r.op = "create" => r.key \in Nat
<1>1. client.creation \in Nat /\ client.revisions \in Nat /\ Run.extra \in Nat
  BY RealtimeClientAssumption DEF TypeInv, Client, Locals, Run
<1>2. Within(client) => client.session \in SessionIds
  BY DEF TypeInv, Places, Within
<1>3. \A s \in SessionIds : (Live(s) <=> sessions[s].status = "live") /\ (Live(s) => Born(s)) /\ (Live(s) <=> s \in LiveSessions)
  BY Constants DEF Live, Born, LiveSessions
<1>4. \A r \in late : r.op = "create" => r.key \in Nat
  BY RequestFacts, RealtimeClientAssumption DEF TypeInv
<1>5. QED
  BY <1>1, <1>2, <1>3, <1>4 DEF Requests

(* Client and server still agree when the server changed nothing that      *)
(* matters.                                                                *)
LEMMA SameContinues ==
    ASSUME TypeInv, RequestInv, ClientInv, Continues, FewerRequests, NewCreations, SameServer
    PROVE  ClientInv'
<1>1. \A t \in SessionIds : SessionKept(t) /\ (Live(t)' <=> Live(t)) /\ (Born(t)' <=> Born(t))
  BY DEF SameServer, SessionKept, Live, Born
<1>2. \A r \in Requests' : r \in Requests /\ r.session \in SessionIds
  BY RequestsTyped DEF FewerRequests
<1>3. \A t \in SessionIds : Used(t)' <=> Used(t)
  BY <1>1 DEF Used, Continues, SessionKept
<1>4. SessionsUsed'
  BY <1>1, <1>2, <1>3, ClientTyped DEF ClientInv, SessionsUsed, Continues, NewCreations, LiveSessions, SessionKept
<1>5. Agreement'
  <2>1. SUFFICES ASSUME Within(client), Live(client.session) PROVE Agrees(sessions[client.session])'
    BY <1>1, ClientTyped DEF Agreement, Continues
  <2> DEFINE s == client.session
  <2>2. s \in SessionIds /\ Agrees(sessions[s])
    BY <2>1, ClientTyped DEF ClientInv, Agreement
  <2>3. sessions[s].latest # None => sessions[s].latest \in DOMAIN jobs
    BY <2>1, <2>2 DEF RequestInv, Latests, LiveSessions, LatestOf
  <2>4. /\ sessions'[client'.session].revision = sessions[s].revision /\ sessions'[client'.session].latest = sessions[s].latest
        /\ \A j \in DOMAIN jobs : jobs'[j].key = jobs[j].key /\ jobs'[j].files = jobs[j].files
    BY <1>1, <2>2 DEF Continues, SessionKept, SameServer, JobsKept
  <2>5. OthersOld(sessions[client.session])'
    BY <1>2, <2>2, <2>4 DEF OthersOld, Agrees, Continues
  <2>6. Known(sessions[s]) => Known(sessions[client.session])'
    BY <2>3, <2>4 DEF Known, Continues
  <2>7. Current(sessions[s]) => Current(sessions[client.session])'
    BY <2>3, <2>4 DEF Current, Continues
  <2>8. QED
    BY <2>2, <2>5, <2>6, <2>7 DEF Agrees, Continues
<1>6. QED
  BY <1>4, <1>5 DEF ClientInv

(* They agree when another session appears, *)
LEMMA AppearsContinues ==
    ASSUME TypeInv, RequestInv, ClientInv, Continues, FewerRequests, NewCreations,
           NEW s \in SessionIds, NEW k \in Nat, k <= client.creation, Appears(s, k)
    PROVE  ClientInv'
<1>1. \A t \in SessionIds \ {s} : sessions'[t] = sessions[t] /\ (Live(t)' <=> Live(t)) /\ (Born(t)' <=> Born(t))
  BY DEF Appears, OthersKept, Live, Born
<1>2. \A r \in Requests' : r \in Requests /\ r.session \in SessionIds /\ r.session # s
  BY RequestsTyped DEF FewerRequests, RequestInv, RequestsNew, Appears, Born
<1>3. \A t \in SessionIds \ {s} : Used(t)' <=> Used(t)
  BY <1>1 DEF Used, Continues
<1>4. sessions'[s].key = k /\ sessions'[s].latest = None /\ ~Born(s) /\ Born(s)'
  BY DEF Appears, Born
<1>5. SessionsUsed'
  BY <1>1, <1>2, <1>3, <1>4, ClientTyped DEF ClientInv, SessionsUsed, Continues, NewCreations, LiveSessions
<1>6. Agreement'
  <2>1. SUFFICES ASSUME Within(client), Live(client.session)' PROVE Agrees(sessions[client.session])'
    BY DEF Agreement, Continues
  <2>2. client.session \in SessionIds \ {s} /\ client'.session = client.session
    BY <1>4, <2>1, ClientTyped DEF ClientInv, SessionsUsed, Continues
  <2> DEFINE t == client.session
  <2>3. Agrees(sessions[t]) /\ Live(t)
    BY <1>1, <2>1, <2>2 DEF ClientInv, Agreement
  <2>4. sessions[t].latest # None => sessions[t].latest \in DOMAIN jobs
    BY <2>2, <2>3 DEF RequestInv, Latests, LiveSessions, LatestOf
  <2>5. /\ sessions'[client'.session].revision = sessions[t].revision /\ sessions'[client'.session].latest = sessions[t].latest
        /\ \A j \in DOMAIN jobs : jobs'[j].key = jobs[j].key /\ jobs'[j].files = jobs[j].files
    BY <1>1, <2>2 DEF Appears, JobsKept
  <2>6. OthersOld(sessions[client.session])'
    BY <1>2, <2>2, <2>3, <2>5 DEF OthersOld, Agrees, Continues
  <2>7. Known(sessions[t]) => Known(sessions[client.session])'
    BY <2>4, <2>5 DEF Known, Continues
  <2>8. Current(sessions[t]) => Current(sessions[client.session])'
    BY <2>4, <2>5 DEF Current, Continues
  <2>9. QED
    BY <2>3, <2>6, <2>7, <2>8 DEF Agrees, Continues
<1>7. QED
  BY <1>5, <1>6 DEF ClientInv

(* and when one goes away. *)
LEMMA GoesAwayContinues ==
    ASSUME TypeInv, RequestInv, ClientInv, Continues, FewerRequests, NewCreations, NEW s \in SessionIds, GoesAway(s)
    PROVE  ClientInv'
<1>1. \A t \in SessionIds : /\ Born(t) => Born(t)'
                            /\ Live(t)' => t # s /\ sessions'[t] = sessions[t] /\ Live(t)
  BY DEF GoesAway, OthersKept, Live, Born
<1>2. \A r \in Requests' : r \in Requests /\ r.session \in SessionIds
  BY RequestsTyped DEF FewerRequests
<1>3. \A t \in SessionIds : Live(t)' => (Used(t)' <=> Used(t))
  BY <1>1 DEF Used, Continues
<1>4. SessionsUsed'
  BY <1>1, <1>2, <1>3, ClientTyped DEF ClientInv, SessionsUsed, Continues, NewCreations, LiveSessions
<1>5. Agreement'
  <2>1. SUFFICES ASSUME Within(client), Live(client.session)' PROVE Agrees(sessions[client.session])'
    BY DEF Agreement, Continues
  <2>2. client.session \in SessionIds /\ client'.session = client.session
    BY <2>1, ClientTyped DEF Continues
  <2> DEFINE t == client.session
  <2>3. Agrees(sessions[t]) /\ Live(t) /\ sessions'[t] = sessions[t]
    BY <1>1, <2>1, <2>2 DEF ClientInv, Agreement
  <2>4. sessions[t].latest # None => sessions[t].latest \in DOMAIN jobs
    BY <2>2, <2>3 DEF RequestInv, Latests, LiveSessions, LatestOf
  <2>5. /\ sessions'[client'.session].revision = sessions[t].revision /\ sessions'[client'.session].latest = sessions[t].latest
        /\ \A j \in DOMAIN jobs : jobs'[j].key = jobs[j].key /\ jobs'[j].files = jobs[j].files
    BY <2>2, <2>3 DEF GoesAway, JobsKept
  <2>6. OthersOld(sessions[client.session])'
    BY <1>2, <2>2, <2>3, <2>5 DEF OthersOld, Agrees, Continues
  <2>7. Known(sessions[t]) => Known(sessions[client.session])'
    BY <2>4, <2>5 DEF Known, Continues
  <2>8. Current(sessions[t]) => Current(sessions[client.session])'
    BY <2>4, <2>5 DEF Current, Continues
  <2>9. QED
    BY <2>3, <2>6, <2>7, <2>8 DEF Agrees, Continues
<1>6. QED
  BY <1>4, <1>5 DEF ClientInv

(* A late copy is accepted: either it is for a session the client has left, *)
(* or it is the open revision itself, which becomes the latest one.         *)
LEMMA AcceptContinues ==
    ASSUME TypeInv, RequestInv, ClientInv, Continues, FewerRequests, NewCreations, NEW r \in Requests, Accepts(r),
           Live(r.session), r.base = sessions[r.session].revision
    PROVE  ClientInv'
<1> DEFINE s == r.session
           n == Len(jobs)
           J == n + 1
           v == sessions[s].revision
<1>1. s \in SessionIds /\ n \in Nat /\ DOMAIN jobs = 1 .. n /\ v \in Nat /\ r.files \in Files
  BY RequestsTyped
<1>2. J # None
  BY <1>1 DEF None
<1>3. /\ \A j \in DOMAIN jobs : jobs'[j].key = jobs[j].key /\ jobs'[j].files = jobs[j].files
      /\ jobs'[J].key = r.key /\ jobs'[J].files = r.files
      /\ sessions'[s].status = "live" /\ sessions'[s].key = sessions[s].key
      /\ sessions'[s].revision = v + 1 /\ sessions'[s].latest = J
  BY <1>1 DEF Accepts
<1>4. \A t \in SessionIds \ {s} : sessions'[t] = sessions[t]
  BY DEF Accepts
<1>5. \A t \in SessionIds : (Live(t)' <=> Live(t)) /\ (Born(t)' <=> Born(t)) /\ sessions'[t].key = sessions[t].key
  BY <1>3, <1>4 DEF Live, Born
<1>6. \A q \in Requests' : q \in Requests /\ q.session \in SessionIds /\ q.base \in Nat
  BY RequestsTyped DEF FewerRequests
<1>7. \A t \in SessionIds : Used(t)' <=> Used(t)
  BY <1>5 DEF Used, Continues
<1>8. Used(s)
  BY DEF ClientInv, SessionsUsed
<1> HIDE DEF J, v
<1>9. SessionsUsed'
  <2>1. \A t \in LiveSessions' : t \in LiveSessions /\ t \in SessionIds
    BY <1>5 DEF LiveSessions
  <2>2. \A t \in LiveSessions' : sessions'[t].key <= client'.creation
    BY <1>5, <2>1 DEF ClientInv, SessionsUsed, Continues
  <2>3. \A t \in LiveSessions' : sessions'[t].latest # None => Used(t)'
    BY <1>4, <1>7, <1>8, <2>1 DEF ClientInv, SessionsUsed
  <2>4. \A q \in Requests' : Live(q.session)' => Used(q.session)'
    BY <1>5, <1>6, <1>7 DEF ClientInv, SessionsUsed
  <2>5. \A q \in late' : q.op = "create" => q.key <= client'.creation
    BY ClientTyped DEF ClientInv, SessionsUsed, Continues, NewCreations
  <2>6. Within(client') => Born(client.session)'
    BY <1>5, ClientTyped DEF ClientInv, SessionsUsed, Continues
  <2>7. QED
    BY <2>2, <2>3, <2>4, <2>5, <2>6 DEF SessionsUsed
<1>10. Agreement'
  <2>1. SUFFICES ASSUME Within(client), Live(client.session)' PROVE Agrees(sessions[client.session])'
    BY DEF Agreement, Continues
  <2>2. client.session \in SessionIds /\ client'.session = client.session
    BY <2>1, ClientTyped DEF Continues
  <2> DEFINE t == client.session
  <2>3. Agrees(sessions[t]) /\ Live(t)
    BY <1>5, <2>1, <2>2 DEF ClientInv, Agreement
  <2>4. CASE t = s
    <3>1. r = Run.pending
      <4>1. ~(r.base < v)
        BY <1>1 DEF v
      <4>2. QED
        BY <2>3, <2>4, <4>1 DEF Agrees, OthersOld, v
    <3>2. r # NoRevision
      BY RequestsTyped, Constants
    <3>3. OthersOld(sessions[client.session])'
      <4>1. SUFFICES ASSUME NEW q \in Requests', q.session = s, q # Run.pending PROVE q.base < v + 1
        BY <1>3, <2>2, <2>4 DEF OthersOld, Continues
      <4>2. q.base < v /\ q.base \in Nat
        BY <1>6, <2>3, <2>4, <4>1 DEF Agrees, OthersOld, v
      <4>3. QED
        BY <1>1, <4>2
    <3>4. Current(sessions[client.session])'
      BY <1>2, <1>3, <2>2, <2>4, <3>1 DEF Current, Continues
    <3>5. QED
      BY <3>1, <3>2, <3>3, <3>4 DEF Agrees, Continues
  <2>5. CASE t # s
    <3>1. sessions[t].latest # None => sessions[t].latest \in DOMAIN jobs
      BY <2>2, <2>3 DEF RequestInv, Latests, LiveSessions, LatestOf
    <3>2. sessions'[client'.session] = sessions[t]
      BY <1>4, <2>2, <2>5
    <3>3. OthersOld(sessions[client.session])'
      BY <1>6, <2>2, <2>3, <3>2 DEF OthersOld, Agrees, Continues
    <3>4. Known(sessions[t]) => Known(sessions[client.session])'
      BY <1>3, <3>1, <3>2 DEF Known, Continues
    <3>5. Current(sessions[t]) => Current(sessions[client.session])'
      BY <1>3, <3>1, <3>2 DEF Current, Continues
    <3>6. QED
      BY <2>3, <3>3, <3>4, <3>5 DEF Agrees, Continues
  <2>6. QED
    BY <2>4, <2>5
<1>11. QED
  BY <1>9, <1>10 DEF ClientInv

(* Out of the session the client has nothing to agree about. *)
LEMMA LeavingKeeps ==
    ASSUME TypeInv, RequestInv, ClientInv, Leaves \/ Ends \/ Closes, FewerRequests, NewCreations,
           SameServer \/ \E s \in SessionIds : GoesAway(s)
    PROVE  ClientInv'
<1>1. \A t \in SessionIds : /\ Live(t)' => /\ Live(t) /\ sessions'[t].key = sessions[t].key
                                           /\ sessions'[t].latest = sessions[t].latest
  BY DEF SameServer, SessionKept, GoesAway, OthersKept, Live
<1>2. ~Within(client')
  BY DEF Leaves, Ends, Closes, Within
<1>3. client.creation \in Nat /\ client.creation <= client'.creation
  <2>1. client.creation \in Nat /\ client.creation <= client.creation /\ client.creation <= client.creation + 1
    BY ClientTyped
  <2>2. QED
    BY <2>1 DEF Leaves, Ends, Closes
<1>4. \A r \in Requests' : r \in Requests /\ r.session \in SessionIds
  BY RequestsTyped DEF FewerRequests
<1>5. ASSUME NEW t \in SessionIds, Live(t)', Used(t) PROVE Used(t)'
  <2>1. sessions[t].key \in Nat /\ sessions'[t].key = sessions[t].key /\ sessions[t].key <= client.creation
    BY <1>1, <1>5, RequestsTyped DEF ClientInv, SessionsUsed, LiveSessions
  <2>2. CASE Leaves
    BY <1>5, <2>1, <2>2 DEF Leaves, Used
  <2>3. CASE Ends
    BY <2>3 DEF Ends, Used
  <2>4. CASE Closes
    <3>1. CASE client'.pc = "done"
      BY <3>1 DEF Used
    <3>2. CASE client'.creation = client.creation + 1
      <4>1. sessions'[t].key < client'.creation
        BY <1>3, <2>1, <3>2
      <4>2. QED
        BY <4>1 DEF Used
    <3>3. QED
      BY <2>4, <3>1, <3>2 DEF Closes
  <2>5. QED
    BY <2>2, <2>3, <2>4
<1>6. \A t \in LiveSessions' : sessions'[t].key <= client'.creation
  <2>1. SUFFICES ASSUME NEW t \in SessionIds, Live(t)' PROVE sessions'[t].key <= client'.creation
    BY DEF LiveSessions
  <2>2. sessions'[t].key \in Nat /\ sessions'[t].key <= client.creation
    BY <1>1, <2>1, RequestsTyped DEF ClientInv, SessionsUsed, LiveSessions
  <2>3. client'.creation \in Nat
    BY <1>3 DEF Leaves, Ends, Closes
  <2>4. QED
    BY <1>3, <2>2, <2>3
<1>7. \A t \in LiveSessions' : sessions'[t].latest # None => Used(t)'
  BY <1>1, <1>5 DEF ClientInv, SessionsUsed, LiveSessions
<1>8. \A r \in Requests' : Live(r.session)' => Used(r.session)'
  BY <1>1, <1>4, <1>5 DEF ClientInv, SessionsUsed
<1>9. \A r \in late' : r.op = "create" => r.key <= client'.creation
  <2>1. SUFFICES ASSUME NEW r \in late', r.op = "create" PROVE r.key <= client'.creation
    OBVIOUS
  <2>2. r.key \in Nat /\ r.key <= client.creation
    BY <1>3, <2>1, ClientTyped DEF NewCreations, ClientInv, SessionsUsed
  <2>3. client'.creation \in Nat
    BY <1>3 DEF Leaves, Ends, Closes
  <2>4. QED
    BY <1>3, <2>2, <2>3
<1>10. QED
  BY <1>2, <1>6, <1>7, <1>8, <1>9 DEF ClientInv, SessionsUsed, Agreement

(* The session the client is given has no revision and no request. *)
LEMMA EnterKeeps ==
    ASSUME TypeInv, RequestInv, ClientInv, NEW s \in SessionIds, Enters(s), FewerRequests, NewCreations,
           (SameServer /\ Live(s) /\ sessions[s].key = client.creation) \/ Appears(s, client.creation)
    PROVE  ClientInv'
<1>1. client.creation \in Nat /\ client.pc = "create" /\ client'.creation = client.creation /\ ~(client.creation < client.creation)
  BY ClientTyped DEF Enters
<1>2. \A t \in SessionIds \ {s} : /\ (Live(t)' <=> Live(t)) /\ sessions'[t].key = sessions[t].key
                                  /\ sessions'[t].latest = sessions[t].latest
  BY DEF SameServer, SessionKept, Appears, OthersKept, Live
<1>3. \A t \in SessionIds \ {s} : Used(t) => Used(t)'
  BY <1>1, <1>2 DEF Used
<1>4. ~Used(s) \/ ~Born(s)
  BY <1>1 DEF Used, Appears, Born
<1>5. \A r \in Requests' : r \in Requests /\ r.session \in SessionIds /\ r.session # s
  <2>1. SUFFICES ASSUME NEW r \in Requests, r.session = s PROVE FALSE
    BY RequestsTyped DEF FewerRequests
  <2>2. Born(s)
    BY <2>1 DEF RequestInv, RequestsNew
  <2>3. Live(s) /\ sessions[s].key = client.creation
    BY <2>2 DEF Appears, Born
  <2>4. QED
    BY <1>4, <2>1, <2>2, <2>3 DEF ClientInv, SessionsUsed
<1>6. sessions'[s].latest = None /\ sessions'[s].key = client.creation /\ Born(s)'
  <2>1. CASE Appears(s, client.creation)
    BY <2>1 DEF Appears, Born
  <2>2. CASE SameServer /\ Live(s) /\ sessions[s].key = client.creation
    <3>1. Born(s) /\ s \in LiveSessions
      BY <2>2, ClientTyped
    <3>2. sessions[s].latest = None
      BY <1>4, <3>1 DEF ClientInv, SessionsUsed
    <3>3. QED
      BY <2>2, <3>1, <3>2 DEF SameServer, SessionKept, Born
  <2>3. QED
    BY <2>1, <2>2
<1>7. \A t \in LiveSessions' : sessions'[t].key <= client'.creation
  <2>1. client.creation <= client.creation
    BY <1>1
  <2>2. QED
    BY <1>1, <1>2, <1>6, <2>1 DEF ClientInv, SessionsUsed, LiveSessions
<1>8. \A t \in LiveSessions' : sessions'[t].latest # None => Used(t)'
  BY <1>2, <1>3, <1>6 DEF ClientInv, SessionsUsed, LiveSessions
<1>9. \A r \in Requests' : Live(r.session)' => Used(r.session)'
  BY <1>2, <1>3, <1>5 DEF ClientInv, SessionsUsed
<1>10. \A r \in late' : r.op = "create" => r.key <= client'.creation
  BY <1>1, ClientTyped DEF NewCreations, ClientInv, SessionsUsed
<1>11. client'.session = s /\ Run' = FreshLocals
  BY DEF Enters
<1>12. Agreement'
  BY <1>5, <1>6, <1>11, FreshTyped DEF Agreement, Agrees, OthersOld, Known
<1>13. QED
  BY <1>6, <1>7, <1>8, <1>9, <1>10, <1>11, <1>12 DEF ClientInv, SessionsUsed

(* A prepared revision has a new key, the current base and files that the   *)
(* session's latest revision does not have.                                 *)
LEMMA PrepareKeeps ==
    ASSUME TypeInv, RequestInv, ClientInv, Prepares, Live(client.session), UNCHANGED serverVars, UNCHANGED late
    PROVE  RequestInv' /\ ClientInv'
<1>0. PICK r, s, S : r = Run'.pending /\ s = client.session /\ S = sessions[s]
  OBVIOUS
<1> DEFINE k == client.revisions + 1
<1>1. /\ s \in SessionIds /\ Within(client) /\ Within(client') /\ client'.session = s /\ client.revisions \in Nat
      /\ client'.creation = client.creation /\ client'.revisions = k /\ client'.pc = "commit" /\ client.pc = "prepare"
      /\ r \in Revision /\ r # NoRevision
  BY <1>0, ClientTyped, Constants DEF Prepares, Within
<1>2. r.session = s /\ r.base = S.revision /\ r.key = k /\ r.files = Run.frozen
  BY <1>0 DEF Prepares
<1>3. Run.pending = NoRevision /\ Run.frozen # Run.last /\ Run.frozen[2] = Run.extra
  BY <1>1 DEF TypeInv, Places, Run
<1>4. sessions' = sessions /\ jobs' = jobs /\ late' = late
  BY DEF serverVars
<1>5. \A q \in Requests' : q \in Requests \/ q = r
  BY <1>4, <1>0 DEF Requests, Bodies
<1>6. \A q \in Requests : q.key \in Nat /\ q.key <= client.revisions /\ q.session \in SessionIds
  BY RequestsTyped DEF RequestInv, KeysUsed
<1>7. \A j \in DOMAIN jobs : jobs[j].key \in Nat /\ jobs[j].key <= client.revisions /\ jobs[j].session \in SessionIds
  BY RequestsTyped DEF RequestInv, KeysUsed
<1>8. \A x \in Nat : x <= client.revisions => x <= k /\ x # k
  BY <1>1
<1>9. S.revision \in Nat /\ k <= k /\ S.revision <= S.revision
  BY <1>1, <1>0, RequestsTyped
<1>10. Agrees(S) /\ LatestOf(s, S) /\ Born(s)
  BY <1>1, <1>0, ClientTyped DEF ClientInv, Agreement, RequestInv, Latests
<1> HIDE DEF k
<1>11. KeysUsed'
  BY <1>1, <1>2, <1>4, <1>5, <1>6, <1>7, <1>8, <1>9 DEF RequestInv, KeysUsed
<1>12. Answered'
  BY <1>2, <1>4, <1>5, <1>7, <1>8 DEF RequestInv, Answered
<1>13. S.latest # None => jobs[S.latest].files # r.files
  <2>1. SUFFICES ASSUME S.latest # None PROVE jobs[S.latest].files # r.files
    OBVIOUS
  <2>2. Known(S)
    BY <1>3, <1>10 DEF Agrees
  <2>3. CASE Run.last # NoFiles
    BY <1>2, <1>3, <2>1, <2>2, <2>3 DEF Known
  <2>4. CASE Run.last = NoFiles
    <3>1. jobs[S.latest].files[2] < Run.extra /\ Run.extra \in Nat
      BY <2>1, <2>2, <2>4, ClientTyped DEF Known
    <3>2. r.files[2] = Run.extra
      BY <1>2, <1>3
    <3>3. ~(Run.extra < Run.extra)
      BY <3>1
    <3>4. QED
      BY <3>1, <3>2, <3>3
  <2>5. QED
    BY <2>3, <2>4
<1>14. RequestsNew'
  <2>1. Born(s)' /\ Newer(r, S)' /\ sessions'[s] = S
    BY <1>2, <1>4, <1>9, <1>10, <1>13, <1>0 DEF Newer, Born
  <2>2. QED
    BY <1>2, <1>4, <1>5, <2>1 DEF RequestInv, RequestsNew, Newer, Born, Live
<1>15. Rows' /\ Latests' /\ OneJobPerKey' /\ NoRepeatedRevision'
  BY <1>4 DEF RequestInv, Rows, Latests, LiveSessions, LatestOf, Live, Born, OneJobPerKey, NoRepeatedRevision
<1>16. SessionsUsed'
  <2>1. \A t \in SessionIds : (Used(t) => Used(t)') /\ (Live(t)' <=> Live(t))
    BY <1>1, <1>4, <1>0 DEF Used, Live
  <2>2. Used(s)'
    BY <1>1 DEF Used
  <2>3. QED
    BY <1>1, <1>2, <1>4, <1>5, <1>6, <1>10, <2>1, <2>2 DEF ClientInv, SessionsUsed, LiveSessions, Born
<1>17. Agreement'
  <2>1. OthersOld(S)'
    BY <1>1, <1>2, <1>3, <1>4, <1>5, <1>10, <1>0, RequestsTyped, Constants DEF OthersOld, Agrees
  <2>2. Current(S)'
    BY <1>2, <1>4, <1>0 DEF Current
  <2>3. QED
    BY <1>1, <1>4, <1>0, <2>1, <2>2 DEF Agreement, Agrees
<1>18. QED
  BY <1>11, <1>12, <1>14, <1>15, <1>16, <1>17 DEF RequestInv, ClientInv

(* The open revision of a live session is never in conflict, and the job a  *)
(* receipt answers it with is the session's latest.                         *)
LEMMA OpenRevision ==
    ASSUME TypeInv, RequestInv, ClientInv, Within(client), Run.pending # NoRevision, Live(client.session)
    PROVE  LET S == sessions[client.session]
           IN  /\ Verdict(Run.pending) \in {"accept", "replay"}
               /\ Verdict(Run.pending) = "replay" =>
                     Run.pending.base < S.revision /\ S.latest # None /\ jobs[S.latest].files = Run.pending.files
<1> DEFINE s == client.session
           S == sessions[s]
           r == Run.pending
<1>1. s \in SessionIds /\ r \in Requests /\ r.session = s
  BY ClientTyped DEF TypeInv, Places, Run
<1>2. Current(S) /\ LatestOf(s, S)
  BY <1>1, ClientTyped DEF ClientInv, Agreement, Agrees, RequestInv, Latests
<1>3. r.base # S.revision => S.latest # None /\ jobs[S.latest].files = r.files /\ Receipt(r) # {}
  <2>1. SUFFICES ASSUME r.base # S.revision
                 PROVE  S.latest # None /\ jobs[S.latest].files = r.files /\ Receipt(r) # {}
    OBVIOUS
  <2>2. S.latest # None /\ jobs[S.latest].key = r.key /\ jobs[S.latest].files = r.files
    BY <1>2, <2>1 DEF Current
  <2>3. PICK i \in DOMAIN S.receipts : S.receipts[i].key = r.key
    BY <1>2, <2>2 DEF LatestOf
  <2>4. S.receipts[i].job \in Receipt(r)
    BY <1>1, <2>3 DEF Receipt
  <2>5. QED
    BY <2>2, <2>4
<1>4. Receipt(r) # {} => r.base < S.revision
  <2>1. SUFFICES ASSUME Receipt(r) # {} PROVE r.base < S.revision
    OBVIOUS
  <2>2. PICK i \in DOMAIN S.receipts : S.receipts[i].key = r.key
    BY <1>1, <2>1 DEF Receipt
  <2>3. PICK j \in DOMAIN jobs : jobs[j].key = r.key /\ jobs[j].session = s
    BY <1>2, <2>2 DEF LatestOf
  <2>4. r.base < jobs[j].revision /\ jobs[j].revision <= S.revision
    BY <1>1, <2>3 DEF RequestInv, Answered, Rows
  <2>5. r.base \in Nat /\ jobs[j].revision \in Nat /\ S.revision \in Nat
    BY <1>1, RequestsTyped
  <2>6. QED
    BY <2>4, <2>5
<1>5. r.base \in Nat /\ S.revision \in Nat
  BY <1>1, RequestsTyped
<1>6. /\ Receipt(r) # {} => Verdict(r) = "replay"
      /\ Receipt(r) = {} /\ r.base = S.revision => Verdict(r) = "accept"
      /\ Verdict(r) = "replay" => Receipt(r) # {}
  BY <1>1 DEF Verdict, BaseMatches
<1>7. QED
  BY <1>3, <1>4, <1>5, <1>6

(* The answer to the open revision leaves the client knowing what the       *)
(* server has.                                                              *)
LEMMA AcceptedKeeps ==
    ASSUME TypeInv, RequestInv, ClientInv, IsAccepted, Live(client.session), FewerRequests, NewCreations,
           \/ Verdict(Run.pending) = "accept" /\ Accepts(Run.pending) /\ Run.pending.base = sessions[client.session].revision
           \/ Verdict(Run.pending) = "replay" /\ UNCHANGED serverVars
    PROVE  ClientInv'
<1>0. PICK r, s, S : r = Run.pending /\ s = client.session /\ S = sessions[s]
  OBVIOUS
<1>1. /\ Within(client) /\ Within(client') /\ client.pc = "commit" /\ client'.pc \in {"freeze", "loop"} /\ r # NoRevision
      /\ client'.session = s /\ client'.creation = client.creation /\ s \in SessionIds
      /\ Run'.last = r.files /\ Run'.pending = NoRevision
  BY <1>0 DEF IsAccepted, Within, TypeInv, Places, Run
<1>2. r \in Requests /\ r.session = s /\ r.files \in Files /\ r.files # NoFiles /\ S.revision \in Nat /\ r.base \in Nat
  BY <1>0, <1>1, ClientTyped, RequestsTyped, Constants DEF TypeInv, Places, Run
<1>3. Agrees(S)
  BY <1>0, <1>1 DEF ClientInv, Agreement
<1>4. /\ \A t \in SessionIds : (Live(t)' <=> Live(t)) /\ (Born(t)' <=> Born(t)) /\ sessions'[t].key = sessions[t].key
      /\ \A t \in SessionIds \ {s} : sessions'[t].latest = sessions[t].latest
  <2>1. CASE UNCHANGED serverVars
    BY <2>1 DEF serverVars, Live, Born
  <2>2. CASE Accepts(r)
    <3>1. /\ \A t \in SessionIds \ {s} : sessions'[t] = sessions[t]
          /\ sessions'[s].status = "live" /\ sessions'[s].key = sessions[s].key
      BY <1>2, <2>2 DEF Accepts
    <3>2. sessions[s].status = "live"
      BY <1>0 DEF Live
    <3>3. QED
      BY <3>1, <3>2 DEF Live, Born
  <2>3. QED
    BY <1>0, <2>1, <2>2
<1>5. /\ sessions'[s].latest # None /\ jobs'[sessions'[s].latest].files = r.files
      /\ r.base < sessions'[s].revision /\ S.revision <= sessions'[s].revision /\ sessions'[s].revision \in Nat
  <2>1. CASE Verdict(r) = "replay" /\ UNCHANGED serverVars
    <3>1. r.base < S.revision /\ S.latest # None /\ jobs[S.latest].files = r.files
      BY <1>0, <1>1, <2>1, OpenRevision
    <3>2. QED
      BY <1>0, <1>2, <2>1, <3>1 DEF serverVars
  <2>2. CASE Accepts(r) /\ r.base = S.revision
    <3> DEFINE J == Len(jobs) + 1
    <3>1. sessions'[s].latest = J /\ jobs'[J].files = r.files /\ sessions'[s].revision = S.revision + 1
      BY <1>0, <1>2, <2>2 DEF Accepts
    <3>2. J # 0
      BY RequestsTyped
    <3> HIDE DEF J
    <3>3. QED
      BY <1>2, <2>2, <3>1, <3>2 DEF None
  <2>3. QED
    BY <1>0, <2>1, <2>2
<1>6. \A q \in Requests' : q \in Requests /\ q.session \in SessionIds /\ q.base \in Nat
  BY RequestsTyped DEF FewerRequests
<1>7. \A t \in SessionIds : Used(t) => Used(t)'
  BY <1>0, <1>1, <1>4 DEF Used
<1>8. SessionsUsed'
  <2>1. Used(s)'
    BY <1>1 DEF Used
  <2>2. \A t \in LiveSessions' : t \in LiveSessions /\ t \in SessionIds
    BY <1>4 DEF LiveSessions
  <2>3. \A t \in LiveSessions' : sessions'[t].key <= client'.creation
    BY <1>1, <1>4, <2>2 DEF ClientInv, SessionsUsed
  <2>4. \A t \in LiveSessions' : sessions'[t].latest # None => Used(t)'
    BY <1>4, <1>7, <2>1, <2>2 DEF ClientInv, SessionsUsed
  <2>5. \A q \in Requests' : Live(q.session)' => Used(q.session)'
    BY <1>4, <1>6, <1>7 DEF ClientInv, SessionsUsed
  <2>6. \A q \in late' : q.op = "create" => q.key <= client'.creation
    BY <1>1, ClientTyped DEF ClientInv, SessionsUsed, NewCreations
  <2>7. Within(client') => Born(client.session)'
    BY <1>0, <1>1, <1>4, ClientTyped DEF ClientInv, SessionsUsed
  <2>8. QED
    BY <2>3, <2>4, <2>5, <2>6, <2>7 DEF SessionsUsed
<1>9. Agreement'
  <2>1. OthersOld(sessions[client.session])'
    <3>1. SUFFICES ASSUME NEW q \in Requests', q.session = s PROVE q.base < sessions'[s].revision
      BY <1>1 DEF OthersOld
    <3>2. q = r \/ (q.base < S.revision /\ q.base \in Nat)
      BY <1>0, <1>3, <1>6, <3>1 DEF Agrees, OthersOld
    <3>3. QED
      BY <1>2, <1>5, <3>2
  <2>2. Known(sessions[client.session])'
    BY <1>1, <1>2, <1>5 DEF Known
  <2>3. QED
    BY <1>1, <2>1, <2>2 DEF Agreement, Agrees
<1>10. QED
  BY <1>8, <1>9 DEF ClientInv

(* Once missing files are resolved, whatever is frozen next is new to the   *)
(* server.                                                                  *)
LEMMA RecoverKeeps ==
    ASSUME TypeInv, RequestInv, ClientInv, Recovers, FewerRequests, NewCreations, UNCHANGED serverVars
    PROVE  ClientInv'
<1>0. PICK s, S : s = client.session /\ S = sessions[s]
  OBVIOUS
<1>1. /\ Within(client) /\ Within(client') /\ client'.session = s /\ client'.creation = client.creation /\ s \in SessionIds
      /\ Run'.last = NoFiles /\ Run'.extra = Run.extra + 1 /\ Run'.pending = Run.pending /\ Run.extra \in Nat
  BY <1>0, ClientTyped DEF Recovers
<1>2. sessions' = sessions /\ jobs' = jobs
  BY DEF serverVars
<1>3. \A t \in SessionIds : (Used(t) => Used(t)') /\ (Live(t)' <=> Live(t)) /\ (Born(t)' <=> Born(t))
  BY <1>0, <1>1, <1>2 DEF Used, Live, Born, Within
<1>4. \A q \in Requests' : q \in Requests /\ q.session \in SessionIds
  BY RequestsTyped DEF FewerRequests
<1>5. SessionsUsed'
  BY <1>0, <1>1, <1>2, <1>3, <1>4, ClientTyped DEF ClientInv, SessionsUsed, NewCreations, LiveSessions
<1>6. Agreement'
  <2>1. SUFFICES ASSUME Live(s) PROVE Agrees(S)'
    BY <1>0, <1>1, <1>2, <1>3 DEF Agreement
  <2>2. Agrees(S) /\ LatestOf(s, S)
    BY <1>0, <1>1, <2>1, ClientTyped DEF ClientInv, Agreement, RequestInv, Latests
  <2>3. OthersOld(S)'
    BY <1>0, <1>1, <1>4, <2>2 DEF OthersOld, Agrees
  <2>4. Current(S) => Current(S)'
    BY <1>1, <1>2 DEF Current
  <2>5. Known(S) => Known(S)'
    <3>1. SUFFICES ASSUME Known(S), S.latest # None PROVE jobs[S.latest].files[2] < Run.extra + 1
      BY <1>1, <1>2 DEF Known
    <3>2. S.latest \in DOMAIN jobs
      BY <2>2, <3>1 DEF LatestOf
    <3>3. jobs[S.latest].files[2] \in Nat
      BY <3>2, RequestsTyped, Constants
    <3>4. Run.last # NoFiles => jobs[S.latest].files[2] <= Run.extra
      BY <3>1 DEF Known, TypeInv, Places, Run
    <3>5. Run.last = NoFiles => jobs[S.latest].files[2] < Run.extra
      BY <3>1 DEF Known
    <3>6. QED
      BY <1>1, <3>3, <3>4, <3>5
  <2>6. QED
    BY <1>1, <2>2, <2>3, <2>4, <2>5 DEF Agrees
<1>7. QED
  BY <1>5, <1>6 DEF ClientInv

-----------------------------------------------------------------------------
(* Every step. *)

(* Whatever the client gives up was one of its requests. *)
GivenUp(q) ==
    \/ q \in late \/ q = CreateRequest
    \/ q = CloseRequest /\ client.session \in SessionIds
    \/ q = RevisionRequest /\ Run.pending # NoRevision
(* The copies that are still to arrive were sent before. *)
LEMMA LateFacts ==
    ASSUME TypeInv, \A q \in late' : GivenUp(q), Run'.pending \in {Run.pending, NoRevision},
           client'.revisions = client.revisions
    PROVE  late' \subseteq Request /\ FewerRequests /\ NewCreations
<1>1. client.creation \in 1 .. MaxCreations /\ Run.pending \in Revision \cup {NoRevision}
  BY DEF TypeInv, Client, Locals, Run
<1>2. CreateRequest \in Request /\ CreateRequest.op = "create" /\ CreateRequest.key = client.creation
  BY <1>1 DEF CreateRequest, Request
<1>3. client.session \in SessionIds => CloseRequest \in Request
  BY DEF CloseRequest, Request
<1>4. Run.pending # NoRevision => RevisionRequest \in Request
  BY <1>1 DEF RevisionRequest, Request
<1>5. late' \subseteq Request
  BY <1>2, <1>3, <1>4 DEF TypeInv, GivenUp
<1>6. CloseRequest.op = "close" /\ RevisionRequest.op = "revision" /\ RevisionRequest.body = Run.pending
  BY DEF CloseRequest, RevisionRequest
<1>7. \A q \in late' : q.op = "revision" => q.body \in Requests
  BY <1>2, <1>6 DEF GivenUp, Requests, Bodies
<1>8. FewerRequests
  <2>1. Bodies' \subseteq Requests
    BY <1>7 DEF Bodies
  <2>2. QED
    BY <2>1 DEF FewerRequests, Requests
<1>9. NewCreations
  BY <1>2, <1>6 DEF GivenUp, NewCreations
<1>10. QED
  BY <1>5, <1>8, <1>9

(* The types, put together from client and server. *)
LEMMA TypesFrom ==
    ASSUME TypeInv, ServerTyped, client' \in Client, Places(client'), Refers(client'), late' \subseteq Request,
           published' = published \/ published'.job \in 0 .. Len(jobs),
           source' \in 0 .. MaxEdits, changed' \in BOOLEAN
    PROVE  TypeInv'
<1>1. Len(jobs) \in Nat /\ Len(jobs') \in Nat /\ Len(jobs) <= Len(jobs')
  BY DEF TypeInv, ServerTyped
<1>2. client'.run.lastOk \in Nat /\ client'.run.latest \in Nat
  BY DEF Client, Locals
<1>3. ClientReferences'
  <2>1. client'.run.lastOk <= Len(jobs') /\ client'.run.latest <= Len(jobs')
    BY <1>1, <1>2 DEF Refers
  <2>2. published'.job \in 0 .. Len(jobs)
    BY DEF TypeInv, ClientReferences
  <2>3. published'.job \in 0 .. Len(jobs')
    BY <1>1, <2>2
  <2>4. QED
    BY <2>1, <2>3 DEF ClientReferences, Refers
<1>4. QED
  BY <1>3 DEF TypeInv, ServerTyped

(* The client's place after each of its larger steps. *)
LEMMA PlacesAfter ==
    ASSUME TypeInv, Leaves \/ Ends \/ Closes \/ (\E s \in SessionIds : Enters(s)) \/ Prepares \/ IsAccepted
    PROVE  client' \in Client /\ Places(client') /\ Refers(client')
<1>1. client \in Client /\ Places(client) /\ Refers(client) /\ Len(jobs) \in Nat
  BY DEF TypeInv, ClientReferences
<1>2. CASE Leaves \/ Ends \/ Closes \/ (\E s \in SessionIds : Enters(s))
  <2>1. client'.run = FreshLocals /\ 0 <= Len(jobs)
    BY <1>1, <1>2 DEF Leaves, Ends, Closes, Enters, Run
  <2>2. client'.pc \notin {"create", "done"} => client'.session \in SessionIds
    BY <1>1, <1>2 DEF Leaves, Ends, Closes, Enters, Places
  <2>3. client'.pc \in {"create", "close", "done", "loop"} /\ client' \in Client
    BY <1>2 DEF Leaves, Ends, Closes, Enters
  <2>4. QED
    BY <2>1, <2>2, <2>3, FreshTyped DEF Places, Refers
<1>3. CASE Prepares
  <2>1. /\ client' \in Client /\ client'.pc = "commit" /\ client'.session = client.session
        /\ client'.run.last = client.run.last /\ client'.run.extra = client.run.extra
        /\ client'.run.lastOk = client.run.lastOk /\ client'.run.latest = client.run.latest
        /\ client'.run.pending.session = client.session /\ client'.run.pending.files = client.run.frozen
        /\ client'.run.pending \in Revision /\ client.pc = "prepare"
    BY <1>3 DEF Prepares, Run
  <2>2. client.run.frozen[2] = client.run.extra /\ client.run.extra <= client.run.extra /\ client.session \in SessionIds
    BY <1>1, <2>1 DEF Places, Client, Locals
  <2>3. QED
    BY <1>1, <2>1, <2>2, Constants DEF Places, Refers
<1>4. CASE IsAccepted
  <2>1. /\ client' \in Client /\ client'.pc \in {"freeze", "loop"} /\ client'.session = client.session /\ client.pc = "commit"
        /\ client'.run.last = client.run.pending.files /\ client'.run.extra = client.run.extra
        /\ client'.run.pending = NoRevision
        /\ client'.run.lastOk = client.run.lastOk /\ client'.run.latest = client.run.latest
    BY <1>4 DEF IsAccepted, Run
  <2>2. QED
    BY <1>1, <2>1 DEF Places, Refers
<1>5. QED
  BY <1>2, <1>3, <1>4

(* A client that does nothing keeps its types. *)
LEMMA Unmoved ==
    ASSUME TypeInv
    PROVE  /\ client' = client => client' \in Client /\ Places(client') /\ Refers(client')
           /\ UNCHANGED watchVars => source' \in 0 .. MaxEdits /\ changed' \in BOOLEAN
BY DEF TypeInv, ClientReferences, watchVars

(* Steps of the client that only look, capture or report. *)
LEMMA QuietStepsKeep ==
    ASSUME RealtimeInv,
           \/ SubmitOnChange \/ SubmitOnTrigger \/ SubmitOnVerify \/ Freeze \/ CaptureFailed \/ CommitFailed
           \/ \E poll \in BOOLEAN : Report(poll)
           \/ ReportFailed \/ Publish \/ PublishHalfway \/ Diagnose
    PROVE  RealtimeInv'
<1>1. TypeInv /\ RequestInv /\ ClientInv
  BY DEF RealtimeInv
<1>2. Works(client, client')
  BY <1>1, QuietSteps
<1>3. Continues /\ client' \in Client /\ Places(client') /\ Refers(client') /\ Run'.pending = Run.pending
      /\ client'.revisions = client.revisions
  BY <1>2, WorksContinues DEF Works, Alike, Run
<1>4. UNCHANGED serverVars
  BY DEF SubmitOnChange, SubmitOnTrigger, SubmitOnVerify, Freeze, CaptureFailed, CommitFailed, Report, ReportFailed,
         Publish, PublishHalfway, Diagnose
<1>5. \A q \in late' : GivenUp(q)
  <2>1. CASE CommitFailed
    <3>1. Run.pending # NoRevision
      BY <1>1, <2>1 DEF CommitFailed, TypeInv, Places, Run
    <3>2. QED
      BY <2>1, <3>1 DEF CommitFailed, MayArriveLate, GivenUp
  <2>2. CASE ~CommitFailed
    BY <2>2 DEF SubmitOnChange, SubmitOnTrigger, SubmitOnVerify, Freeze, CaptureFailed, Report, ReportFailed,
         Publish, PublishHalfway, Diagnose, GivenUp
  <2>3. QED
    BY <2>1, <2>2
<1>6. late' \subseteq Request /\ FewerRequests /\ NewCreations
  BY <1>1, <1>3, <1>5, LateFacts
<1>7. source' \in 0 .. MaxEdits /\ changed' \in BOOLEAN
  <2>1. CASE SubmitOnChange
    BY <1>1, <2>1 DEF SubmitOnChange, TypeInv
  <2>2. CASE UNCHANGED watchVars
    BY <1>1, <2>2, Unmoved
  <2>3. QED
    BY <2>1, <2>2 DEF SubmitOnTrigger, SubmitOnVerify, Freeze, CaptureFailed, CommitFailed, Report, ReportFailed,
         Publish, PublishHalfway, Diagnose
<1>8. published' = published \/ published'.job \in 0 .. Len(jobs)
  <2>1. CASE published' = Publication
    <3>1. Run.lastOk \in Nat /\ Run.lastOk <= Len(jobs) /\ Len(jobs) \in Nat
      BY <1>1 DEF TypeInv, Client, Locals, ClientReferences, Refers, Run
    <3>2. published'.job = Run.lastOk
      BY <2>1 DEF Publication
    <3>3. QED
      BY <3>1, <3>2
  <2>2. QED
    BY <2>1 DEF SubmitOnChange, SubmitOnTrigger, SubmitOnVerify, Freeze, CaptureFailed, CommitFailed, Report, ReportFailed,
         Publish, PublishHalfway, Diagnose
<1>9. TypeInv'
  BY <1>1, <1>3, <1>4, <1>6, <1>7, <1>8, StillTyped, TypesFrom
<1>10. SameServer
  BY <1>4, StillSame
<1>11. RequestInv' /\ ClientInv'
  BY <1>1, <1>3, <1>6, <1>10, SameKeeps, SameContinues
<1>12. QED
  BY <1>9, <1>11 DEF RealtimeInv

(* A step of the server that the client does not see. *)
LEMMA ServerKeeps ==
    ASSUME RealtimeInv, client' = client, published' = published, \A q \in late' : GivenUp(q),
           source' \in 0 .. MaxEdits, changed' \in BOOLEAN, ServerTyped,
           \/ SameServer
           \/ \E s \in SessionIds : GoesAway(s)
           \/ \E s \in SessionIds : \E k \in Nat : k <= client.creation /\ Appears(s, k)
           \/ \E r \in Requests : Accepts(r) /\ Live(r.session) /\ r.base = sessions[r.session].revision
    PROVE  RealtimeInv'
<1>1. TypeInv /\ RequestInv /\ ClientInv
  BY DEF RealtimeInv
<1>2. late' \subseteq Request /\ FewerRequests /\ NewCreations
  BY <1>1, LateFacts DEF Run
<1>3. TypeInv'
  BY <1>1, <1>2, Unmoved, TypesFrom
<1>4. Continues
  BY WorksContinues
<1>5. CASE SameServer
  BY <1>1, <1>2, <1>3, <1>4, <1>5, SameKeeps, SameContinues DEF RealtimeInv
<1>6. ASSUME NEW s \in SessionIds, GoesAway(s) PROVE RealtimeInv'
  BY <1>1, <1>2, <1>3, <1>4, <1>6, GoesAwayKeeps, GoesAwayContinues DEF RealtimeInv
<1>7. ASSUME NEW s \in SessionIds, NEW k \in Nat, k <= client.creation, Appears(s, k) PROVE RealtimeInv'
  <2>1. RequestInv'
    BY <1>1, <1>2, <1>7, AppearsKeeps
  <2>2. ClientInv'
    BY <1>1, <1>2, <1>4, <1>7, AppearsContinues
  <2>3. QED
    BY <1>3, <2>1, <2>2 DEF RealtimeInv
<1>8. ASSUME NEW r \in Requests, Accepts(r), Live(r.session), r.base = sessions[r.session].revision PROVE RealtimeInv'
  <2>1. RequestInv'
    BY <1>1, <1>2, <1>8, AcceptKeeps
  <2>2. ClientInv'
    BY <1>1, <1>2, <1>4, <1>8, AcceptContinues
  <2>3. QED
    BY <1>3, <2>1, <2>2 DEF RealtimeInv
<1>9. QED
  BY <1>5, <1>6, <1>7, <1>8

(* A request given up arrives: a new session, a closed one, or a revision  *)
(* that is judged like any other.                                          *)
LEMMA LateArrivesKeeps ==
    ASSUME RealtimeInv, NEW r \in late, LateArrives(r)
    PROVE  RealtimeInv'
<1>1. TypeInv /\ RequestInv /\ ClientInv
  BY DEF RealtimeInv
<1>2. /\ client' = client /\ published' = published /\ \A q \in late' : GivenUp(q)
      /\ source' \in 0 .. MaxEdits /\ changed' \in BOOLEAN
  BY <1>1, Unmoved DEF LateArrives, GivenUp
<1>3. r \in Request
  BY <1>1 DEF TypeInv
<1>4. CASE UNCHANGED serverVars
  BY <1>1, <1>2, <1>4, StillTyped, StillSame, ServerKeeps
<1>5. ASSUME r.op = "create", NEW s \in SessionIds, HandleCreate(r.key, s) PROVE RealtimeInv'
  <2>1. r.key \in Nat /\ r.key <= client.creation
    BY <1>1, <1>5, ClientTyped DEF ClientInv, SessionsUsed
  <2>2. PICK k \in Nat : k = r.key
    BY <2>1
  <2>3. ServerTyped
    BY <1>1, <1>5, <2>2, CreateTyped
  <2>4. SameServer \/ Appears(s, k)
    BY <1>1, <1>5, <2>2, CreateCases
  <2>5. QED
    BY <1>1, <1>2, <2>1, <2>2, <2>3, <2>4, ServerKeeps
<1>6. ASSUME r.op = "revision", HandleRevision(r.body) PROVE RealtimeInv'
  <2>1. PICK b \in Revision : b = r.body
    BY <1>3, <1>6, RequestFacts
  <2>2. b \in Requests
    BY <1>6, <2>1 DEF Requests, Bodies
  <2>3. CASE Verdict(b) = "accept"
    BY <1>1, <1>2, <1>6, <2>1, <2>2, <2>3, AcceptFacts, ServerKeeps
  <2>4. CASE Verdict(b) # "accept"
    BY <1>4, <1>6, <2>1, <2>4 DEF HandleRevision
  <2>5. QED
    BY <2>3, <2>4
<1>7. ASSUME r.op = "close", HandleClose(r.session) PROVE RealtimeInv'
  <2>1. PICK s \in SessionIds : s = r.session
    BY <1>3, <1>7, RequestFacts
  <2>2. ServerTyped /\ (SameServer \/ GoesAway(s))
    BY <1>1, <1>7, <2>1, CloseTyped, CloseCases
  <2>3. QED
    BY <1>2, <2>2, ServerKeeps
<1>8. QED
  BY <1>4, <1>5, <1>6, <1>7 DEF LateArrives

(* Workers, edits and lost or expired sessions. *)
LEMMA ServerStepsKeep ==
    ASSUME RealtimeInv,
           \/ ServerStep \/ Edit \/ CreateFailed
           \/ \E s \in SessionIds : LoseSession(s) \/ ExpireAbandoned(s)
    PROVE  RealtimeInv'
<1>1. TypeInv
  BY DEF RealtimeInv
<1>2. CASE ServerStep
  <2>1. PICK s \in SessionIds : TakeSession(s) \/ \E out \in {"succeeded", "failed"} : FinishSession(s, out)
    BY <1>2 DEF ServerStep
  <2>2. client' = client /\ published' = published /\ late' = late /\ UNCHANGED watchVars
    BY <2>1 DEF TakeSession, FinishSession
  <2>3. ServerTyped /\ SameServer
    BY <1>1, <2>1, ServerStepTyped, ServerStepSame
  <2>4. \A q \in late' : GivenUp(q)
    BY <2>2 DEF GivenUp
  <2>5. QED
    BY <1>1, <2>2, <2>3, <2>4, Unmoved, ServerKeeps
<1>3. CASE Edit
  <2>1. source' \in 0 .. MaxEdits
    <3>1. source \in 0 .. MaxEdits /\ source < MaxEdits /\ source' = source + 1
      BY <1>1, <1>3 DEF Edit, TypeInv
    <3>2. QED
      BY <3>1, RealtimeClientAssumption
  <2>2. changed' \in BOOLEAN /\ client' = client /\ published' = published /\ late' = late /\ UNCHANGED serverVars
    BY <1>3 DEF Edit
  <2>3. \A q \in late' : GivenUp(q)
    BY <2>2 DEF GivenUp
  <2>4. QED
    BY <1>1, <2>1, <2>2, <2>3, StillTyped, StillSame, ServerKeeps
<1>4. CASE CreateFailed
  <2>1. client' = client /\ published' = published /\ UNCHANGED watchVars /\ UNCHANGED serverVars
    BY <1>4 DEF CreateFailed
  <2>2. \A q \in late' : GivenUp(q)
    BY <1>4 DEF CreateFailed, MayArriveLate, GivenUp
  <2>3. QED
    BY <1>1, <2>1, <2>2, StillTyped, StillSame, Unmoved, ServerKeeps
<1>5. ASSUME NEW s \in SessionIds, LoseSession(s) \/ ExpireAbandoned(s) PROVE RealtimeInv'
  <2>1. client' = client /\ published' = published /\ late' = late /\ UNCHANGED watchVars /\ HandleClose(s)
    BY <1>5 DEF LoseSession, ExpireAbandoned
  <2>2. ServerTyped /\ (SameServer \/ GoesAway(s))
    BY <1>1, <2>1, CloseTyped, CloseCases
  <2>3. \A q \in late' : GivenUp(q)
    BY <2>1 DEF GivenUp
  <2>4. QED
    BY <1>1, <2>1, <2>2, <2>3, Unmoved, ServerKeeps
<1>6. QED
  BY <1>2, <1>3, <1>4, <1>5

(* Giving up a session. *)
LEMMA LeavingStepsKeep ==
    ASSUME RealtimeInv, SessionMissing \/ Stop \/ CloseAnswered \/ CloseFailed
    PROVE  RealtimeInv'
<1>1. TypeInv /\ RequestInv /\ ClientInv
  BY DEF RealtimeInv
<1>2. Leaves \/ Ends \/ Closes
  BY <1>1, LeaveFacts, CloseFacts DEF SessionMissing
<1>3. Run'.pending = NoRevision /\ client'.revisions = client.revisions
  BY <1>2, FreshTyped DEF Leaves, Ends, Closes
<1>4. \A q \in late' : GivenUp(q)
  <2>1. CASE SessionMissing \/ CloseAnswered
    BY <2>1 DEF SessionMissing, CloseAnswered, GivenUp
  <2>2. CASE CloseFailed
    <3>1. client.session \in SessionIds
      BY <1>1, <2>2 DEF CloseFailed, TypeInv, Places
    <3>2. QED
      BY <2>2, <3>1 DEF CloseFailed, MayArriveLate, GivenUp
  <2>3. CASE Stop
    <3>1. client.pc = "commit" => Run.pending # NoRevision
      BY <1>1 DEF TypeInv, Places, Run
    <3>2. CASE client.pc = "create"
      BY <2>3, <3>2 DEF Stop, MayArriveLate, GivenUp
    <3>3. CASE client.pc = "commit"
      BY <2>3, <3>1, <3>3 DEF Stop, MayArriveLate, GivenUp
    <3>4. CASE client.pc \notin {"create", "commit"}
      BY <2>3, <3>4 DEF Stop, GivenUp
    <3>5. QED
      BY <3>2, <3>3, <3>4
  <2>4. QED
    BY <2>1, <2>2, <2>3
<1>5. late' \subseteq Request /\ FewerRequests /\ NewCreations
  BY <1>1, <1>3, <1>4, LateFacts
<1>6. ServerTyped /\ (SameServer \/ \E s \in SessionIds : GoesAway(s))
  <2>1. CASE CloseAnswered
    <3>1. PICK s \in SessionIds : s = client.session
      BY <1>1, <2>1 DEF CloseAnswered, TypeInv, Places
    <3>2. HandleClose(s)
      BY <2>1, <3>1 DEF CloseAnswered
    <3>3. QED
      BY <1>1, <3>2, CloseTyped, CloseCases
  <2>2. CASE ~CloseAnswered
    <3>1. UNCHANGED serverVars
      BY <2>2 DEF SessionMissing, Stop, CloseFailed
    <3>2. QED
      BY <1>1, <3>1, StillTyped, StillSame
  <2>3. QED
    BY <2>1, <2>2
<1>7. UNCHANGED watchVars /\ published' = published
  BY DEF SessionMissing, Stop, CloseAnswered, CloseFailed
<1>8. TypeInv'
  BY <1>1, <1>2, <1>5, <1>6, <1>7, PlacesAfter, Unmoved, TypesFrom
<1>9. RequestInv'
  BY <1>1, <1>5, <1>6, SameKeeps, GoesAwayKeeps
<1>10. ClientInv'
  BY <1>1, <1>2, <1>5, <1>6, LeavingKeeps
<1>11. QED
  BY <1>8, <1>9, <1>10 DEF RealtimeInv

(* Entering a session: the client believes nothing of it yet. *)
LEMMA CreateAnsweredKeeps ==
    ASSUME RealtimeInv, NEW s \in SessionIds, CreateAnswered(s)
    PROVE  RealtimeInv'
<1>1. TypeInv /\ RequestInv /\ ClientInv
  BY DEF RealtimeInv
<1>2. Enters(s) /\ late' = late /\ UNCHANGED watchVars /\ published' = published /\ HandleCreate(client.creation, s)
  BY <1>1, EnterFacts DEF CreateAnswered
<1>3. Run'.pending = NoRevision /\ client'.revisions = client.revisions
  BY <1>2, FreshTyped DEF Enters
<1>4. \A q \in late' : GivenUp(q)
  BY <1>2 DEF GivenUp
<1>5. late' \subseteq Request /\ FewerRequests /\ NewCreations
  BY <1>1, <1>3, <1>4, LateFacts
<1>6. PICK k \in Nat : k = client.creation
  BY <1>1, ClientTyped
<1>7. ServerTyped /\ ((SameServer /\ Live(s) /\ sessions[s].key = k) \/ Appears(s, k))
  BY <1>1, <1>2, <1>6, CreateTyped, CreateCases
<1>8. TypeInv'
  BY <1>1, <1>2, <1>5, <1>7, PlacesAfter, Unmoved, TypesFrom
<1>9. RequestInv'
  BY <1>1, <1>5, <1>7, SameKeeps, AppearsKeeps
<1>10. ClientInv'
  BY <1>1, <1>2, <1>5, <1>6, <1>7, EnterKeeps
<1>11. QED
  BY <1>8, <1>9, <1>10 DEF RealtimeInv

(* A new revision has a new key and the current base. *)
LEMMA PrepareStepKeeps ==
    ASSUME RealtimeInv, Prepare
    PROVE  RealtimeInv'
<1>1. TypeInv /\ RequestInv /\ ClientInv
  BY DEF RealtimeInv
<1>2. Prepares /\ Live(client.session) /\ late' = late /\ UNCHANGED serverVars /\ UNCHANGED watchVars /\ published' = published
  BY <1>1, PrepareFacts DEF Prepare
<1>3. late' \subseteq Request
  BY <1>1, <1>2 DEF TypeInv
<1>4. TypeInv'
  BY <1>1, <1>2, <1>3, StillTyped, PlacesAfter, Unmoved, TypesFrom
<1>5. QED
  BY <1>1, <1>2, <1>4, PrepareKeeps DEF RealtimeInv

(* Once missing files are asked for, no capture is what was submitted      *)
(* last.                                                                   *)
LEMMA RecoverStepKeeps ==
    ASSUME RealtimeInv, Recover
    PROVE  RealtimeInv'
<1>1. TypeInv /\ RequestInv /\ ClientInv
  BY DEF RealtimeInv
<1>2. /\ Recovers /\ Places(client') /\ Refers(client') /\ client' \in Client
      /\ late' = late /\ UNCHANGED serverVars /\ UNCHANGED watchVars /\ published' = published
  BY <1>1, RecoverFacts DEF Recover, Recovers
<1>3. \A q \in late' : GivenUp(q)
  BY <1>2 DEF GivenUp
<1>4. late' \subseteq Request /\ FewerRequests /\ NewCreations
  BY <1>1, <1>2, <1>3, LateFacts DEF Recovers
<1>5. TypeInv'
  BY <1>1, <1>2, <1>4, StillTyped, Unmoved, TypesFrom
<1>6. QED
  BY <1>1, <1>2, <1>4, <1>5, StillSame, SameKeeps, RecoverKeeps DEF RealtimeInv

(* CommitRevision is answered: the revision is accepted, has a receipt, or  *)
(* the session is gone.                                                     *)
LEMMA CommitAnsweredKeeps ==
    ASSUME RealtimeInv, CommitAnswered
    PROVE  RealtimeInv'
<1>1. TypeInv /\ RequestInv /\ ClientInv
  BY DEF RealtimeInv
<1>2. PICK r \in Revision : r = Run.pending
  BY <1>1 DEF CommitAnswered, TypeInv, Places, Client, Locals, Run
<1>3. /\ client.pc = "commit" /\ Within(client) /\ r # NoRevision /\ r \in Requests /\ r.session = client.session
      /\ HandleRevision(r) /\ late' = late /\ UNCHANGED watchVars /\ published' = published
  BY <1>1, <1>2, Constants, ClientTyped DEF CommitAnswered, Within, TypeInv, Places, Run
<1>4. \A q \in late' : GivenUp(q)
  BY <1>3 DEF GivenUp
<1>5. CASE ~Live(client.session)
  <2>1. Verdict(r) = "gone"
    BY <1>3, <1>5 DEF Verdict
  <2>2. client' = Leave /\ UNCHANGED serverVars
    BY <1>2, <1>3, <2>1 DEF CommitAnswered, HandleRevision
  <2>3. Leaves
    BY <1>1, <1>3, <2>2, LeaveFacts
  <2>4. Run'.pending = NoRevision /\ client'.revisions = client.revisions
    BY <2>3, FreshTyped DEF Leaves
  <2>5. late' \subseteq Request /\ FewerRequests /\ NewCreations
    BY <1>1, <1>4, <2>4, LateFacts
  <2>6. TypeInv'
    BY <1>1, <1>3, <2>2, <2>3, <2>5, StillTyped, PlacesAfter, Unmoved, TypesFrom
  <2>7. QED
    BY <1>1, <2>2, <2>3, <2>5, <2>6, StillSame, SameKeeps, LeavingKeeps DEF RealtimeInv
<1>6. CASE Live(client.session)
  <2>1. Verdict(r) \in {"accept", "replay"}
    BY <1>1, <1>2, <1>3, <1>6, OpenRevision
  <2>2. client' = Accepted
    BY <1>2, <2>1 DEF CommitAnswered
  <2>3. IsAccepted
    BY <1>1, <1>3, <2>2, AcceptedFacts
  <2>4. Run'.pending = NoRevision /\ client'.revisions = client.revisions
    BY <2>3 DEF IsAccepted
  <2>5. late' \subseteq Request /\ FewerRequests /\ NewCreations
    BY <1>1, <1>4, <2>4, LateFacts
  <2>6. ServerTyped
    BY <1>1, <1>3, RevisionTyped
  <2>7. TypeInv'
    BY <1>1, <1>3, <2>3, <2>5, <2>6, PlacesAfter, Unmoved, TypesFrom
  <2>8. CASE Verdict(r) = "accept"
    <3>1. Accepts(r) /\ Live(r.session) /\ r.base = sessions[r.session].revision
      BY <1>1, <1>3, <2>8, AcceptFacts
    <3>2. RequestInv'
      BY <1>1, <1>3, <2>5, <3>1, AcceptKeeps
    <3>3. ClientInv'
      BY <1>1, <1>2, <1>3, <1>6, <2>3, <2>5, <2>8, <3>1, AcceptedKeeps
    <3>4. QED
      BY <2>7, <3>2, <3>3 DEF RealtimeInv
  <2>9. CASE Verdict(r) = "replay"
    <3>1. UNCHANGED serverVars
      BY <1>3, <2>9 DEF HandleRevision
    <3>2. RequestInv'
      BY <1>1, <2>5, <3>1, StillSame, SameKeeps
    <3>3. ClientInv'
      BY <1>1, <1>2, <1>6, <2>3, <2>5, <2>9, <3>1, AcceptedKeeps
    <3>4. QED
      BY <2>7, <3>2, <3>3 DEF RealtimeInv
  <2>10. QED
    BY <2>1, <2>8, <2>9
<1>7. QED
  BY <1>5, <1>6

(* The inductive invariant at the start. *)
LEMMA RealtimeInitially == Init => RealtimeInv
<1>1. SUFFICES ASSUME Init PROVE RealtimeInv
  OBVIOUS
<1>2. TypeInv
  BY <1>1, InitTypes
<1>3. client.pc = "create" /\ client.creation = 1 /\ Run.pending = NoRevision /\ late = {} /\ jobs = <<>> /\ DOMAIN jobs = {}
  BY <1>1 DEF Init, Outside, FreshLocals, Run
<1>4. LiveSessions = {}
  BY <1>1 DEF Init, NoSession, LiveSessions, Live
<1>5. Requests = {}
  BY <1>3 DEF Requests, Bodies
<1>6. RequestInv
  BY <1>3, <1>4, <1>5 DEF RequestInv, KeysUsed, Answered, Rows, Latests, RequestsNew, OneJobPerKey, NoRepeatedRevision
<1>7. ClientInv
  BY <1>3, <1>4, <1>5 DEF ClientInv, SessionsUsed, Agreement, Within
<1>8. QED
  BY <1>2, <1>6, <1>7 DEF RealtimeInv

(* One case per action. *)
LEMMA RealtimeStep == RealtimeInv /\ [Next]_vars => RealtimeInv'
<1>1. SUFFICES ASSUME RealtimeInv, [Next]_vars PROVE RealtimeInv'
  OBVIOUS
<1>2. CASE UNCHANGED vars
  BY <1>1, <1>2 DEF vars, RealtimeInv, TypeInv, References, ReceiptsBounded, ClientReferences, Refers, RequestInv, KeysUsed,
     Answered, Rows, Latests, LatestOf, RequestsNew, Newer, OneJobPerKey, NoRepeatedRevision, ClientInv, SessionsUsed,
     Used, Agreement, Agrees, Known, Current, OthersOld, Requests, Bodies, Born, Live, LiveSessions, Run
<1>3. CASE Next
  BY <1>1, <1>3, QuietStepsKeep, LateArrivesKeeps, ServerStepsKeep, LeavingStepsKeep, CreateAnsweredKeeps,
     PrepareStepKeeps, RecoverStepKeeps, CommitAnsweredKeeps DEF Next, ClientStep
<1>4. QED
  BY <1>1, <1>2, <1>3

(* The inductive invariant of client and server. *)
LEMMA RealtimeAlways == Spec => []RealtimeInv
BY RealtimeInitially, RealtimeStep, PTL DEF Spec

-----------------------------------------------------------------------------
(* The theorems. *)

(* Every variable of client and server keeps its type, and what refers to a *)
(* session or a job of the server refers to one that was made.              *)
THEOREM ClientTypeCorrect == Spec => []ClientTypeOK
<1>1. RealtimeInv => ClientTypeOK
  <2>1. SUFFICES ASSUME TypeInv, RequestInv, ClientInv PROVE ClientTypeOK
    BY DEF RealtimeInv
  <2>2. source \in 0 .. MaxEdits /\ changed \in BOOLEAN /\ \A r \in late : r \in Request
    BY <2>1 DEF TypeInv
  <2>3. /\ client.pc \in {"create", "loop", "freeze", "prepare", "commit", "publish", "diagnose", "close", "done"}
        /\ client.creation \in 1 .. MaxCreations /\ client.revisions \in 0 .. MaxRevisions
        /\ Run.pending \in Revision \cup {NoRevision} /\ Run.lastOk \in Nat /\ Run.latest \in Nat
    BY <2>1 DEF TypeInv, Client, ClientPC, Locals, Run
  <2>4. InSession => client.session \in SessionIds \ Unborn
    BY <2>1, ClientTyped DEF InSession, Within, ClientInv, SessionsUsed, Unborn, Born
  <2>5. Run.lastOk \in 0 .. Len(jobs) /\ Run.latest \in 0 .. Len(jobs) /\ published.job \in 0 .. Len(jobs)
    <3>1. Run.lastOk <= Len(jobs) /\ Run.latest <= Len(jobs) /\ published.job \in 0 .. Len(jobs) /\ Len(jobs) \in Nat
      BY <2>1 DEF TypeInv, ClientReferences, Refers, Run
    <3>2. QED
      BY <2>3, <3>1
  <2>6. \A s \in SessionIds :
          /\ sessions[s].status \in {"none", "live", "gone"}
          /\ {sessions[s].pending, sessions[s].running, sessions[s].lastOk, sessions[s].latest} \subseteq 0 .. Len(jobs)
          /\ Len(sessions[s].receipts) <= MaxSessionReceipts
    <3>1. SUFFICES ASSUME NEW s \in SessionIds
                   PROVE  /\ sessions[s].status \in {"none", "live", "gone"}
                          /\ {sessions[s].pending, sessions[s].running, sessions[s].lastOk, sessions[s].latest} \subseteq 0 .. Len(jobs)
                          /\ Len(sessions[s].receipts) <= MaxSessionReceipts
      OBVIOUS
    <3>2. sessions[s] \in SessionRecord /\ Len(jobs) \in Nat /\ Len(sessions[s].receipts) <= MaxSessionReceipts
          /\ sessions[s].pending <= Len(jobs) /\ sessions[s].running <= Len(jobs)
          /\ sessions[s].lastOk <= Len(jobs) /\ sessions[s].latest <= Len(jobs)
      BY <2>1 DEF TypeInv, References, ReceiptsBounded
    <3>3. /\ sessions[s].status \in {"none", "live", "gone"} /\ sessions[s].pending \in Nat /\ sessions[s].running \in Nat
          /\ sessions[s].lastOk \in Nat /\ sessions[s].latest \in Nat
      BY <3>2 DEF SessionRecord
    <3>4. QED
      BY <3>2, <3>3
  <2>7. \A j \in DOMAIN jobs : jobs[j].status \in {"queued", "running", "succeeded", "failed", "cancelled"}
    <3>1. \A j \in DOMAIN jobs : jobs[j] \in Row
      BY <2>1 DEF TypeInv
    <3>2. QED
      BY <3>1 DEF Row
  <2>8. QED
    BY <2>2, <2>3, <2>4, <2>5, <2>6, <2>7 DEF ClientTypeOK
<1>2. QED
  BY <1>1, RealtimeAlways, PTL

(* However often a prepared revision is sent again, and however late a copy *)
(* of it arrives, SubmitRevision makes at most one job of its key, for any  *)
(* number of receipts that are kept.                                        *)
THEOREM OneJobPerKeyHolds == Spec => []OneJobPerKey
<1>1. RealtimeInv => OneJobPerKey
  BY DEF RealtimeInv, RequestInv
<1>2. QED
  BY <1>1, RealtimeAlways, PTL

(* Successive revisions of a session differ in what they compile: a lost    *)
(* answer never makes the client submit the same files again.               *)
THEOREM NoRepeatedRevisionHolds == Spec => []NoRepeatedRevision
<1>1. RealtimeInv => NoRepeatedRevision
  BY DEF RealtimeInv, RequestInv
<1>2. QED
  BY <1>1, RealtimeAlways, PTL

(* The only client of a session never gets a revision conflict.             *)
THEOREM NoSelfConflictHolds == Spec => []NoSelfConflict
<1>1. RealtimeInv => NoSelfConflict
  <2>1. SUFFICES ASSUME TypeInv, RequestInv, ClientInv, Run.pending # NoRevision, InSession
                 PROVE  Verdict(Run.pending) # "conflict"
    BY DEF RealtimeInv, NoSelfConflict
  <2>2. Within(client) /\ Run.pending.session = client.session
    BY <2>1 DEF InSession, Within, TypeInv, Places, Run
  <2>3. CASE Live(client.session)
    BY <2>1, <2>2, <2>3, OpenRevision
  <2>4. CASE ~Live(client.session)
    BY <2>2, <2>4 DEF Verdict
  <2>5. QED
    BY <2>3, <2>4
<1>2. QED
  BY <1>1, RealtimeAlways, PTL

(* While no submission is open, the files the client compares the disk with *)
(* are those of the session's latest revision on the server.                *)
THEOREM ClientAgreesHolds == Spec => []ClientAgrees
<1>1. RealtimeInv => ClientAgrees
  BY DEF RealtimeInv, ClientInv, ClientAgrees, Agreement, Agrees, Known, InSession, Within
<1>2. QED
  BY <1>1, RealtimeAlways, PTL
=============================================================================
