----------------------------- MODULE ExportProofs -----------------------------
(***************************************************************************)
(* Publication of PDFs into the project: proofs of EditsKept, LatestKept   *)
(* and ExportsKnown, for any number of invocations, groups, destinations,  *)
(* edits, deletions and crashes.                                           *)
(*                                                                         *)
(* The lock leaves at most one invocation between TryLock and its return,  *)
(* so the manifests are its own while it prunes, and a destination holds   *)
(* an export it did not hold before only by its Write.  Hence what was     *)
(* protected when retention began is what is kept when a file is moved     *)
(* away, and an entry that retention forgets has lost its file, or the     *)
(* file is another export whose publication was cut off.                   *)
(***************************************************************************)
EXTENDS ExportHistory, SequenceTheorems, WellFoundedInduction, FiniteSetTheorems, TLAPS

-----------------------------------------------------------------------------
(* The invariant. *)

Pruning == {"pruning", "verified", "moved"}
Holding == {"locked", "staged", "written", "recorded"} \cup Pruning

(* Invocation without its bounds, and with the placeholders of Idle. *)
Locals == [pc: {"idle", "building", "built"} \cup Holding,
           group: Groups \cup {Idle.group}, path: Paths \cup {Idle.path}, content: Exports,
           rest: Seq(Entry), protect: SUBSET (Paths \X Content), moved: Content]

DistinctPaths(s) == \A m, n \in 1..Len(s) : s[m].path = s[n].path => m = n

Types ==
    /\ file \in [Paths -> Content \cup {Absent}]
    /\ history \in [Groups -> Seq(Entry)]
    /\ \A g \in Groups : DistinctPaths(history[g])
    /\ lock \in Invocations \cup {Nobody}
    /\ inv \in [Invocations -> Locals]
    /\ \A i \in Invocations : inv[i].pc # "idle" => inv[i].group \in Groups /\ inv[i].path \in Paths
    /\ exporters \in [Paths -> SUBSET Groups]
    /\ saves \in 0..MaxSaves

(* The lock: whoever is between TryLock and its return holds it. *)
Locked == \A i \in Invocations : inv[i].pc \in Holding => lock = i

(* A recorded destination was exported to by its group. *)
ByItsGroup == \A g \in Groups : \A n \in 1..Len(history[g]) : g \in exporters[history[g][n].path]

(* Between its two renames a publication finds the bytes it wrote, or the  *)
(* user has taken them away.                                               *)
WrittenHere(l) ==
    /\ l.group \in exporters[l.path]
    /\ \/ file[l.path] = l.content
       \/ <<l.path, l.content>> \in replaced /\ file[l.path] \notin Exports
Written == \A i \in Invocations : inv[i].pc = "written" => WrittenHere(inv[i])

(* Of a destination only one group has exported to, the manifest of that   *)
(* group has the bytes, unless the publication is at or was cut off before *)
(* its second rename.                                                      *)
InManifest(p, g) == \E n \in 1..Len(history[g]) : history[g][n] = [path |-> p, content |-> file[p]]
BeingWritten(p) == \E i \in Invocations : inv[i].pc = "written" /\ inv[i].path = p
Traced(p, g) == p \in interrupted \/ BeingWritten(p) \/ InManifest(p, g)
AllTraced == \A p \in Paths, g \in Groups : file[p] \in Exports /\ exporters[p] = {g} => Traced(p, g)

(* Retention under way. Its victims come from the part of the manifest     *)
(* that goes; what stays, here or with another group, is protected; and a  *)
(* file of an entry that has been dealt with is no export, or one that was *)
(* cut off.                                                                *)
Cut(l) == Len(history[l.group]) - KeepLast
KeptPath(l, p) ==
    \/ \E n \in Cut(l) + 1 .. Len(history[l.group]) : history[l.group][n].path = p
    \/ \E g \in Groups \ {l.group} : \E n \in 1..Len(history[g]) : history[g][n].path = p
Victims(l) ==
    /\ Cut(l) > 0
    /\ \A k \in 1..Len(l.rest) : \E n \in 1..Cut(l) : l.rest[k] = history[l.group][n]
    /\ DistinctPaths(l.rest)
ProtectedKept(l) ==
    /\ \A p \in Paths : KeptPath(l, p) /\ file[p] \in Exports => <<p, file[p]>> \in l.protect
    /\ \A x \in l.protect : KeptPath(l, x[1])
DealtWith(l) ==
    \A n \in 1..Cut(l) :
        LET p == history[l.group][n].path IN
        file[p] \in Exports /\ exporters[p] = {l.group}
            => p \in interrupted \/ \E k \in 1..Len(l.rest) : l.rest[k] = history[l.group][n]
(* The file RemoveVerified is at. *)
VictimSeen(l) ==
    LET v == l.rest[1] IN
    /\ l.pc \in {"verified", "moved"} => Len(l.rest) > 0
    /\ l.pc = "verified" => /\ <<v.path, v.content>> \notin l.protect
                            /\ file[v.path] \in Exports => file[v.path] = v.content
    /\ l.pc = "moved" => /\ l.moved \in Exports => l.moved = v.content
                         /\ file[v.path] \notin Exports
Retaining(l) == Victims(l) /\ ProtectedKept(l) /\ DealtWith(l) /\ VictimSeen(l)
Retention == \A i \in Invocations : inv[i].pc \in Pruning => Retaining(inv[i])

ExportInv ==
    /\ Types /\ Locked /\ ByItsGroup /\ Written /\ AllTraced /\ Retention
    /\ EditsKept /\ LatestKept

-----------------------------------------------------------------------------
(* Sequences of entries. *)

(* Every set of natural numbers that has a member has a least one. *)
LEMMA LeastNumber ==
    ASSUME NEW T, T \subseteq Nat, T # {}
    PROVE  \E x \in T : \A y \in T : x <= y
<1>1. PICK x \in T : \A y \in T : ~(<<y, x>> \in OpToRel(<, Nat))
  BY WFMin, NatLessThanWellFounded, Zenon
<1>2. ASSUME NEW y \in T PROVE x <= y
  <2>1. <<y, x>> \in Nat \X Nat
    OBVIOUS
  <2>2. ~(y < x)
    BY <1>1, <2>1, Zenon DEF OpToRel
  <2>. QED BY <2>2
<1>. QED BY <1>2

(* The loop of Publish computes what its definition says: by induction on  *)
(* the length there is a function that satisfies the recursion.            *)
Loop(s, p, f, N) ==
    f = [n \in 0..N |-> IF n = 0 THEN <<>> ELSE IF s[n].path # p THEN Append(f[n - 1], s[n]) ELSE f[n - 1]]

(* There is such a function for every length, by the least length that has *)
(* none.                                                                   *)
LEMMA LoopExists ==
    ASSUME NEW s, NEW p, NEW N \in Nat
    PROVE  \E f : Loop(s, p, f, N)
<1>. DEFINE T == {n \in Nat : ~\E f : Loop(s, p, f, n)}
<1>. SUFFICES ASSUME T # {} PROVE FALSE
  OBVIOUS
<1>1. PICK x \in T : \A y \in T : x <= y
  BY LeastNumber
<1>2. CASE x = 0
  <2>1. Loop(s, p, [n \in 0..0 |-> <<>>], 0)
    BY DEF Loop
  <2>. QED BY <1>2, <2>1
<1>3. CASE x # 0
  <2>1. x - 1 \in Nat /\ x - 1 \notin T
    BY <1>1, <1>3
  <2>2. PICK f : Loop(s, p, f, x - 1)
    BY <2>1
  <2>. DEFINE h == [n \in 0..x |-> IF n < x THEN f[n]
                                   ELSE IF s[n].path # p THEN Append(f[n - 1], s[n]) ELSE f[n - 1]]
  <2>3. \A n \in 0..x-1 : f[n] = IF n = 0 THEN <<>> ELSE IF s[n].path # p THEN Append(f[n - 1], s[n]) ELSE f[n - 1]
    BY <2>2 DEF Loop
  <2>4. \A n \in 0..x : h[n] = IF n = 0 THEN <<>> ELSE IF s[n].path # p THEN Append(h[n - 1], s[n]) ELSE h[n - 1]
    BY <2>3, <1>3
  <2>5. Loop(s, p, h, x)
    BY <2>4 DEF Loop
  <2>. QED BY <2>5
<1>. QED BY <1>2, <1>3

(* What the loop keeps: the entries of other paths, each once. *)
Keeps(s, p, N, w) ==
    /\ w \in Seq(Entry)
    /\ \A k \in 1..Len(w) : w[k].path # p /\ \E n \in 1..N : w[k] = s[n]
    /\ \A n \in 1..N : s[n].path # p => \E k \in 1..Len(w) : w[k] = s[n]
    /\ DistinctPaths(w)

(* One round of the loop. *)
LEMMA KeepsMore ==
    ASSUME NEW s \in Seq(Entry), DistinctPaths(s), NEW p, NEW N \in Nat, N + 1 <= Len(s), NEW w, Keeps(s, p, N, w)
    PROVE  Keeps(s, p, N + 1, IF s[N + 1].path # p THEN Append(w, s[N + 1]) ELSE w)
<1>. DEFINE e == s[N + 1]
<1>1. e \in Entry
  OBVIOUS
<1>2. CASE e.path # p
  <2>. DEFINE a == Append(w, e)
  <2>1. a \in Seq(Entry) /\ Len(a) = Len(w) + 1 /\ a[Len(w) + 1] = e /\ \A k \in 1..Len(w) : a[k] = w[k]
    BY <1>1 DEF Keeps
  <2>2. Len(w) \in Nat /\ w \in Seq(Entry)
    BY DEF Keeps
  <2>3. \A k \in 1..Len(a) : a[k].path # p /\ \E n \in 1..N+1 : a[k] = s[n]
    <3>. TAKE k \in 1..Len(a)
    <3>1. CASE k \in 1..Len(w)
      BY <3>1, <2>1 DEF Keeps
    <3>2. CASE k = Len(w) + 1
      BY <3>2, <2>1, <1>2
    <3>. QED BY <3>1, <3>2, <2>1, <2>2
  <2>4. \A n \in 1..N+1 : s[n].path # p => \E k \in 1..Len(a) : a[k] = s[n]
    <3>. SUFFICES ASSUME NEW n \in 1..N+1, s[n].path # p PROVE \E k \in 1..Len(a) : a[k] = s[n]
      OBVIOUS
    <3>1. CASE n = N + 1
      BY <3>1, <2>1, <2>2
    <3>2. CASE n # N + 1
      <4>1. PICK k \in 1..Len(w) : w[k] = s[n]
        BY <3>2 DEF Keeps
      <4>. QED BY <4>1, <2>1, <2>2
    <3>. QED BY <3>1, <3>2
  <2>5. \A k \in 1..Len(w) : w[k].path # e.path
    <3>. TAKE k \in 1..Len(w)
    <3>1. PICK n \in 1..N : w[k] = s[n]
      BY DEF Keeps
    <3>. QED BY <3>1 DEF DistinctPaths
  <2>6. DistinctPaths(a)
    <3>. SUFFICES ASSUME NEW j \in 1..Len(a), NEW k \in 1..Len(a), a[j].path = a[k].path PROVE j = k
      BY DEF DistinctPaths
    <3>1. CASE j \in 1..Len(w) /\ k \in 1..Len(w)
      BY <3>1, <2>1 DEF Keeps, DistinctPaths
    <3>2. CASE j = Len(w) + 1 /\ k \in 1..Len(w)
      BY <3>2, <2>1, <2>5
    <3>3. CASE k = Len(w) + 1 /\ j \in 1..Len(w)
      BY <3>3, <2>1, <2>5
    <3>. QED BY <3>1, <3>2, <3>3, <2>1, <2>2
  <2>. QED BY <1>2, <2>1, <2>3, <2>4, <2>6 DEF Keeps
<1>3. CASE e.path = p
  <2>1. \A n \in 1..N+1 : s[n].path # p => \E k \in 1..Len(w) : w[k] = s[n]
    <3>. SUFFICES ASSUME NEW n \in 1..N+1, s[n].path # p PROVE \E k \in 1..Len(w) : w[k] = s[n]
      OBVIOUS
    <3>1. n \in 1..N
      BY <1>3
    <3>. QED BY <3>1 DEF Keeps
  <2>2. \A k \in 1..Len(w) : w[k].path # p /\ \E n \in 1..N+1 : w[k] = s[n]
    BY DEF Keeps
  <2>. QED BY <1>3, <2>1, <2>2 DEF Keeps
<1>. QED BY <1>2, <1>3

(* The loop as a whole, by the least round that goes wrong. *)
LEMMA WithoutKeeps ==
    ASSUME NEW s \in Seq(Entry), DistinctPaths(s), NEW p
    PROVE  Keeps(s, p, Len(s), Without(s, p))
<1>. DEFINE f == CHOOSE g : Loop(s, p, g, Len(s))
<1>1. Len(s) \in Nat
  OBVIOUS
<1>2. Loop(s, p, f, Len(s))
  BY <1>1, LoopExists
<1>3. Without(s, p) = f[Len(s)]
  BY Zenon DEF Without, Loop
<1>. HIDE DEF f
<1>4. \A n \in 0..Len(s) : f[n] = IF n = 0 THEN <<>> ELSE IF s[n].path # p THEN Append(f[n - 1], s[n]) ELSE f[n - 1]
  BY <1>2 DEF Loop
<1>. DEFINE T == {n \in 0..Len(s) : ~Keeps(s, p, n, f[n])}
<1>5. T = {}
  <2>. SUFFICES ASSUME T # {} PROVE FALSE
    OBVIOUS
  <2>1. T \subseteq Nat
    OBVIOUS
  <2>2. PICK x \in T : \A y \in T : x <= y
    BY <2>1, LeastNumber
  <2>3. CASE x = 0
    <3>1. f[0] = <<>>
      BY <1>4, <1>1
    <3>2. Keeps(s, p, 0, <<>>)
      BY DEF Keeps, DistinctPaths
    <3>. QED BY <2>3, <3>1, <3>2
  <2>4. CASE x # 0
    <3>1. x - 1 \in 0..Len(s) /\ x - 1 \notin T
      BY <2>2, <2>4, <1>1
    <3>2. Keeps(s, p, x - 1, f[x - 1])
      BY <3>1
    <3>3. Keeps(s, p, (x - 1) + 1, IF s[(x - 1) + 1].path # p THEN Append(f[x - 1], s[(x - 1) + 1]) ELSE f[x - 1])
      BY <3>1, <3>2, <1>1, KeepsMore
    <3>4. (x - 1) + 1 = x
      BY <2>1
    <3>5. f[x] = IF s[x].path # p THEN Append(f[x - 1], s[x]) ELSE f[x - 1]
      BY <1>4, <2>4
    <3>. QED BY <3>3, <3>4, <3>5
  <2>. QED BY <2>3, <2>4
<1>6. Len(s) \notin T
  BY <1>5
<1>7. Len(s) \in 0..Len(s)
  BY <1>1
<1>. QED BY <1>3, <1>6, <1>7

-----------------------------------------------------------------------------
(* Locals, contents and the lock. *)

PCs == {"idle", "building", "built"} \cup Holding
Others(i) == \A j \in Invocations \ {i} : inv'[j] = inv[j]
Unmoved(a, b) ==
    /\ b.group = a.group /\ b.path = a.path /\ b.content = a.content
    /\ b.protect = a.protect

(* Exports, saves and the absence of a file differ. *)
LEMMA ContentKinds ==
    /\ 1 \in Exports /\ Exports \subseteq Content /\ Exports \subseteq Nat /\ Absent \notin Content
    /\ \A c \in Content : c \in Exports <=> c > 0
    /\ \A n \in 1..MaxSaves : 0 - n \in Content /\ 0 - n \notin Exports /\ 0 - n # Absent
    /\ MaxSaves \in Nat /\ KeepLast \in Nat /\ KeepLast > 0
BY ExportAssumption, SMT DEF ExportAssumption, Exports, Content, Saves, Absent

(* The placeholders of an invocation that has ended. *)
LEMMA IdleTyped == Idle \in Locals /\ Idle.pc = "idle"
<1>1. Idle.pc = "idle" /\ Idle.content = 1 /\ Idle.rest = <<>> /\ Idle.protect = {} /\ Idle.moved = 1
  BY DEF Idle
<1>2. Idle = [pc |-> Idle.pc, group |-> Idle.group, path |-> Idle.path, content |-> Idle.content,
              rest |-> Idle.rest, protect |-> Idle.protect, moved |-> Idle.moved]
  BY DEF Idle
<1>3. <<>> \in Seq(Entry) /\ {} \in SUBSET (Paths \X Content) /\ 1 \in Exports /\ 1 \in Content
  BY ContentKinds
<1>. HIDE DEF Idle
<1>. QED BY <1>1, <1>2, <1>3 DEF Locals

(* Going on to the next place. *)
LEMMA GotoIs ==
    ASSUME inv \in [Invocations -> Locals], NEW i \in Invocations, NEW place \in PCs,
           inv' = [inv EXCEPT ![i].pc = place]
    PROVE  /\ inv' \in [Invocations -> Locals] /\ Others(i)
           /\ inv'[i].pc = place /\ Unmoved(inv[i], inv'[i])
           /\ inv'[i].rest = inv[i].rest /\ inv'[i].moved = inv[i].moved
<1>1. inv[i] \in Locals
  OBVIOUS
<1>2. [inv[i] EXCEPT !.pc = place] \in Locals
  BY <1>1 DEF Locals, PCs
<1>. QED BY <1>1, <1>2 DEF Others, Unmoved, Locals

(* Ending an invocation. *)
LEMMA ReturnIs ==
    ASSUME inv \in [Invocations -> Locals], NEW i \in Invocations, Return(i)
    PROVE  /\ inv' \in [Invocations -> Locals] /\ Others(i) /\ inv'[i].pc = "idle"
           /\ lock' = IF lock = i THEN Nobody ELSE lock
<1>. HIDE DEF Idle
<1>. QED BY IdleTyped DEF Return, Others

(* Going on to the next victim. *)
LEMMA NextVictimIs ==
    ASSUME inv \in [Invocations -> Locals], NEW i \in Invocations, inv' = NextVictim(i), inv[i].rest # <<>>
    PROVE  /\ inv' \in [Invocations -> Locals] /\ Others(i)
           /\ inv'[i].pc = "pruning" /\ Unmoved(inv[i], inv'[i])
           /\ inv'[i].rest = Tail(inv[i].rest)
<1>1. inv[i] \in Locals /\ inv[i].rest \in Seq(Entry)
  BY DEF Locals
<1>2. Tail(inv[i].rest) \in Seq(Entry)
  BY <1>1
<1>3. inv' = [inv EXCEPT ![i] = [[inv[i] EXCEPT !.pc = "pruning"] EXCEPT !.rest = Tail(inv[i].rest)]]
  BY <1>1 DEF NextVictim, Locals
<1>4. [[inv[i] EXCEPT !.pc = "pruning"] EXCEPT !.rest = Tail(inv[i].rest)] \in Locals
  BY <1>1, <1>2 DEF Locals, Holding, Pruning
<1>. QED BY <1>1, <1>3, <1>4 DEF Others, Unmoved, Locals

(* The lock and the destinations after a step of one invocation. *)
LEMMA LockKept ==
    ASSUME Types, Locked, NEW i \in Invocations, Others(i), inv' \in [Invocations -> Locals],
           \/ lock' = lock /\ (inv'[i].pc \in Holding => inv[i].pc \in Holding)
           \/ lock' = i /\ lock = Nobody
           \/ lock' = (IF lock = i THEN Nobody ELSE lock) /\ inv'[i].pc = "idle"
    PROVE  lock' \in Invocations \cup {Nobody} /\ Locked'
<1>1. Nobody \notin Invocations /\ "idle" \notin Holding
  BY ExportAssumption DEF ExportAssumption, Holding, Pruning
<1>. QED BY <1>1 DEF Types, Locked, Others

(* Nobody else is past TryLock. *)
LEMMA Alone ==
    ASSUME Locked, NEW i \in Invocations, inv[i].pc \in Holding, NEW j \in Invocations \ {i}
    PROVE  inv[j].pc \notin Holding
BY DEF Locked

-----------------------------------------------------------------------------
(* Steps that leave files, manifests and what is known of them alone. *)

Frame == UNCHANGED <<file, quarantine, history, replaced, exporters, saves>>

(* The invocations that go on see what they saw. *)
LEMMA FrameKeeps ==
    ASSUME ExportInv, NEW i \in Invocations, Others(i), Frame, interrupted \subseteq interrupted',
           inv'[i].pc # "written", inv'[i].pc \in Pruning => Retaining(inv[i])',
           inv[i].pc = "written" => inv[i].path \in interrupted'
    PROVE  ByItsGroup' /\ Written' /\ AllTraced' /\ Retention' /\ EditsKept' /\ LatestKept'
<1>1. ByItsGroup' /\ EditsKept' /\ LatestKept'
  BY DEF ExportInv, ByItsGroup, EditsKept, LatestKept, Frame
<1>2. Written'
  <2>. SUFFICES ASSUME NEW j \in Invocations, inv'[j].pc = "written" PROVE WrittenHere(inv[j])'
    BY DEF Written
  <2>1. j # i /\ inv'[j] = inv[j]
    BY DEF Others
  <2>. QED BY <2>1 DEF ExportInv, Written, WrittenHere, Frame
<1>3. AllTraced'
  <2>. SUFFICES ASSUME NEW p \in Paths, NEW g \in Groups, file'[p] \in Exports, exporters'[p] = {g}
                PROVE  Traced(p, g)'
    BY DEF AllTraced
  <2>1. Traced(p, g)
    BY DEF ExportInv, AllTraced, Frame
  <2>2. CASE p \in interrupted \/ InManifest(p, g)
    BY <2>2 DEF Traced, InManifest, Frame
  <2>3. CASE BeingWritten(p)
    <3>1. PICK j \in Invocations : inv[j].pc = "written" /\ inv[j].path = p
      BY <2>3 DEF BeingWritten
    <3>2. CASE j = i
      BY <3>1, <3>2 DEF Traced
    <3>3. CASE j # i
      BY <3>1, <3>3 DEF Traced, BeingWritten, Others
    <3>. QED BY <3>2, <3>3
  <2>. QED BY <2>1, <2>2, <2>3 DEF Traced
<1>4. Retention'
  <2>. SUFFICES ASSUME NEW j \in Invocations, inv'[j].pc \in Pruning, j # i PROVE Retaining(inv[j])'
    BY DEF Retention
  <2>1. inv'[j] = inv[j] /\ Retaining(inv[j])
    BY DEF Others, ExportInv, Retention
  <2>2. Victims(inv[j])' /\ ProtectedKept(inv[j])' /\ VictimSeen(inv[j])'
    BY <2>1 DEF Retaining, Victims, ProtectedKept, VictimSeen, Frame, Cut, KeptPath
  <2>3. DealtWith(inv[j])'
    BY <2>1 DEF Retaining, DealtWith, Frame, Cut
  <2>. QED BY <2>2, <2>3 DEF Retaining
<1>. QED BY <1>1, <1>2, <1>3, <1>4

(* The types, when files and manifests stay. *)
LEMMA FrameTypes ==
    ASSUME ExportInv, NEW i \in Invocations, Others(i), Frame, inv' \in [Invocations -> Locals],
           lock' \in Invocations \cup {Nobody},
           inv'[i].pc # "idle" => inv'[i].group \in Groups /\ inv'[i].path \in Paths
    PROVE  Types'
BY DEF ExportInv, Types, Others, Frame, DistinctPaths

(* An invocation that ends, anywhere but between its two renames. *)
LEMMA ReturnKeeps ==
    ASSUME ExportInv, NEW i \in Invocations, Return(i), Frame, interrupted \subseteq interrupted',
           inv[i].pc = "written" => inv[i].path \in interrupted'
    PROVE  ExportInv'
<1>1. Types /\ Locked /\ inv \in [Invocations -> Locals]
  BY DEF ExportInv, Types
<1>2. /\ inv' \in [Invocations -> Locals] /\ Others(i) /\ inv'[i].pc = "idle"
      /\ lock' = IF lock = i THEN Nobody ELSE lock
  BY <1>1, ReturnIs
<1>3. lock' \in Invocations \cup {Nobody} /\ Locked'
  BY <1>1, <1>2, LockKept
<1>4. Types'
  BY <1>2, <1>3, FrameTypes
<1>5. ByItsGroup' /\ Written' /\ AllTraced' /\ Retention' /\ EditsKept' /\ LatestKept'
  BY <1>2, FrameKeeps DEF Pruning
<1>. QED BY <1>3, <1>4, <1>5 DEF ExportInv

(* An invocation that goes on towards its first rename. *)
LEMMA GoesOnKeeps ==
    ASSUME ExportInv, NEW i \in Invocations, Frame, interrupted' = interrupted,
           inv' \in [Invocations -> Locals], Others(i),
           inv[i].pc # "written", inv'[i].pc \notin Pruning \cup {"idle", "written"},
           inv'[i].group \in Groups /\ inv'[i].path \in Paths,
           \/ lock' = lock /\ (inv'[i].pc \in Holding => inv[i].pc \in Holding)
           \/ lock' = i /\ lock = Nobody
    PROVE  ExportInv'
<1>1. Types /\ Locked
  BY DEF ExportInv
<1>3. lock' \in Invocations \cup {Nobody} /\ Locked'
  BY <1>1, LockKept
<1>4. Types'
  BY <1>3, FrameTypes
<1>5. ByItsGroup' /\ Written' /\ AllTraced' /\ Retention' /\ EditsKept' /\ LatestKept'
  BY FrameKeeps
<1>. QED BY <1>3, <1>4, <1>5 DEF ExportInv

(* Building, locking and staging. *)
LEMMA PreparationKeeps ==
    ASSUME ExportInv, NEW i \in Invocations,
           Begin(i) \/ Download(i) \/ BuildFails(i) \/ TryLock(i) \/ StageHistory(i) \/ StageFails(i) \/ WriteRefused(i)
    PROVE  ExportInv'
<1>1. Types /\ inv \in [Invocations -> Locals] /\ inv[i] \in Locals
      /\ (inv[i].pc # "idle" => inv[i].group \in Groups /\ inv[i].path \in Paths)
  BY DEF ExportInv, Types
<1>2. CASE Begin(i)
  <2>1. PICK g \in Groups, p \in Paths :
            inv' = [inv EXCEPT ![i] = [Idle EXCEPT !.pc = "building", !.group = g, !.path = p]]
    BY <1>2 DEF Begin
  <2>. DEFINE l == [Idle EXCEPT !.pc = "building", !.group = g, !.path = p]
  <2>2. l \in Locals /\ l.pc = "building" /\ l.group = g /\ l.path = p
    <3>. HIDE DEF Idle
    <3>. QED BY IdleTyped DEF Locals
  <2>3. inv' \in [Invocations -> Locals] /\ Others(i) /\ inv'[i] = l
    <3>. HIDE DEF l
    <3>. QED BY <1>1, <2>1, <2>2 DEF Others, l
  <2>. HIDE DEF l
  <2>. QED BY <1>2, <2>2, <2>3, GoesOnKeeps DEF Begin, Frame, ghostVars, At, Holding, Pruning
<1>3. CASE Download(i)
  <2>1. PICK c \in Exports : inv' = [inv EXCEPT ![i].pc = "built", ![i].content = c]
    BY <1>3 DEF Download
  <2>. DEFINE l == [[inv[i] EXCEPT !.pc = "built"] EXCEPT !.content = c]
  <2>2. l \in Locals /\ l.pc = "built" /\ l.group = inv[i].group /\ l.path = inv[i].path
    BY <1>1 DEF Locals
  <2>3. inv' = [inv EXCEPT ![i] = l]
    BY <1>1, <2>1 DEF Locals
  <2>. HIDE DEF l
  <2>4. inv' \in [Invocations -> Locals] /\ Others(i) /\ inv'[i] = l
    BY <1>1, <2>2, <2>3 DEF Others
  <2>. QED BY <1>1, <1>3, <2>2, <2>4, GoesOnKeeps DEF Download, Frame, ghostVars, boundVars, At, Holding, Pruning
<1>4. CASE Return(i) /\ Frame /\ interrupted' = interrupted /\ inv[i].pc # "written"
  BY <1>4, ReturnKeeps
<1>5. CASE TryLock(i) /\ ~Return(i)
  <2>1. Goto(i, "locked") /\ lock' = i /\ lock = Nobody
    BY <1>5 DEF TryLock, LockFree
  <2>2. inv' \in [Invocations -> Locals] /\ Others(i) /\ inv'[i].pc = "locked" /\ Unmoved(inv[i], inv'[i])
    BY <1>1, <2>1, GotoIs DEF Goto, PCs, Holding
  <2>. QED BY <1>1, <1>5, <2>1, <2>2, GoesOnKeeps DEF TryLock, Frame, ghostVars, boundVars, At, Unmoved, Holding, Pruning
<1>6. CASE StageHistory(i)
  <2>1. Goto(i, "staged")
    BY <1>6 DEF StageHistory
  <2>2. inv' \in [Invocations -> Locals] /\ Others(i) /\ inv'[i].pc = "staged" /\ Unmoved(inv[i], inv'[i])
    BY <1>1, <2>1, GotoIs DEF Goto, PCs, Holding
  <2>. QED BY <1>1, <1>6, <2>2, GoesOnKeeps DEF StageHistory, Frame, ghostVars, boundVars, At, Unmoved, Holding, Pruning
<1>7. (BuildFails(i) \/ StageFails(i) \/ WriteRefused(i) \/ (TryLock(i) /\ Return(i)))
        => Return(i) /\ Frame /\ interrupted' = interrupted /\ inv[i].pc # "written"
  BY DEF BuildFails, StageFails, WriteRefused, TryLock, At, Frame, ghostVars, boundVars
<1>. QED BY <1>2, <1>3, <1>4, <1>5, <1>6, <1>7

-----------------------------------------------------------------------------
(* Files that change. *)

NoNewExport == \A q \in Paths : file'[q] \in Exports => file'[q] = file[q]

(* What is overwritten or deleted by right is remembered as such. *)
LEMMA Overwritten ==
    ASSUME Types, NEW p \in Paths, NEW new, file' = [file EXCEPT ![p] = new], replaced' = Replaced(p, new),
           NEW q \in Paths, NEW c \in Content, file[q] = c \/ <<q, c>> \in replaced
    PROVE  file'[q] = c \/ <<q, c>> \in replaced'
BY SMT DEF Types, Replaced

(* Retention sees no export that it had not seen. *)
LEMMA RetainingStays ==
    ASSUME ExportInv, NEW j \in Invocations, inv[j].pc \in Pruning, inv'[j] = inv[j], NoNewExport,
           UNCHANGED <<history, exporters>>, interrupted \subseteq interrupted'
    PROVE  Retaining(inv[j])'
<1>1. Retaining(inv[j]) /\ Types /\ inv[j] \in Locals
  BY DEF ExportInv, Retention, Types
<1>2. inv[j].group \in Groups /\ inv[j].rest \in Seq(Entry)
  BY <1>1 DEF Types, Locals, Pruning
<1>3. history[inv[j].group] \in Seq(Entry) /\ KeepLast \in Nat /\ KeepLast > 0
  BY <1>1, <1>2, ContentKinds DEF Types
<1>4. Victims(inv[j])'
  BY <1>1 DEF Retaining, Victims, Cut
<1>5. ProtectedKept(inv[j])'
  BY <1>1 DEF Retaining, ProtectedKept, KeptPath, Cut, NoNewExport
<1>6. DealtWith(inv[j])'
  <2>. SUFFICES ASSUME NEW n \in 1..Cut(inv[j]), file'[history[inv[j].group][n].path] \in Exports,
                       exporters[history[inv[j].group][n].path] = {inv[j].group}
                PROVE  \/ history[inv[j].group][n].path \in interrupted'
                       \/ \E k \in 1..Len(inv[j].rest) : inv[j].rest[k] = history[inv[j].group][n]
    BY DEF DealtWith, Cut
  <2>1. history[inv[j].group][n] \in Entry
    BY <1>3 DEF Cut
  <2>2. history[inv[j].group][n].path \in Paths
    BY <2>1 DEF Entry
  <2>. QED BY <1>1, <2>2 DEF Retaining, DealtWith, NoNewExport
<1>7. VictimSeen(inv[j])'
  <2>1. inv[j].pc \in {"verified", "moved"} => inv[j].rest[1] \in Entry
    BY <1>1, <1>2 DEF Retaining, VictimSeen
  <2>. QED BY <1>1, <2>1 DEF Retaining, VictimSeen, NoNewExport, Entry
<1>. QED BY <1>4, <1>5, <1>6, <1>7 DEF Retaining

(* A change by the user. *)
LEMMA UserKeeps ==
    ASSUME ExportInv, NEW p \in Paths, UserSave(p) \/ UserDelete(p)
    PROVE  ExportInv'
<1>1. Types /\ file \in [Paths -> Content \cup {Absent}] /\ saves \in 0..MaxSaves
  BY DEF ExportInv, Types
<1>2. PICK new : file' = [file EXCEPT ![p] = new] /\ replaced' = Replaced(p, new)
                 /\ new \in (Content \cup {Absent}) \ Exports
                 /\ (saves' = saves \/ (saves' = saves + 1 /\ saves' \in 0..MaxSaves /\ new = 0 - saves'))
  <2>1. CASE UserSave(p)
    <3>1. saves + 1 \in 1..MaxSaves
      BY <1>1, <2>1, ContentKinds DEF UserSave
    <3>2. file' = [file EXCEPT ![p] = 0 - (saves + 1)] /\ replaced' = Replaced(p, 0 - (saves + 1)) /\ saves' = saves + 1
      BY <2>1 DEF UserSave
    <3>3. 0 - (saves + 1) \in (Content \cup {Absent}) \ Exports /\ saves' \in 0..MaxSaves
      BY <3>1, <3>2, ContentKinds
    <3>. HIDE DEF Replaced
    <3>. QED BY <3>2, <3>3
  <2>2. CASE UserDelete(p)
    BY <2>2, ContentKinds DEF UserDelete
  <2>. QED BY <2>1, <2>2
<1>3. UNCHANGED <<quarantine, history, lock, output, inv, interrupted, exporters>>
  BY DEF UserSave, UserDelete
<1>4. NoNewExport /\ file' \in [Paths -> Content \cup {Absent}] /\ file'[p] = new
  BY <1>1, <1>2 DEF NoNewExport
<1>5. Types' /\ Locked' /\ ByItsGroup'
  BY <1>1, <1>2, <1>3, <1>4 DEF ExportInv, Types, Locked, ByItsGroup, DistinctPaths
<1>6. \A q \in Paths, c \in Content : file[q] = c \/ <<q, c>> \in replaced => file'[q] = c \/ <<q, c>> \in replaced'
  BY <1>1, <1>2, Overwritten
<1>7. Written'
  <2>. SUFFICES ASSUME NEW j \in Invocations, inv[j].pc = "written" PROVE WrittenHere(inv[j])'
    BY <1>3 DEF Written
  <2>1. WrittenHere(inv[j]) /\ inv[j].path \in Paths /\ inv[j].content \in Exports
    BY <1>1 DEF ExportInv, Written, Types, Locals
  <2>2. \/ file'[inv[j].path] = inv[j].content
        \/ <<inv[j].path, inv[j].content>> \in replaced'
    BY <1>6, <2>1, ContentKinds DEF WrittenHere
  <2>3. file'[inv[j].path] \in Exports => file'[inv[j].path] = inv[j].content
    BY <1>4, <2>1 DEF WrittenHere, NoNewExport
  <2>. QED BY <1>3, <2>1, <2>2, <2>3 DEF WrittenHere
<1>8. AllTraced'
  <2>. SUFFICES ASSUME NEW q \in Paths, NEW g \in Groups, file'[q] \in Exports, exporters[q] = {g}
                PROVE  Traced(q, g)'
    BY <1>3 DEF AllTraced
  <2>1. file'[q] = file[q]
    BY <1>4 DEF NoNewExport
  <2>2. Traced(q, g)
    BY <2>1 DEF ExportInv, AllTraced
  <2>. QED BY <1>3, <2>1, <2>2 DEF Traced, BeingWritten, InManifest
<1>9. Retention'
  BY <1>3, <1>4, RetainingStays DEF Retention
<1>10. EditsKept'
  <2>. SUFFICES ASSUME NEW n \in 1..saves'
                PROVE  \E q \in Paths : <<q, 0 - n>> \in replaced' \cup quarantine' \/ file'[q] = 0 - n
    BY DEF EditsKept
  <2>1. CASE n \in 1..saves
    <3>1. PICK q \in Paths : <<q, 0 - n>> \in replaced \cup quarantine \/ file[q] = 0 - n
      BY <2>1 DEF ExportInv, EditsKept
    <3>2. 0 - n \in Content
      BY <1>1, <2>1, ContentKinds
    <3>. QED BY <1>3, <1>6, <3>1, <3>2
  <2>2. CASE n \notin 1..saves
    <3>1. n = saves' /\ file'[p] = 0 - n
      BY <1>1, <1>2, <1>4, <2>2
    <3>. QED BY <3>1
  <2>. QED BY <2>1, <2>2
<1>11. LatestKept'
  <2>. SUFFICES ASSUME NEW g \in Groups, history[g] # <<>>
                PROVE  LET e == Last(history[g]) IN file'[e.path] = e.content \/ <<e.path, e.content>> \in replaced'
    BY <1>3 DEF LatestKept
  <2>1. Last(history[g]) \in Entry
    BY <1>1 DEF Types, Last
  <2>. QED BY <1>6, <2>1, ContentKinds DEF ExportInv, LatestKept, Entry
<1>. QED BY <1>5, <1>7, <1>8, <1>9, <1>10, <1>11 DEF ExportInv

-----------------------------------------------------------------------------
(* Publication. *)

(* The first rename. *)
LEMMA WriteKeeps ==
    ASSUME ExportInv, NEW i \in Invocations, Write(i)
    PROVE  ExportInv'
<1>. DEFINE p == inv[i].path
            c == inv[i].content
            h == inv[i].group
<1>1. Types /\ inv[i] \in Locals /\ inv[i].pc = "staged" /\ p \in Paths /\ h \in Groups /\ c \in Exports
  BY DEF ExportInv, Types, Locals, Write, At
<1>2. /\ file' = [file EXCEPT ![p] = c] /\ replaced' = Replaced(p, c)
      /\ exporters' = [exporters EXCEPT ![p] = @ \cup {h}]
      /\ UNCHANGED <<quarantine, history, lock, interrupted, saves>>
  BY DEF Write, CopyVerified, boundVars
<1>3. /\ inv' \in [Invocations -> Locals] /\ Others(i)
      /\ inv'[i].pc = "written" /\ Unmoved(inv[i], inv'[i])
  <2>1. inv' = [inv EXCEPT ![i].pc = "written"]
    BY DEF Write, Goto
  <2>. QED BY <1>1, <2>1, GotoIs DEF Types, PCs, Holding
<1>4. Types'
  <2>1. file' \in [Paths -> Content \cup {Absent}] /\ exporters' \in [Paths -> SUBSET Groups]
    BY <1>1, <1>2, ContentKinds DEF Types
  <2>. QED BY <1>1, <1>2, <1>3, <2>1 DEF Types, Others, Unmoved, DistinctPaths
<1>5. Locked'
  BY <1>1, <1>2, <1>3, LockKept DEF ExportInv, Holding, Types
<1>6. \A j \in Invocations \ {i} : inv'[j] = inv[j] /\ inv[j].pc \notin Holding
  BY <1>1, <1>3, Alone DEF ExportInv, Others, Holding
<1>7. ByItsGroup'
  <2>. SUFFICES ASSUME NEW g \in Groups, NEW n \in 1..Len(history[g]) PROVE g \in exporters'[history[g][n].path]
    BY <1>2 DEF ByItsGroup
  <2>1. g \in exporters[history[g][n].path] /\ history[g][n] \in Entry
    BY <1>1 DEF ExportInv, ByItsGroup, Types
  <2>2. history[g][n].path \in Paths
    BY <2>1 DEF Entry
  <2>. QED BY <1>1, <1>2, <2>1, <2>2 DEF Types
<1>8. Written'
  <2>1. WrittenHere(inv[i])'
    BY <1>1, <1>2, <1>3 DEF WrittenHere, Unmoved, Types
  <2>. QED BY <1>6, <2>1 DEF Written, Holding
<1>9. AllTraced'
  <2>. SUFFICES ASSUME NEW q \in Paths, NEW g \in Groups, file'[q] \in Exports, exporters'[q] = {g}
                PROVE  Traced(q, g)'
    BY DEF AllTraced
  <2>1. CASE q = p
    BY <1>3, <2>1 DEF Traced, BeingWritten, Unmoved
  <2>2. CASE q # p
    <3>1. file'[q] = file[q] /\ exporters'[q] = exporters[q]
      BY <1>1, <1>2, <2>2 DEF Types
    <3>2. Traced(q, g)
      BY <3>1 DEF ExportInv, AllTraced
    <3>3. ~BeingWritten(q)
      BY <1>1, <1>6 DEF BeingWritten, Holding
    <3>. QED BY <1>2, <3>1, <3>2, <3>3 DEF Traced, InManifest
  <2>. QED BY <2>1, <2>2
<1>10. Retention'
  BY <1>3, <1>6 DEF Retention, Holding, Pruning
<1>11. \A q \in Paths, d \in Content : file[q] = d \/ <<q, d>> \in replaced => file'[q] = d \/ <<q, d>> \in replaced'
  BY <1>1, <1>2, Overwritten
<1>12. EditsKept'
  <2>. SUFFICES ASSUME NEW n \in 1..saves
                PROVE  \E q \in Paths : <<q, 0 - n>> \in replaced' \cup quarantine \/ file'[q] = 0 - n
    BY <1>2 DEF EditsKept
  <2>1. PICK q \in Paths : <<q, 0 - n>> \in replaced \cup quarantine \/ file[q] = 0 - n
    BY DEF ExportInv, EditsKept
  <2>2. 0 - n \in Content
    BY <1>1, ContentKinds DEF Types
  <2>. QED BY <1>11, <2>1, <2>2
<1>13. LatestKept'
  <2>. SUFFICES ASSUME NEW g \in Groups, history[g] # <<>>
                PROVE  LET e == Last(history[g]) IN file'[e.path] = e.content \/ <<e.path, e.content>> \in replaced'
    BY <1>2 DEF LatestKept
  <2>1. Last(history[g]) \in Entry
    BY <1>1 DEF Types, Last
  <2>. QED BY <1>11, <2>1, ContentKinds DEF ExportInv, LatestKept, Entry
<1>. QED BY <1>4, <1>5, <1>7, <1>8, <1>9, <1>10, <1>12, <1>13 DEF ExportInv

(* The second rename: the manifest gets the entry as its last, and keeps   *)
(* those of the other destinations.                                        *)
LEMMA RecordKeeps ==
    ASSUME ExportInv, NEW i \in Invocations, Record(i)
    PROVE  ExportInv'
<1>. DEFINE p == inv[i].path
            c == inv[i].content
            h == inv[i].group
            w == Without(history[h], p)
            e == [path |-> p, content |-> c]
            a == Append(w, e)
<1>1. /\ Types /\ inv[i] \in Locals /\ inv[i].pc = "written" /\ p \in Paths /\ h \in Groups /\ c \in Exports
      /\ history[h] \in Seq(Entry) /\ DistinctPaths(history[h])
  BY DEF ExportInv, Types, Locals, Record, At
<1>2. /\ history' = [history EXCEPT ![h] = a] /\ interrupted' = interrupted \ {p}
      /\ UNCHANGED <<file, quarantine, lock, replaced, exporters, saves>>
  BY DEF Record, Appended, boundVars
<1>3. /\ inv' \in [Invocations -> Locals] /\ Others(i)
      /\ inv'[i].pc = "recorded" /\ Unmoved(inv[i], inv'[i])
  <2>1. inv' = [inv EXCEPT ![i].pc = "recorded"]
    BY DEF Record, Goto
  <2>. QED BY <1>1, <2>1, GotoIs DEF Types, PCs, Holding
<1>4. Keeps(history[h], p, Len(history[h]), w)
  BY <1>1, WithoutKeeps
<1>5. e \in Entry /\ e.path = p /\ e.content = c
  BY <1>1 DEF Entry
<1>6. w \in Seq(Entry) /\ Len(w) \in Nat
  BY <1>4 DEF Keeps
<1>. HIDE DEF w, e
<1>7. a \in Seq(Entry) /\ Len(a) = Len(w) + 1 /\ a[Len(w) + 1] = e /\ \A k \in 1..Len(w) : a[k] = w[k]
  BY <1>5, <1>6
<1>8. DistinctPaths(a)
  <2>. SUFFICES ASSUME NEW m \in 1..Len(a), NEW n \in 1..Len(a), a[m].path = a[n].path PROVE m = n
    BY DEF DistinctPaths
  <2>1. \A k \in 1..Len(w) : w[k].path # p
    BY <1>4 DEF Keeps
  <2>2. CASE m \in 1..Len(w) /\ n \in 1..Len(w)
    BY <1>4, <1>7, <2>2 DEF Keeps, DistinctPaths
  <2>3. CASE m = Len(w) + 1 /\ n \in 1..Len(w)
    BY <1>5, <1>7, <2>1, <2>3
  <2>4. CASE n = Len(w) + 1 /\ m \in 1..Len(w)
    BY <1>5, <1>7, <2>1, <2>4
  <2>. QED BY <1>6, <1>7, <2>2, <2>3, <2>4
<1>. HIDE DEF a
<1>9. /\ history' \in [Groups -> Seq(Entry)] /\ history'[h] = a
      /\ \A g \in Groups \ {h} : history'[g] = history[g]
  BY <1>1, <1>2, <1>7 DEF Types
<1>10. Types'
  <2>1. \A g \in Groups : DistinctPaths(history[g])'
    BY <1>1, <1>8, <1>9 DEF Types, DistinctPaths
  <2>. QED BY <1>1, <1>2, <1>3, <1>9, <2>1 DEF Types, Others, Unmoved
<1>11. Locked'
  BY <1>1, <1>2, <1>3, LockKept DEF ExportInv, Holding, Types
<1>12. \A j \in Invocations \ {i} : inv'[j] = inv[j] /\ inv[j].pc \notin Holding
  BY <1>1, <1>3, Alone DEF ExportInv, Others, Holding
<1>13. WrittenHere(inv[i])
  BY <1>1 DEF ExportInv, Written
<1>14. ByItsGroup'
  <2>. SUFFICES ASSUME NEW g \in Groups, NEW n \in 1..Len(history'[g]) PROVE g \in exporters[history'[g][n].path]
    BY <1>2 DEF ByItsGroup
  <2>1. CASE g # h
    BY <1>9, <2>1 DEF ExportInv, ByItsGroup
  <2>2. CASE g = h /\ n = Len(w) + 1
    BY <1>5, <1>7, <1>9, <1>13, <2>2 DEF WrittenHere
  <2>3. CASE g = h /\ n \in 1..Len(w)
    <3>1. PICK m \in 1..Len(history[h]) : w[n] = history[h][m]
      BY <1>4, <2>3 DEF Keeps
    <3>. QED BY <1>1, <1>7, <1>9, <2>3, <3>1 DEF ExportInv, ByItsGroup
  <2>. QED BY <1>6, <1>7, <1>9, <2>1, <2>2, <2>3
<1>15. Written' /\ Retention'
  BY <1>3, <1>12 DEF Written, Retention, Holding, Pruning
<1>16. AllTraced'
  <2>. SUFFICES ASSUME NEW q \in Paths, NEW g \in Groups, file[q] \in Exports, exporters[q] = {g}
                PROVE  Traced(q, g)'
    BY <1>2 DEF AllTraced
  <2>1. CASE q = p
    <3>1. g = h /\ file[p] = c
      BY <1>13, <2>1 DEF WrittenHere
    <3>2. history'[g][Len(w) + 1] = [path |-> q, content |-> file'[q]] /\ Len(w) + 1 \in 1..Len(history'[g])
      BY <1>2, <1>6, <1>7, <1>9, <2>1, <3>1 DEF e
    <3>. QED BY <3>2 DEF Traced, InManifest
  <2>2. CASE q # p
    <3>1. Traced(q, g)
      BY DEF ExportInv, AllTraced
    <3>2. ~BeingWritten(q)
      BY <1>1, <1>12, <2>2 DEF BeingWritten, Holding
    <3>3. CASE q \in interrupted
      BY <1>2, <2>2, <3>3 DEF Traced
    <3>4. CASE InManifest(q, g)
      <4>1. PICK n \in 1..Len(history[g]) : history[g][n] = [path |-> q, content |-> file[q]]
        BY <3>4 DEF InManifest
      <4>2. CASE g # h
        BY <1>2, <1>9, <4>1, <4>2 DEF Traced, InManifest
      <4>3. CASE g = h
        <5>1. history[h][n].path = q
          BY <4>1, <4>3
        <5>2. PICK k \in 1..Len(w) : w[k] = history[h][n]
          BY <1>4, <2>2, <4>1, <4>3, <5>1 DEF Keeps
        <5>3. history'[g][k] = [path |-> q, content |-> file'[q]] /\ k \in 1..Len(history'[g])
          BY <1>2, <1>6, <1>7, <1>9, <4>1, <4>3, <5>2
        <5>. QED BY <5>3 DEF Traced, InManifest
      <4>. QED BY <4>2, <4>3
    <3>. QED BY <3>1, <3>2, <3>3, <3>4 DEF Traced
  <2>. QED BY <2>1, <2>2
<1>17. EditsKept'
  BY <1>2 DEF ExportInv, EditsKept
<1>18. LatestKept'
  <2>. SUFFICES ASSUME NEW g \in Groups, history'[g] # <<>>
                PROVE  LET l == Last(history'[g]) IN file[l.path] = l.content \/ <<l.path, l.content>> \in replaced
    BY <1>2 DEF LatestKept
  <2>1. CASE g = h
    <3>1. Last(history'[g]) = e
      BY <1>7, <1>9, <2>1 DEF Last
    <3>. QED BY <1>5, <1>13, <3>1 DEF WrittenHere
  <2>2. CASE g # h
    BY <1>9, <2>2 DEF ExportInv, LatestKept
  <2>. QED BY <2>1, <2>2
<1>. QED BY <1>10, <1>11, <1>14, <1>15, <1>16, <1>17, <1>18 DEF ExportInv

(* A publication that ends early, or dies. *)
LEMMA EndsKeep ==
    ASSUME ExportInv, NEW i \in Invocations, RecordFails(i) \/ Crash(i)
    PROVE  ExportInv'
BY ReturnKeeps DEF RecordFails, Crash, At, Frame, boundVars

-----------------------------------------------------------------------------
(* Retention. *)

(* What a pruning invocation works with. *)
LEMMA PruningFacts ==
    ASSUME ExportInv, NEW i \in Invocations, inv[i].pc \in Pruning \cup {"recorded"}
    PROVE  /\ inv[i] \in Locals /\ inv[i].group \in Groups /\ inv[i].path \in Paths
           /\ inv[i].content \in Exports /\ inv[i].moved \in Content /\ inv[i].rest \in Seq(Entry)
           /\ history[inv[i].group] \in Seq(Entry) /\ DistinctPaths(history[inv[i].group])
           /\ Len(history[inv[i].group]) \in Nat /\ Cut(inv[i]) \in Int /\ Cut(inv[i]) < Len(history[inv[i].group])
           /\ inv[i].pc \in Pruning => Retaining(inv[i])
           /\ \A j \in Invocations \ {i} : inv[j].pc \notin Holding
           /\ \A n \in 1..Len(history[inv[i].group]) :
                  history[inv[i].group][n].path \in Paths /\ history[inv[i].group][n].content \in Exports
<1>1. inv[i].pc \in Holding /\ inv[i].pc # "idle"
  BY DEF Holding, Pruning
<1>2. /\ inv[i] \in Locals /\ inv[i].group \in Groups /\ inv[i].path \in Paths
      /\ history[inv[i].group] \in Seq(Entry) /\ DistinctPaths(history[inv[i].group])
  BY <1>1 DEF ExportInv, Types
<1>3. Len(history[inv[i].group]) \in Nat /\ Cut(inv[i]) \in Int /\ Cut(inv[i]) < Len(history[inv[i].group])
  BY <1>2, ContentKinds DEF Cut
<1>4. \A j \in Invocations \ {i} : inv[j].pc \notin Holding
  BY <1>1, Alone DEF ExportInv
<1>5. \A n \in 1..Len(history[inv[i].group]) :
          history[inv[i].group][n].path \in Paths /\ history[inv[i].group][n].content \in Exports
  <2>. TAKE n \in 1..Len(history[inv[i].group])
  <2>1. history[inv[i].group][n] \in Entry
    BY <1>2
  <2>. QED BY <2>1 DEF Entry
<1>. QED BY <1>2, <1>3, <1>4, <1>5 DEF Locals, ExportInv, Retention

(* A step of retention that leaves the manifests alone. *)
LEMMA PruneKeeps ==
    ASSUME ExportInv, NEW i \in Invocations, inv[i].pc \in Pruning \cup {"recorded"},
           inv' \in [Invocations -> Locals], Others(i), inv'[i].pc \in Pruning,
           inv'[i].group = inv[i].group, inv'[i].path = inv[i].path,
           file' \in [Paths -> Content \cup {Absent}], NoNewExport,
           UNCHANGED <<history, lock, replaced, interrupted, exporters, saves>>,
           Retaining(inv[i])', EditsKept', LatestKept'
    PROVE  ExportInv'
<1>1. \A j \in Invocations \ {i} : inv'[j] = inv[j] /\ inv[j].pc \notin Holding
  BY PruningFacts DEF Others
<1>2. Types'
  BY PruningFacts DEF ExportInv, Types, Others, DistinctPaths
<1>3. Locked' /\ ByItsGroup'
  BY <1>1 DEF ExportInv, Locked, ByItsGroup, Holding, Pruning
<1>4. Written' /\ Retention'
  BY <1>1 DEF Written, Retention, Holding, Pruning
<1>5. AllTraced'
  <2>. SUFFICES ASSUME NEW q \in Paths, NEW g \in Groups, file'[q] \in Exports, exporters[q] = {g}
                PROVE  Traced(q, g)'
    BY DEF AllTraced
  <2>1. file'[q] = file[q]
    BY DEF NoNewExport
  <2>2. Traced(q, g)
    BY <2>1 DEF ExportInv, AllTraced
  <2>3. ~BeingWritten(q)
    BY <1>1 DEF BeingWritten, Holding, Pruning
  <2>. QED BY <2>1, <2>2, <2>3 DEF Traced, InManifest
<1>. QED BY <1>2, <1>3, <1>4, <1>5 DEF ExportInv

(* The end of a manifest, and the paths in one. *)
LEMMA LastPart ==
    ASSUME NEW s \in Seq(Entry), NEW n \in Nat, n < Len(s)
    PROVE  LET k == SubSeq(s, n + 1, Len(s)) IN
           k \in Seq(Entry) /\ Len(k) = Len(s) - n /\ \A m \in 1..Len(k) : k[m] = s[n + m]
<1>1. n + 1 \in 1..Len(s) /\ Len(s) \in n + 1 .. Len(s) /\ Len(s) \in Nat
  OBVIOUS
<1>2. /\ SubSeq(s, n + 1, Len(s)) \in Seq(Entry)
      /\ Len(SubSeq(s, n + 1, Len(s))) = Len(s) - n
  BY <1>1, SubSeqProperties
<1>3. \A m \in 1..Len(s) - n : SubSeq(s, n + 1, Len(s))[m] = s[n + m]
  BY <1>1, SubSeqProperties
<1>. QED BY <1>2, <1>3

(* The paths of a manifest are those of its entries. *)
LEMMA PathsOfSeq ==
    ASSUME NEW s \in Seq(Entry), NEW q
    PROVE  q \in PathsOf(s) <=> \E n \in 1..Len(s) : s[n].path = q
<1>1. DOMAIN s = 1..Len(s)
  OBVIOUS
<1>. QED BY <1>1, Zenon DEF PathsOf, ToSet

(* The paths retention protects are those that are kept. *)
LEMMA KeptPaths ==
    ASSUME ExportInv, NEW i \in Invocations, inv[i].pc \in Pruning \cup {"recorded"}, Cut(inv[i]) > 0, NEW q
    PROVE  q \in PathsOf(Kept(i)) \cup OtherGroupPaths(i) <=> KeptPath(inv[i], q)
<1>. DEFINE h == history[inv[i].group]
            k == SubSeq(h, Cut(inv[i]) + 1, Len(h))
<1>1. Kept(i) = k
  BY DEF Kept, Excess, Cut
<1>2. h \in Seq(Entry) /\ Len(h) \in Nat /\ Cut(inv[i]) \in Nat /\ Cut(inv[i]) < Len(h)
  BY PruningFacts
<1>3. k \in Seq(Entry) /\ Len(k) = Len(h) - Cut(inv[i]) /\ \A m \in 1..Len(k) : k[m] = h[Cut(inv[i]) + m]
  BY <1>2, LastPart
<1>4. q \in PathsOf(k) <=> \E m \in 1..Len(k) : k[m].path = q
  <2>. HIDE DEF k
  <2>. QED BY <1>3, PathsOfSeq
<1>. HIDE DEF h, k
<1>5. (\E m \in 1..Len(k) : k[m].path = q) <=> \E n \in Cut(inv[i]) + 1 .. Len(h) : h[n].path = q
  <2>1. ASSUME NEW m \in 1..Len(k), k[m].path = q PROVE \E n \in Cut(inv[i]) + 1 .. Len(h) : h[n].path = q
    <3>1. Cut(inv[i]) + m \in Cut(inv[i]) + 1 .. Len(h) /\ h[Cut(inv[i]) + m].path = q
      BY <1>2, <1>3, <2>1
    <3>. QED BY <3>1
  <2>2. ASSUME NEW n \in Cut(inv[i]) + 1 .. Len(h), h[n].path = q PROVE \E m \in 1..Len(k) : k[m].path = q
    <3>1. n - Cut(inv[i]) \in 1..Len(k) /\ Cut(inv[i]) + (n - Cut(inv[i])) = n
      BY <1>2, <1>3
    <3>. QED BY <1>3, <2>2, <3>1
  <2>. QED BY <2>1, <2>2
<1>6. q \in OtherGroupPaths(i) <=> \E g \in Groups \ {inv[i].group} : \E n \in 1..Len(history[g]) : history[g][n].path = q
  <2>1. \A g \in Groups : q \in PathsOf(history[g]) <=> \E n \in 1..Len(history[g]) : history[g][n].path = q
    <3>. TAKE g \in Groups
    <3>1. history[g] \in Seq(Entry)
      BY DEF ExportInv, Types
    <3>. QED BY <3>1, PathsOfSeq
  <2>. QED BY <2>1 DEF OtherGroupPaths
<1>. QED BY <1>1, <1>4, <1>5, <1>6 DEF KeptPath, h

(* Retention begins, when there is something to remove and the new export  *)
(* is still there.                                                         *)
LEMMA RetainKeeps ==
    ASSUME ExportInv, NEW i \in Invocations, Retain(i)
    PROVE  ExportInv'
<1>. DEFINE h == history[inv[i].group]
            r == SubSeq(h, 1, Cut(inv[i]))
            n == Cut(inv[i])
<1>1. inv[i].pc = "recorded" /\ inv[i].pc # "written" /\ Excess(i) = n
  BY DEF Retain, At, Excess, Cut
<1>2. CASE Return(i)
  BY <1>1, <1>2, ReturnKeeps DEF Retain, Frame, ghostVars, boundVars
<1>3. CASE ~Return(i)
  <2>1. /\ n > 0 /\ lock' = lock
        /\ inv' = [inv EXCEPT ![i].pc = "pruning", ![i].protect = Protected(i), ![i].rest = r]
        /\ UNCHANGED <<file, quarantine, history, replaced, interrupted, exporters, saves>>
    BY <1>1, <1>3 DEF Retain, ghostVars, boundVars
  <2>2. inv[i] \in Locals /\ h \in Seq(Entry) /\ Len(h) \in Nat /\ n \in Nat /\ n < Len(h)
    BY <1>1, <2>1, PruningFacts
  <2>3. r \in Seq(Entry) /\ Len(r) = n /\ \A k \in 1..n : r[k] = h[k]
    BY <2>1, <2>2
  <2>. HIDE DEF r
  <2>. DEFINE l == [[[inv[i] EXCEPT !.pc = "pruning"] EXCEPT !.protect = Protected(i)] EXCEPT !.rest = r]
  <2>4. Protected(i) \in SUBSET (Paths \X Content)
    BY DEF Protected
  <2>5. inv' = [inv EXCEPT ![i] = l]
    BY <2>1, <2>2 DEF Locals
  <2>6. /\ l \in Locals /\ l.pc = "pruning" /\ l.group = inv[i].group /\ l.path = inv[i].path
        /\ l.protect = Protected(i) /\ l.rest = r
    BY <2>2, <2>3, <2>4 DEF Locals, Holding, Pruning
  <2>. HIDE DEF l
  <2>7. inv' \in [Invocations -> Locals] /\ Others(i) /\ inv'[i] = l
    BY <2>5, <2>6 DEF ExportInv, Types, Others
  <2>8. \A q : KeptPath(l, q) <=> q \in PathsOf(Kept(i)) \cup OtherGroupPaths(i)
    BY <1>1, <2>1, <2>6, KeptPaths DEF KeptPath, Cut
  <2>9. Victims(l)
    <3>1. DistinctPaths(r)
      BY <1>1, <2>2, <2>3, PruningFacts DEF DistinctPaths
    <3>. QED BY <2>1, <2>3, <2>6, <3>1 DEF Victims, Cut
  <2>10. ProtectedKept(l)
    <3>1. \A p \in Paths : KeptPath(l, p) /\ file[p] \in Exports => <<p, file[p]>> \in l.protect
      BY <2>6, <2>8, ContentKinds DEF Protected
    <3>2. \A x \in l.protect : KeptPath(l, x[1])
      BY <2>6, <2>8 DEF Protected
    <3>. QED BY <3>1, <3>2 DEF ProtectedKept
  <2>11. DealtWith(l) /\ VictimSeen(l)
    BY <2>3, <2>6 DEF DealtWith, VictimSeen, Cut
  <2>12. Retaining(inv[i])'
    <3>. HIDE DEF h, n
    <3>0. file' = file /\ history' = history /\ interrupted' = interrupted /\ exporters' = exporters /\ inv'[i] = l
      BY <2>1, <2>7
    <3>1. Victims(inv[i])' /\ VictimSeen(inv[i])'
      BY <3>0, <2>9, <2>11 DEF Victims, VictimSeen, Cut, DistinctPaths
    <3>2. ProtectedKept(inv[i])'
      BY <3>0, <2>10 DEF ProtectedKept, KeptPath, Cut
    <3>3. DealtWith(inv[i])'
      BY <3>0, <2>11 DEF DealtWith, Cut
    <3>. QED BY <3>1, <3>2, <3>3 DEF Retaining
  <2>13. EditsKept' /\ LatestKept' /\ NoNewExport /\ file' \in [Paths -> Content \cup {Absent}]
    BY <2>1 DEF ExportInv, EditsKept, LatestKept, NoNewExport, Types
  <2>. QED BY <1>1, <2>1, <2>6, <2>7, <2>12, <2>13, PruneKeeps DEF Pruning
<1>. QED BY <1>2, <1>3

(* A victim has been dealt with when its file is no export of this group   *)
(* alone, or was cut off.                                                  *)
LEMMA NextKeepsRetaining ==
    ASSUME ExportInv, NEW i \in Invocations, inv[i].pc \in Pruning, inv[i].rest # <<>>,
           inv'[i].pc = "pruning", Unmoved(inv[i], inv'[i]), inv'[i].rest = Tail(inv[i].rest),
           NoNewExport, history' = history, exporters' = exporters, interrupted' = interrupted,
           file'[inv[i].rest[1].path] \in Exports /\ exporters[inv[i].rest[1].path] = {inv[i].group}
               => inv[i].rest[1].path \in interrupted
    PROVE  Retaining(inv[i])'
<1>. DEFINE l == inv[i]
            m == inv'[i]
            h == history[l.group]
<1>1. Retaining(l) /\ l.rest \in Seq(Entry)
  BY PruningFacts
<1>2. Len(l.rest) \in Nat /\ Len(l.rest) > 0
  BY <1>1
<1>3. Len(m.rest) = Len(l.rest) - 1 /\ \A k \in 1..Len(m.rest) : m.rest[k] = l.rest[k + 1] /\ k + 1 \in 1..Len(l.rest)
  BY <1>1, <1>2
<1>4. m.group = l.group /\ m.protect = l.protect /\ m.pc = "pruning"
  BY DEF Unmoved
<1>5. Victims(l) /\ ProtectedKept(l) /\ DealtWith(l)
  BY <1>1 DEF Retaining
<1>6. \A n \in 1..Cut(l) : h[n].path \in Paths
  BY PruningFacts DEF Cut
<1>7. Cut(m) = Cut(l)
  BY <1>4 DEF Cut
<1>. HIDE DEF m, l
<1>8. Victims(m)
  <2>1. Cut(m) > 0
    BY <1>5, <1>7 DEF Victims
  <2>2. \A k \in 1..Len(m.rest) : \E n \in 1..Cut(m) : m.rest[k] = h[n]
    BY <1>3, <1>5, <1>7 DEF Victims
  <2>3. DistinctPaths(m.rest)
    <3>. SUFFICES ASSUME NEW j \in 1..Len(m.rest), NEW k \in 1..Len(m.rest), m.rest[j].path = m.rest[k].path
                  PROVE  j = k
      BY DEF DistinctPaths
    <3>1. /\ l.rest[j + 1].path = l.rest[k + 1].path
          /\ j + 1 \in 1..Len(l.rest) /\ k + 1 \in 1..Len(l.rest)
      BY <1>3
    <3>2. DistinctPaths(l.rest)
      BY <1>5 DEF Victims
    <3>3. j + 1 = k + 1
      BY <3>1, <3>2 DEF DistinctPaths
    <3>. QED BY <3>3
  <2>. QED BY <1>4, <2>1, <2>2, <2>3 DEF Victims
<1>9. \A q : KeptPath(m, q) <=> KeptPath(l, q)
  BY <1>4, <1>7 DEF KeptPath
<1>10. \A n \in 1..Cut(m) :
          file'[h[n].path] \in Exports /\ exporters[h[n].path] = {m.group}
            => h[n].path \in interrupted \/ \E k \in 1..Len(m.rest) : m.rest[k] = h[n]
  <2>. SUFFICES ASSUME NEW n \in 1..Cut(m), file'[h[n].path] \in Exports, exporters[h[n].path] = {m.group},
                       h[n].path \notin interrupted
                PROVE  \E k \in 1..Len(m.rest) : m.rest[k] = h[n]
    OBVIOUS
  <2>1. file'[h[n].path] = file[h[n].path]
    BY <1>6, <1>7 DEF NoNewExport
  <2>2. PICK k \in 1..Len(l.rest) : l.rest[k] = h[n]
    BY <1>4, <1>5, <1>7, <2>1 DEF DealtWith
  <2>3. k # 1
    BY <1>4, <2>2 DEF l
  <2>4. k - 1 \in 1..Len(m.rest) /\ (k - 1) + 1 = k
    BY <1>2, <1>3, <2>3
  <2>. QED BY <1>3, <2>2, <2>4
<1>11. Victims(inv[i])'
  BY <1>8 DEF Victims, Cut, m
<1>12. ProtectedKept(inv[i])'
  <2>1. \A q \in Paths : KeptPath(m, q) /\ file'[q] \in Exports => <<q, file'[q]>> \in m.protect
    BY <1>4, <1>5, <1>9 DEF ProtectedKept, NoNewExport
  <2>2. \A x \in m.protect : KeptPath(m, x[1])
    BY <1>4, <1>5, <1>9 DEF ProtectedKept
  <2>. QED BY <2>1, <2>2 DEF ProtectedKept, KeptPath, Cut, m
<1>13. DealtWith(inv[i])'
  BY <1>4, <1>10 DEF DealtWith, Cut, m, h
<1>14. VictimSeen(inv[i])'
  BY DEF VictimSeen
<1>. QED BY <1>11, <1>12, <1>13, <1>14 DEF Retaining

(* A step from one victim to the next. *)
LEMMA NextVictimKeeps ==
    ASSUME ExportInv, NEW i \in Invocations, inv[i].pc \in Pruning, inv[i].rest # <<>>, inv' = NextVictim(i),
           file' \in [Paths -> Content \cup {Absent}], NoNewExport,
           UNCHANGED <<history, lock, replaced, interrupted, exporters, saves>>,
           file'[inv[i].rest[1].path] \in Exports /\ exporters[inv[i].rest[1].path] = {inv[i].group}
               => inv[i].rest[1].path \in interrupted,
           EditsKept', LatestKept'
    PROVE  ExportInv'
<1>1. /\ inv' \in [Invocations -> Locals] /\ Others(i)
      /\ inv'[i].pc = "pruning" /\ Unmoved(inv[i], inv'[i])
      /\ inv'[i].rest = Tail(inv[i].rest)
  BY NextVictimIs DEF ExportInv, Types
<1>2. Retaining(inv[i])'
  BY <1>1, NextKeepsRetaining
<1>. QED BY <1>1, <1>2, PruneKeeps DEF Unmoved, Pruning

(* The first victim. *)
LEMMA VictimFacts ==
    ASSUME ExportInv, NEW i \in Invocations, inv[i].pc \in Pruning, inv[i].rest # <<>>
    PROVE  /\ Victim(i) = inv[i].rest[1] /\ Victim(i).path \in Paths /\ Victim(i).content \in Exports
           /\ \E n \in 1..Cut(inv[i]) : Victim(i) = history[inv[i].group][n]
<1>1. inv[i].rest \in Seq(Entry) /\ Victims(inv[i])
  BY PruningFacts DEF Retaining
<1>2. Victim(i) = inv[i].rest[1] /\ Victim(i) \in Entry /\ 1 \in 1..Len(inv[i].rest)
  BY <1>1 DEF Victim
<1>. QED BY <1>1, <1>2 DEF Entry, Victims

(* RemoveVerified looks at the file. One that it leaves alone although     *)
(* only this group exported to it is not what the manifest says, hence     *)
(* from a publication that was cut off.                                    *)
LEMMA VerifyOldKeeps ==
    ASSUME ExportInv, NEW i \in Invocations, VerifyOld(i)
    PROVE  ExportInv'
<1>. DEFINE v == Victim(i)
            g == inv[i].group
<1>1. /\ inv[i].pc \in Pruning /\ inv[i].rest # <<>>
      /\ UNCHANGED <<file, quarantine, history, lock, replaced, interrupted, exporters, saves>>
  BY DEF VerifyOld, At, Pruning, ghostVars, boundVars
<1>2. /\ v = inv[i].rest[1] /\ v.path \in Paths /\ v.content \in Exports
      /\ \E n \in 1..Cut(inv[i]) : v = history[g][n]
  BY <1>1, VictimFacts
<1>3. EditsKept' /\ LatestKept' /\ NoNewExport /\ file' \in [Paths -> Content \cup {Absent}]
  BY <1>1 DEF ExportInv, EditsKept, LatestKept, NoNewExport, Types
<1>4. CASE Removable(i)
  <2>1. inv' = [inv EXCEPT ![i].pc = "verified"]
    BY <1>4 DEF VerifyOld
  <2>2. /\ inv' \in [Invocations -> Locals] /\ Others(i)
        /\ inv'[i].pc = "verified" /\ Unmoved(inv[i], inv'[i]) /\ inv'[i].rest = inv[i].rest
    BY <2>1, GotoIs DEF ExportInv, Types, PCs, Holding, Pruning
  <2>3. Retaining(inv[i]) /\ inv[i].rest \in Seq(Entry)
    BY <1>1, PruningFacts
  <2>4. Victims(inv[i])' /\ ProtectedKept(inv[i])' /\ DealtWith(inv[i])'
    <3>1. inv'[i].group = inv[i].group /\ inv'[i].protect = inv[i].protect
      BY <2>2 DEF Unmoved
    <3>2. Victims(inv[i])'
      BY <1>1, <2>2, <2>3, <3>1 DEF Retaining, Victims, Cut
    <3>3. ProtectedKept(inv[i])'
      BY <1>1, <2>3, <3>1 DEF Retaining, ProtectedKept, KeptPath, Cut
    <3>4. DealtWith(inv[i])'
      BY <1>1, <2>2, <2>3, <3>1 DEF Retaining, DealtWith, Cut
    <3>. QED BY <3>2, <3>3, <3>4
  <2>5. VictimSeen(inv[i])'
    <3>1. Len(inv[i].rest) > 0
      BY <1>1, <2>3
    <3>. QED BY <1>1, <1>2, <1>4, <2>2, <3>1 DEF VictimSeen, Removable, Unmoved
  <2>. QED BY <1>1, <1>3, <2>2, <2>4, <2>5, PruneKeeps DEF Retaining, Unmoved, Pruning
<1>5. CASE ~Removable(i)
  <2>1. inv' = NextVictim(i)
    BY <1>5 DEF VerifyOld
  <2>2. ASSUME file[v.path] \in Exports, exporters[v.path] = {g} PROVE v.path \in interrupted
    <3>1. /\ g \in Groups /\ DistinctPaths(history[g]) /\ Retaining(inv[i]) /\ Len(history[g]) \in Nat
          /\ Cut(inv[i]) \in Int /\ Cut(inv[i]) < Len(history[g])
          /\ \A j \in Invocations : inv[j].pc # "written"
      BY <1>1, PruningFacts DEF Holding, Pruning
    <3>2. PICK n \in 1..Cut(inv[i]) : v = history[g][n]
      BY <1>2
    <3>3. ~KeptPath(inv[i], v.path)
      <4>1. ASSUME NEW k \in Cut(inv[i]) + 1 .. Len(history[g]), history[g][k].path = v.path PROVE FALSE
        <5>1. k \in 1..Len(history[g]) /\ n \in 1..Len(history[g]) /\ k # n
          BY <3>1
        <5>. QED BY <3>1, <3>2, <4>1, <5>1 DEF DistinctPaths
      <4>2. ASSUME NEW f \in Groups \ {g}, NEW k \in 1..Len(history[f]), history[f][k].path = v.path PROVE FALSE
        BY <2>2, <4>2 DEF ExportInv, ByItsGroup
      <4>. QED BY <4>1, <4>2 DEF KeptPath
    <3>4. <<v.path, file[v.path]>> \notin inv[i].protect
      BY <3>1, <3>3 DEF Retaining, ProtectedKept
    <3>5. file[v.path] # v.content
      BY <1>5, <3>4 DEF Removable
    <3>6. Traced(v.path, g) /\ ~BeingWritten(v.path)
      BY <1>2, <2>2, <3>1 DEF ExportInv, AllTraced, BeingWritten
    <3>7. ~InManifest(v.path, g)
      <4>1. ASSUME NEW k \in 1..Len(history[g]), history[g][k] = [path |-> v.path, content |-> file[v.path]] PROVE FALSE
        <5>1. history[g][k].path = v.path /\ history[g][k].content = file[v.path]
          BY <4>1
        <5>2. k = n
          BY <3>1, <3>2, <5>1 DEF DistinctPaths
        <5>. QED BY <3>2, <3>5, <5>1, <5>2
      <4>. QED BY <4>1 DEF InManifest
    <3>. QED BY <3>6, <3>7 DEF Traced
  <2>. HIDE DEF v, g
  <2>3. file'[inv[i].rest[1].path] \in Exports /\ exporters[inv[i].rest[1].path] = {inv[i].group}
          => inv[i].rest[1].path \in interrupted
    BY <1>1, <1>2, <2>2 DEF g
  <2>. QED BY <1>1, <1>3, <2>1, <2>3, NextVictimKeeps
<1>. QED BY <1>4, <1>5

(* The rename takes whatever is there by then: an edit is kept aside, and  *)
(* no export that is to be kept is taken.                                  *)
LEMMA QuarantineKeeps ==
    ASSUME ExportInv, NEW i \in Invocations, Quarantine(i)
    PROVE  ExportInv'
<1>. DEFINE v == Victim(i)
            p == v.path
            l == inv[i]
<1>1. l.pc = "verified" /\ l.pc \in Pruning /\ UNCHANGED <<history, lock, replaced, interrupted, exporters, saves>>
  BY DEF Quarantine, At, Pruning, ghostVars, boundVars
<1>2. Retaining(l) /\ l.rest \in Seq(Entry) /\ l \in Locals
  BY <1>1, PruningFacts
<1>3. l.rest # <<>> /\ Len(l.rest) > 0
  BY <1>1, <1>2 DEF Retaining, VictimSeen
<1>4. /\ v = l.rest[1] /\ p \in Paths /\ v.content \in Exports
      /\ <<p, v.content>> \notin l.protect /\ (file[p] \in Exports => file[p] = v.content)
  BY <1>1, <1>2, <1>3, VictimFacts DEF Retaining, VictimSeen
<1>5. file \in [Paths -> Content \cup {Absent}] /\ inv \in [Invocations -> Locals]
  BY DEF ExportInv, Types
<1>6. CASE file[p] = Absent
  <2>1. inv' = NextVictim(i) /\ file' = file /\ quarantine' = quarantine
    BY <1>6 DEF Quarantine
  <2>2. EditsKept' /\ LatestKept' /\ NoNewExport
    BY <1>1, <2>1 DEF ExportInv, EditsKept, LatestKept, NoNewExport
  <2>3. file'[l.rest[1].path] \notin Exports
    BY <1>4, <1>6, <2>1, ContentKinds
  <2>. QED BY <1>1, <1>3, <1>5, <2>1, <2>2, <2>3, NextVictimKeeps
<1>7. CASE file[p] # Absent
  <2>. DEFINE c == file[p]
              m == [[l EXCEPT !.pc = "moved"] EXCEPT !.moved = c]
  <2>1. /\ quarantine' = quarantine \cup {<<p, c>>} /\ file' = [file EXCEPT ![p] = Absent]
        /\ inv' = [inv EXCEPT ![i].pc = "moved", ![i].moved = c] /\ c \in Content
    BY <1>4, <1>5, <1>7 DEF Quarantine
  <2>2. m \in Locals /\ m.pc = "moved" /\ m.moved = c /\ m.rest = l.rest /\ Unmoved(l, m)
    BY <1>2, <2>1 DEF Locals, Unmoved, Holding, Pruning
  <2>3. inv' = [inv EXCEPT ![i] = m]
    BY <1>2, <1>5, <2>1 DEF Locals
  <2>. HIDE DEF m
  <2>4. inv' \in [Invocations -> Locals] /\ Others(i) /\ inv'[i] = m
    BY <1>5, <2>2, <2>3 DEF Others
  <2>5. file' \in [Paths -> Content \cup {Absent}] /\ NoNewExport /\ file'[p] = Absent /\ \A q \in Paths \ {p} : file'[q] = file[q]
    BY <1>4, <1>5, <2>1, ContentKinds DEF NoNewExport
  <2>6. EditsKept'
    <3>. SUFFICES ASSUME NEW n \in 1..saves
                  PROVE  \E q \in Paths : <<q, 0 - n>> \in replaced \cup quarantine' \/ file'[q] = 0 - n
      BY <1>1 DEF EditsKept
    <3>1. PICK q \in Paths : <<q, 0 - n>> \in replaced \cup quarantine \/ file[q] = 0 - n
      BY DEF ExportInv, EditsKept
    <3>2. <<q, 0 - n>> \in replaced \cup quarantine' \/ file'[q] = 0 - n
      BY <2>1, <2>5, <3>1
    <3>. QED BY <3>2
  <2>7. LatestKept'
    <3>. SUFFICES ASSUME NEW g \in Groups, history[g] # <<>>
                  PROVE  LET e == Last(history[g]) IN file'[e.path] = e.content \/ <<e.path, e.content>> \in replaced
      BY <1>1 DEF LatestKept
    <3>. DEFINE e == Last(history[g])
    <3>1. history[g] \in Seq(Entry) /\ Len(history[g]) \in 1..Len(history[g]) /\ e = history[g][Len(history[g])]
      BY DEF ExportInv, Types, Last
    <3>2. e \in Entry /\ e.path \in Paths /\ e.content \in Exports
      <4>1. e \in Entry
        BY <3>1
      <4>. QED BY <4>1 DEF Entry
    <3>3. file[e.path] = e.content \/ <<e.path, e.content>> \in replaced
      BY DEF ExportInv, LatestKept
    <3>4. KeptPath(l, e.path)
      <4>1. CASE g = l.group
        <5>1. Cut(l) + 1 <= Len(history[g]) /\ Cut(l) \in Int
          BY <1>1, <4>1, PruningFacts
        <5>2. Len(history[g]) \in Cut(l) + 1 .. Len(history[g])
          BY <3>1, <5>1
        <5>. QED BY <3>1, <4>1, <5>2 DEF KeptPath
      <4>2. CASE g # l.group
        BY <3>1, <4>2 DEF KeptPath
      <4>. QED BY <4>1, <4>2
    <3>. HIDE DEF e
    <3>5. CASE e.path = p /\ file[p] = e.content
      <4>1. <<p, e.content>> \in l.protect
        BY <1>2, <3>2, <3>4, <3>5 DEF Retaining, ProtectedKept
      <4>. QED BY <1>4, <3>2, <3>5, <4>1
    <3>. QED BY <2>5, <3>2, <3>3, <3>5 DEF e
  <2>8. Retaining(inv[i])'
    <3>. HIDE DEF v, c
    <3>0. m.group = l.group /\ m.protect = l.protect
      BY <2>2 DEF Unmoved
    <3>1. Victims(inv[i])'
      BY <1>1, <1>2, <2>2, <2>4, <3>0 DEF Retaining, Victims, Cut
    <3>2. ProtectedKept(inv[i])'
      BY <1>1, <1>2, <2>4, <2>5, <3>0 DEF Retaining, ProtectedKept, KeptPath, Cut, NoNewExport
    <3>3. DealtWith(inv[i])'
      <4>1. \A n \in 1..Cut(l) : history[l.group][n].path \in Paths
        BY <1>1, PruningFacts
      <4>2. \A n \in 1..Cut(l) :
              file'[history[l.group][n].path] \in Exports /\ exporters[history[l.group][n].path] = {l.group}
                => \/ history[l.group][n].path \in interrupted
                   \/ \E k \in 1..Len(l.rest) : l.rest[k] = history[l.group][n]
        BY <1>2, <2>5, <4>1 DEF Retaining, DealtWith, NoNewExport
      <4>. QED BY <1>1, <2>2, <2>4, <3>0, <4>2 DEF DealtWith, Cut
    <3>4. VictimSeen(inv[i])'
      BY <1>3, <1>4, <2>2, <2>4, <2>5, ContentKinds DEF VictimSeen, c
    <3>. QED BY <3>1, <3>2, <3>3, <3>4 DEF Retaining
  <2>. QED BY <1>1, <2>2, <2>4, <2>5, <2>6, <2>7, <2>8, PruneKeeps DEF Unmoved, Pruning
<1>. QED BY <1>6, <1>7

(* Only the verified file is unlinked; what came in its place is put back. *)
LEMMA RemoveQuarantinedKeeps ==
    ASSUME ExportInv, NEW i \in Invocations, RemoveQuarantined(i)
    PROVE  ExportInv'
<1>. DEFINE v == Victim(i)
            p == v.path
            l == inv[i]
<1>1. /\ l.pc = "moved" /\ l.pc \in Pruning /\ l.pc # "written"
      /\ UNCHANGED <<history, replaced, interrupted, exporters, saves>>
  BY DEF RemoveQuarantined, At, Pruning, ghostVars, boundVars
<1>2. Retaining(l) /\ l.rest \in Seq(Entry) /\ l.moved \in Content
  BY <1>1, PruningFacts
<1>3. l.rest # <<>>
  BY <1>1, <1>2 DEF Retaining, VictimSeen
<1>4. /\ v = l.rest[1] /\ p \in Paths /\ v.content \in Exports
      /\ (l.moved \in Exports => l.moved = v.content) /\ file[p] \notin Exports
  BY <1>1, <1>2, <1>3, VictimFacts DEF Retaining, VictimSeen
<1>5. file \in [Paths -> Content \cup {Absent}] /\ saves \in 0..MaxSaves
  BY DEF ExportInv, Types
<1>6. CASE Return(i) /\ UNCHANGED <<file, quarantine>>
  BY <1>1, <1>6, ReturnKeeps DEF Frame
<1>7. CASE /\ MovedIsVictim(i) /\ quarantine' = quarantine \ {<<p, l.moved>>}
           /\ inv' = NextVictim(i) /\ UNCHANGED <<file, lock>>
  <2>1. EditsKept'
    <3>. SUFFICES ASSUME NEW n \in 1..saves
                  PROVE  \E q \in Paths : <<q, 0 - n>> \in replaced \cup quarantine' \/ file'[q] = 0 - n
      BY <1>1 DEF EditsKept
    <3>1. PICK q \in Paths : <<q, 0 - n>> \in replaced \cup quarantine \/ file[q] = 0 - n
      BY DEF ExportInv, EditsKept
    <3>2. 0 - n # l.moved
      BY <1>4, <1>5, <1>7, ContentKinds DEF MovedIsVictim
    <3>3. <<q, 0 - n>> \in replaced \cup quarantine' \/ file'[q] = 0 - n
      BY <1>7, <3>1, <3>2
    <3>. QED BY <3>3
  <2>2. LatestKept' /\ NoNewExport
    BY <1>1, <1>7 DEF ExportInv, LatestKept, NoNewExport
  <2>3. file'[l.rest[1].path] \notin Exports
    BY <1>4, <1>7
  <2>. QED BY <1>1, <1>3, <1>5, <1>7, <2>1, <2>2, <2>3, NextVictimKeeps
<1>8. CASE /\ ~MovedIsVictim(i) /\ file[p] = Absent /\ file' = [file EXCEPT ![p] = l.moved]
           /\ quarantine' = quarantine \ {<<p, l.moved>>} /\ inv' = NextVictim(i) /\ UNCHANGED lock
  <2>1. l.moved \notin Exports
    BY <1>4, <1>8 DEF MovedIsVictim
  <2>2. /\ file' \in [Paths -> Content \cup {Absent}] /\ file'[p] = l.moved
        /\ \A q \in Paths \ {p} : file'[q] = file[q]
    BY <1>2, <1>4, <1>5, <1>8
  <2>3. NoNewExport
    BY <2>1, <2>2 DEF NoNewExport
  <2>4. EditsKept'
    <3>. SUFFICES ASSUME NEW n \in 1..saves
                  PROVE  \E q \in Paths : <<q, 0 - n>> \in replaced \cup quarantine' \/ file'[q] = 0 - n
      BY <1>1 DEF EditsKept
    <3>1. PICK q \in Paths : <<q, 0 - n>> \in replaced \cup quarantine \/ file[q] = 0 - n
      BY DEF ExportInv, EditsKept
    <3>2. 0 - n # Absent
      BY <1>5, ContentKinds
    <3>3. <<q, 0 - n>> \in replaced \cup quarantine' \/ file'[q] = 0 - n
      BY <1>8, <2>2, <3>1, <3>2
    <3>. QED BY <3>3
  <2>5. LatestKept'
    <3>. SUFFICES ASSUME NEW g \in Groups, history[g] # <<>>
                  PROVE  LET e == Last(history[g]) IN file'[e.path] = e.content \/ <<e.path, e.content>> \in replaced
      BY <1>1 DEF LatestKept
    <3>. DEFINE e == Last(history[g])
    <3>1. e \in Entry
      BY DEF ExportInv, Types, Last
    <3>2. file[e.path] = e.content \/ <<e.path, e.content>> \in replaced
      BY DEF ExportInv, LatestKept
    <3>3. e.path \in Paths /\ e.content # Absent
      BY <3>1, ContentKinds DEF Entry
    <3>. HIDE DEF e
    <3>. QED BY <1>8, <2>2, <3>2, <3>3 DEF e
  <2>6. file'[l.rest[1].path] \notin Exports
    BY <1>4, <2>1, <2>2
  <2>. QED BY <1>1, <1>3, <1>8, <2>2, <2>3, <2>4, <2>5, <2>6, NextVictimKeeps
<1>. QED BY <1>6, <1>7, <1>8 DEF RemoveQuarantined

(* The manifest is cut: the entries that go have been dealt with, the last *)
(* one stays.                                                              *)
LEMMA SaveHistoryKeeps ==
    ASSUME ExportInv, NEW i \in Invocations, SaveHistory(i)
    PROVE  ExportInv'
<1>. DEFINE l == inv[i]
            h == history[l.group]
            n == Cut(l)
            k == SubSeq(h, n + 1, Len(h))
<1>1. /\ l.pc = "pruning" /\ l.pc \in Pruning /\ l.pc \in Holding /\ l.rest = <<>>
      /\ history' = [history EXCEPT ![l.group] = k] /\ Return(i)
      /\ UNCHANGED <<file, quarantine, replaced, interrupted, exporters, saves>>
  BY DEF SaveHistory, At, Pruning, Holding, ghostVars, boundVars, Kept, Excess, Cut
<1>2. /\ Retaining(l) /\ l.group \in Groups /\ h \in Seq(Entry) /\ DistinctPaths(h)
      /\ Len(h) \in Nat /\ n \in Int /\ n < Len(h)
      /\ \A j \in Invocations \ {i} : inv[j].pc \notin Holding
  BY <1>1, PruningFacts
<1>3. n > 0 /\ n \in Nat
  BY <1>2 DEF Retaining, Victims
<1>4. k \in Seq(Entry) /\ Len(k) = Len(h) - n /\ \A m \in 1..Len(k) : k[m] = h[n + m]
  BY <1>2, <1>3, LastPart
<1>5. Types /\ inv \in [Invocations -> Locals] /\ history \in [Groups -> Seq(Entry)]
  BY DEF ExportInv, Types
<1>6. /\ inv' \in [Invocations -> Locals] /\ Others(i) /\ inv'[i].pc = "idle"
      /\ lock' = IF lock = i THEN Nobody ELSE lock
  BY <1>1, <1>5, ReturnIs
<1>7. lock' \in Invocations \cup {Nobody} /\ Locked'
  BY <1>5, <1>6, LockKept DEF ExportInv
<1>. HIDE DEF k
<1>8. /\ history' \in [Groups -> Seq(Entry)] /\ history'[l.group] = k
      /\ \A g \in Groups \ {l.group} : history'[g] = history[g]
  BY <1>1, <1>2, <1>4, <1>5
<1>. HIDE DEF n
<1>9. DistinctPaths(k)
  <2>. SUFFICES ASSUME NEW a \in 1..Len(k), NEW b \in 1..Len(k), k[a].path = k[b].path PROVE a = b
    BY DEF DistinctPaths
  <2>. HIDE DEF h
  <2>0. k[a] = h[n + a] /\ k[b] = h[n + b]
    BY <1>4
  <2>1. n + a \in 1..Len(h) /\ n + b \in 1..Len(h) /\ h[n + a].path = h[n + b].path
    <3>1. Len(h) \in Nat /\ n \in Nat /\ Len(k) = Len(h) - n
      BY <1>2, <1>3, <1>4
    <3>. QED BY <2>0, <3>1
  <2>2. n + a = n + b
    BY <1>2, <2>1 DEF DistinctPaths
  <2>. QED BY <1>3, <2>2
<1>. HIDE DEF h
<1>10. Types'
  <2>1. \A g \in Groups : DistinctPaths(history[g])'
    BY <1>5, <1>8, <1>9 DEF Types, DistinctPaths
  <2>. QED BY <1>1, <1>5, <1>6, <1>7, <1>8, <2>1 DEF Types, Others
<1>11. \A j \in Invocations : inv'[j].pc \notin Holding /\ inv[j].pc # "written"
  BY <1>1, <1>2, <1>6 DEF Others, Holding, Pruning
<1>12. Written' /\ Retention'
  BY <1>11 DEF Written, Retention, Holding, Pruning
<1>13. ByItsGroup'
  <2>. SUFFICES ASSUME NEW g \in Groups, NEW m \in 1..Len(history'[g]) PROVE g \in exporters[history'[g][m].path]
    BY <1>1 DEF ByItsGroup
  <2>1. CASE g # l.group
    BY <1>8, <2>1 DEF ExportInv, ByItsGroup
  <2>2. CASE g = l.group
    <3>1. n + m \in 1..Len(h) /\ k[m] = h[n + m]
      BY <1>2, <1>3, <1>4, <1>8, <2>2
    <3>. QED BY <1>2, <1>8, <2>2, <3>1 DEF ExportInv, ByItsGroup, h
  <2>. QED BY <2>1, <2>2
<1>14. AllTraced'
  <2>. SUFFICES ASSUME NEW q \in Paths, NEW g \in Groups, file[q] \in Exports, exporters[q] = {g}
                PROVE  Traced(q, g)'
    BY <1>1 DEF AllTraced
  <2>1. Traced(q, g) /\ ~BeingWritten(q)
    BY <1>11 DEF ExportInv, AllTraced, BeingWritten
  <2>2. CASE q \in interrupted
    BY <1>1, <2>2 DEF Traced
  <2>3. CASE InManifest(q, g) /\ q \notin interrupted
    <3>1. PICK m \in 1..Len(history[g]) : history[g][m] = [path |-> q, content |-> file[q]]
      BY <2>3 DEF InManifest
    <3>2. CASE g # l.group
      BY <1>1, <1>8, <3>1, <3>2 DEF Traced, InManifest
    <3>3. CASE g = l.group
      <4>1. h[m] = [path |-> q, content |-> file[q]] /\ h[m].path = q /\ m \in 1..Len(h)
        BY <3>1, <3>3 DEF h
      <4>2. ~(m \in 1..n)
        BY <1>1, <1>2, <2>3, <3>3, <4>1 DEF Retaining, DealtWith, h, n
      <4>3. m - n \in 1..Len(k) /\ n + (m - n) = m
        BY <1>2, <1>3, <1>4, <4>1, <4>2
      <4>4. history'[g][m - n] = [path |-> q, content |-> file'[q]] /\ m - n \in 1..Len(history'[g])
        BY <1>1, <1>4, <1>8, <3>3, <4>1, <4>3
      <4>. QED BY <4>4 DEF Traced, InManifest
    <3>. QED BY <3>2, <3>3
  <2>. QED BY <2>1, <2>2, <2>3 DEF Traced
<1>15. EditsKept'
  BY <1>1 DEF ExportInv, EditsKept
<1>16. LatestKept'
  <2>. SUFFICES ASSUME NEW g \in Groups, history'[g] # <<>>
                PROVE  LET e == Last(history'[g]) IN file[e.path] = e.content \/ <<e.path, e.content>> \in replaced
    BY <1>1 DEF LatestKept
  <2>1. CASE g = l.group
    <3>1. Len(k) \in 1..Len(k) /\ n + Len(k) = Len(h)
      BY <1>2, <1>3, <1>4
    <3>2. Last(history'[g]) = h[Len(h)]
      BY <1>4, <1>8, <2>1, <3>1 DEF Last
    <3>3. h # <<>> /\ Last(history[g]) = h[Len(h)]
      BY <1>2, <1>3, <2>1 DEF Last, h
    <3>. QED BY <2>1, <3>2, <3>3 DEF ExportInv, LatestKept, h
  <2>2. CASE g # l.group
    BY <1>8, <2>2 DEF ExportInv, LatestKept
  <2>. QED BY <2>1, <2>2
<1>. QED BY <1>7, <1>10, <1>12, <1>13, <1>14, <1>15, <1>16 DEF ExportInv

-----------------------------------------------------------------------------
(* The theorems. *)

(* Nothing is exported at the start. *)
LEMMA ExportInitially == Init => ExportInv
<1>. SUFFICES ASSUME Init PROVE ExportInv
  OBVIOUS
<1>. HIDE DEF Idle
<1>1. Types
  BY IdleTyped, ContentKinds DEF Init, Types, DistinctPaths
<1>2. Locked /\ Written /\ Retention
  BY IdleTyped DEF Init, Locked, Written, Retention, Holding, Pruning
<1>3. ByItsGroup /\ LatestKept /\ EditsKept
  BY DEF Init, ByItsGroup, LatestKept, EditsKept
<1>4. AllTraced
  BY ContentKinds DEF Init, AllTraced
<1>. QED BY <1>1, <1>2, <1>3, <1>4 DEF ExportInv

(* One case per action. *)
LEMMA ExportStep == ExportInv /\ [Next]_vars => ExportInv'
<1>. SUFFICES ASSUME ExportInv, [Next]_vars PROVE ExportInv'
  OBVIOUS
<1>1. CASE UNCHANGED vars
  <2>1. Types' /\ Locked' /\ ByItsGroup' /\ EditsKept' /\ LatestKept'
    BY <1>1 DEF vars, ExportInv, Types, Locked, ByItsGroup, EditsKept, LatestKept, DistinctPaths
  <2>2. Written' /\ AllTraced'
    BY <1>1 DEF vars, ExportInv, Written, WrittenHere, AllTraced, Traced, BeingWritten, InManifest
  <2>3. Retention'
    BY <1>1, RetainingStays DEF vars, Retention, NoNewExport
  <2>. QED BY <2>1, <2>2, <2>3 DEF ExportInv
<1>2. ASSUME NEW p \in Paths, UserSave(p) \/ UserDelete(p) PROVE ExportInv'
  BY <1>2, UserKeeps
<1>3. ASSUME NEW i \in Invocations,
             Begin(i) \/ Download(i) \/ BuildFails(i) \/ TryLock(i) \/ StageHistory(i) \/ StageFails(i) \/ WriteRefused(i)
      PROVE  ExportInv'
  BY <1>3, PreparationKeeps
<1>4. ASSUME NEW i \in Invocations, Write(i) \/ Record(i) \/ RecordFails(i) \/ Crash(i) PROVE ExportInv'
  BY <1>4, WriteKeeps, RecordKeeps, EndsKeep
<1>5. ASSUME NEW i \in Invocations,
             Retain(i) \/ VerifyOld(i) \/ Quarantine(i) \/ RemoveQuarantined(i) \/ SaveHistory(i)
      PROVE  ExportInv'
  BY <1>5, RetainKeeps, VerifyOldKeeps, QuarantineKeeps, RemoveQuarantinedKeeps, SaveHistoryKeeps
<1>. QED BY <1>1, <1>2, <1>3, <1>4, <1>5 DEF Next

(* The inductive invariant of exports. *)
LEMMA ExportAlways == Spec => []ExportInv
BY ExportInitially, ExportStep, PTL DEF Spec

(* Retention never destroys the user's work: what an editor saved at a     *)
(* destination is there or in a private sibling until the user or an       *)
(* export writes it again, although RemoveVerified looks at the file long  *)
(* before it unlinks it and may die in between.                            *)
THEOREM EditsKeptHolds == Spec => []EditsKept
<1>1. ExportInv => EditsKept
  BY DEF ExportInv
<1>. QED BY <1>1, ExportAlways, PTL

(* The newest export of every group is on disk with the bytes its manifest *)
(* says until it is overwritten or deleted by right, whichever groups      *)
(* share its destination and however often retention runs.                 *)
THEOREM LatestKeptHolds == Spec => []LatestKept
<1>1. ExportInv => LatestKept
  BY DEF ExportInv
<1>. QED BY <1>1, ExportAlways, PTL

(* An export at a destination of one group is known to the file selection  *)
(* of every invocation, unless the publication that holds the lock is      *)
(* between its two renames there, or one was cut off between them.         *)
THEOREM ExportsKnownHolds == Spec => []ExportsKnown
<1>1. ExportInv => ExportsKnown
  <2>. SUFFICES ASSUME ExportInv, NEW i \in Invocations, NEW p \in Paths,
                       file[p] \in Exports, Cardinality(exporters[p]) = 1
                PROVE  p \in Generated(i) \cup Unrecorded \cup interrupted
    BY DEF ExportsKnown
  <2>1. exporters[p] \subseteq Groups /\ IsFiniteSet(exporters[p])
    <3>1. exporters[p] \subseteq Groups
      BY DEF ExportInv, Types
    <3>. QED BY <3>1, ExportAssumption, FS_Subset DEF ExportAssumption
  <2>2. PICK g : exporters[p] = {g}
    BY <2>1, FS_Singleton
  <2>3. g \in Groups /\ Traced(p, g)
    BY <2>1, <2>2 DEF ExportInv, AllTraced
  <2>4. CASE p \in interrupted
    BY <2>4
  <2>5. CASE BeingWritten(p)
    <3>1. PICK k \in Invocations : inv[k].pc = "written" /\ inv[k].path = p
      BY <2>5 DEF BeingWritten
    <3>2. lock = k
      BY <3>1 DEF ExportInv, Locked, Holding
    <3>. QED BY <3>1, <3>2 DEF Unrecorded, At
  <2>6. CASE InManifest(p, g)
    <3>1. PICK n \in 1..Len(history[g]) : history[g][n] = [path |-> p, content |-> file[p]]
      BY <2>6 DEF InManifest
    <3>2. history[g][n].path = p /\ history[g] \in Seq(Entry)
      BY <2>3, <3>1 DEF ExportInv, Types
    <3>3. p \in PathsOf(history[g])
      BY <3>2, PathsOfSeq
    <3>. QED BY <2>3, <3>3 DEF Generated, Recorded
  <2>. QED BY <2>3, <2>4, <2>5, <2>6 DEF Traced
<1>. QED BY <1>1, ExportAlways, PTL
=============================================================================
