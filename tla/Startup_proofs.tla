---------------------------- MODULE Startup_proofs ----------------------------
(* Proofs about Startup, for every number of instances, every build, every *)
(* environment and any number of faults.                                   *)
EXTENDS Startup, FiniteSetTheorems, TLAPS

(* Whoever has come to a migration has all those before it applied. *)
BehindApplied ==
  \A i \in Instances :
    /\ inst[i].at \in {"ensure", "create"} => inst[i].next = 1
    /\ inst[i].at = "check" \/ InTx(i) => 1 .. inst[i].next - 1 \subseteq versions
    /\ InTx(i) => inst[i].next <= Shipped[i]

(* An uncommitted row is the only one of its migration. *)
RowExclusive ==
  \A i \in Instances : inst[i].at = "commit" =>
    /\ inst[i].next \notin versions
    /\ \A j \in Instances \ {i} : ~HasRow(j, inst[i].next)

TableFirst ==
  \A i \in Instances : inst[i].at \notin {"down", "refused", "ensure", "create"} => ensured

IInv ==
  /\ TypeOK /\ VersionIffApplied /\ AppliedInOrder /\ ServesMigrated
  /\ BehindApplied /\ RowExclusive /\ TableFirst

LEMMA InitIInv == Init => IInv
<1> SUFFICES ASSUME Init PROVE IInv
  OBVIOUS
<1>1. PICK env \in [Instances -> Environments] :
        inst = [i \in Instances |-> [at |-> "down", next |-> 1, env |-> env[i]]]
  BY DEF Init
<1>2. ensured = FALSE /\ versions = {} /\ applied = << >> /\ faults = 0
  BY DEF Init
<1>3. TypeOK
  <2>1. inst \in [Instances -> [at : Places, next : Nat \ {0}, env : Environments]]
    BY <1>1 DEF Places
  <2>2. \A i \in Instances : inst[i].next <= Shipped[i] + 1
    BY <1>1, StartupAssumption
  <2>3. faults \in 0 .. MaxFaults /\ applied \in Seq(Nat \ {0})
    BY <1>2, StartupAssumption
  <2> QED
    BY <1>2, <2>1, <2>2, <2>3 DEF TypeOK
<1>4. VersionIffApplied /\ AppliedInOrder
  BY <1>2 DEF VersionIffApplied, AppliedInOrder
<1>5. ServesMigrated /\ BehindApplied /\ RowExclusive /\ TableFirst
  BY <1>1 DEF ServesMigrated, BehindApplied, RowExclusive, TableFirst, InTx
<1> QED
  BY <1>3, <1>4, <1>5 DEF IInv

(* The recorded versions are an initial segment of the names. *)
LEMMA VersionsArePrefix ==
  ASSUME IInv PROVE Len(applied) \in Nat /\ versions = 1 .. Len(applied)
<1>1. applied \in Seq(Nat \ {0})
  BY DEF IInv, TypeOK
<1>2. DOMAIN applied = 1 .. Len(applied) /\ Len(applied) \in Nat
  BY <1>1
<1>3. \A n \in DOMAIN applied : applied[n] = n
  BY DEF IInv, AppliedInOrder
<1>4. versions = {applied[n] : n \in DOMAIN applied}
  BY DEF IInv, VersionIffApplied
<1>5. \A k : k \in versions <=> k \in DOMAIN applied
  BY <1>3, <1>4
<1> QED
  BY <1>2, <1>5

(* A commit adds the next name to that segment. *)
LEMMA CommitExtends ==
  ASSUME IInv, NEW i \in Instances, inst[i].at = "commit", TakesEffect(i)
  PROVE  /\ versions' \subseteq Nat \ {0} /\ applied' \in Seq(Nat \ {0}) /\ ensured' = ensured
         /\ versions' = versions \cup {inst[i].next}
         /\ VersionIffApplied' /\ AppliedInOrder'
<1> DEFINE k == inst[i].next
<1>1. k \in Nat \ {0} /\ applied \in Seq(Nat \ {0}) /\ versions \subseteq Nat \ {0}
  BY DEF IInv, TypeOK
<1>2. k = Len(applied) + 1
  <2>1. k \notin versions /\ 1 .. k - 1 \subseteq versions
    BY DEF IInv, RowExclusive, BehindApplied, InTx
  <2>2. Len(applied) \in Nat /\ versions = 1 .. Len(applied)
    BY VersionsArePrefix
  <2> HIDE DEF k
  <2>3. k > Len(applied)
    BY <1>1, <2>1, <2>2
  <2>4. k - 1 <= Len(applied)
    <3>1. CASE k = 1
      BY <2>2, <3>1
    <3>2. CASE k # 1
      BY <1>1, <2>1, <2>2, <3>2
    <3> QED
      BY <3>1, <3>2
  <2> QED
    BY <1>1, <2>2, <2>3, <2>4
<1>3. versions' = versions \cup {k} /\ applied' = Append(applied, k) /\ ensured' = ensured
  BY DEF TakesEffect
<1> HIDE DEF k
<1>4. /\ applied' \in Seq(Nat \ {0}) /\ Len(applied') = Len(applied) + 1
      /\ applied'[Len(applied) + 1] = k
      /\ \A n \in 1 .. Len(applied) : applied'[n] = applied[n]
  BY <1>1, <1>3
<1>5. AppliedInOrder'
  <2> SUFFICES ASSUME NEW n \in 1 .. Len(applied) + 1 PROVE applied'[n] = n
    BY <1>1, <1>4 DEF AppliedInOrder
  <2>1. CASE n = Len(applied) + 1
    BY <1>2, <1>4, <2>1
  <2>2. CASE n \in 1 .. Len(applied)
    <3>1. n \in DOMAIN applied
      BY <1>1, <2>2
    <3>2. applied[n] = n
      BY <3>1 DEF IInv, AppliedInOrder
    <3> QED
      BY <1>4, <2>2, <3>2
  <2> QED
    BY <1>1, <2>1, <2>2
<1>6. versions' = 1 .. Len(applied) + 1
  BY <1>1, <1>2, <1>3, VersionsArePrefix
<1>7. VersionIffApplied'
  BY <1>1, <1>4, <1>5, <1>6 DEF VersionIffApplied, AppliedInOrder
<1> QED
  BY <1>1, <1>3, <1>4, <1>5, <1>7 DEF k

(* An instance that stops, or has stopped, holds nothing. *)
LEMMA StopKeeps ==
  ASSUME IInv, NEW i \in Instances, NEW place \in {"down", "refused"},
         inst' = [inst EXCEPT ![i].at = place],
         \/ UNCHANGED Schema
         \/ inst[i].at = "commit" /\ TakesEffect(i)
         \/ ensured' = TRUE /\ UNCHANGED <<versions, applied>>,
         faults' \in 0 .. MaxFaults
  PROVE  IInv'
<1>1. /\ versions \subseteq versions' /\ (ensured => ensured')
      /\ versions' \subseteq Nat \ {0} /\ applied' \in Seq(Nat \ {0}) /\ ensured' \in BOOLEAN
      /\ VersionIffApplied' /\ AppliedInOrder'
  <2>1. CASE inst[i].at = "commit" /\ TakesEffect(i)
    BY <2>1, CommitExtends DEF IInv, TypeOK
  <2>2. CASE UNCHANGED Schema \/ (ensured' = TRUE /\ UNCHANGED <<versions, applied>>)
    BY <2>2 DEF IInv, TypeOK, Schema, VersionIffApplied, AppliedInOrder
  <2> QED
    BY <2>1, <2>2
<1>2. \A k \in versions' \ versions : inst[i].at = "commit" /\ k = inst[i].next
  BY DEF Schema, TakesEffect
<1>3. versions' # {} => ensured'
  <2>1. inst[i].at = "commit" => ensured
    BY DEF IInv, TableFirst
  <2> QED
    BY <1>1, <1>2, <2>1 DEF IInv, TypeOK
<1>4. inst'[i].at = place /\ \A j \in Instances \ {i} : inst'[j] = inst[j]
  BY DEF IInv, TypeOK
<1>5. TypeOK'
  BY <1>1, <1>3 DEF IInv, TypeOK, Places
<1>6. ServesMigrated' /\ BehindApplied' /\ TableFirst'
  BY <1>1, <1>4 DEF IInv, ServesMigrated, BehindApplied, InTx, TableFirst
<1>7. RowExclusive'
  BY <1>1, <1>2, <1>4 DEF IInv, RowExclusive, HasRow
<1> QED
  BY <1>1, <1>5, <1>6, <1>7 DEF IInv

(* The instance goes on to a place and a name, the others stay. *)
Moves(i, place, n) ==
  /\ inst' \in [Instances -> [at : Places, next : Nat \ {0}, env : Environments]]
  /\ inst'[i].at = place /\ inst'[i].next = n
  /\ \A j \in Instances \ {i} : inst'[j] = inst[j]

LEMMA GotoMoves ==
  ASSUME TypeOK, NEW i \in Instances, NEW place \in Places, Goto(i, place)
  PROVE  Moves(i, place, inst[i].next)
BY DEF TypeOK, Goto, Moves

(* A step of one instance that leaves the tables alone. *)
LEMMA MoveKeeps ==
  ASSUME IInv, NEW i \in Instances, NEW place \in Places \ {"commit"}, NEW n \in Nat \ {0},
         Moves(i, place, n), n <= Shipped[i] + 1,
         UNCHANGED <<versions, applied, faults>>, ensured' \in BOOLEAN, ensured => ensured',
         place \notin {"down", "refused", "ensure", "create"} => ensured',
         place \in {"ensure", "create"} => n = 1,
         place \in {"check", "exec", "insert"} => 1 .. n - 1 \subseteq versions,
         place \in {"exec", "insert"} => n <= Shipped[i],
         place \in {"wire", "serving"} => 1 .. Shipped[i] \subseteq versions
  PROVE  IInv'
<1>1. /\ inst'[i].at = place /\ inst'[i].next = n
      /\ \A j \in Instances \ {i} : inst'[j] = inst[j]
  BY DEF Moves
<1>2. TypeOK'
  BY <1>1 DEF IInv, TypeOK, Moves
<1>3. VersionIffApplied' /\ AppliedInOrder'
  BY DEF IInv, VersionIffApplied, AppliedInOrder
<1>4. ServesMigrated' /\ BehindApplied' /\ TableFirst'
  BY <1>1 DEF IInv, ServesMigrated, BehindApplied, InTx, TableFirst
<1>5. RowExclusive'
  BY <1>1 DEF IInv, RowExclusive, HasRow
<1> QED
  BY <1>2, <1>3, <1>4, <1>5 DEF IInv

LEMMA NextIInv == IInv /\ [Next]_vars => IInv'
<1> SUFFICES ASSUME IInv, [Next]_vars PROVE IInv'
  OBVIOUS
<1>t. \A i \in Instances :
        /\ inst[i].next \in Nat \ {0} /\ inst[i].next <= Shipped[i] + 1
        /\ Shipped[i] \in Nat
  BY StartupAssumption DEF IInv, TypeOK
<1>p. /\ {"down", "refused", "ensure", "create", "check", "exec", "insert", "wire", "serving"}
           = Places \ {"commit"}
      /\ Places \ {"commit"} \subseteq Places
  BY DEF Places
<1>m. \A i \in Instances : \A place \in Places :
        Goto(i, place) => Moves(i, place, inst[i].next)
  BY GotoMoves DEF IInv
<1>e. ensured \in BOOLEAN /\ faults \in 0 .. MaxFaults
  BY DEF IInv, TypeOK
<1>1. ASSUME NEW i \in Instances, Start(i) PROVE IInv'
  <2>1. /\ UNCHANGED <<ensured, versions, applied, faults>>
        /\ Moves(i, "refused", 1) \/ Moves(i, "ensure", 1)
    <3>1. PICK place \in {"refused", "ensure"} :
            inst' = [inst EXCEPT ![i].at = place, ![i].next = 1]
      <4>1. CASE LoadFails(inst[i].env)
        BY <1>1, <4>1 DEF Start
      <4>2. CASE ~LoadFails(inst[i].env)
        BY <1>1, <4>2 DEF Start
      <4> QED
        BY <4>1, <4>2
    <3>2. UNCHANGED <<ensured, versions, applied, faults>>
      BY <1>1 DEF Start, Schema
    <3>3. /\ place \in Places /\ 1 \in Nat \ {0}
          /\ inst \in [Instances -> [at : Places, next : Nat \ {0}, env : Environments]]
      BY <3>1 DEF IInv, TypeOK, Places
    <3>4. Moves(i, place, 1)
      <4> HIDE DEF Places
      <4>1. inst' = [inst EXCEPT ![i] = [inst[i] EXCEPT !.at = place, !.next = 1]]
        BY <3>1, <3>3
      <4>2. [inst[i] EXCEPT !.at = place, !.next = 1]
              \in [at : Places, next : Nat \ {0}, env : Environments]
        BY <3>3
      <4> QED
        BY <3>3, <4>1, <4>2 DEF Moves
    <3> QED
      BY <3>1, <3>2, <3>4
  <2>2. 1 \in Nat \ {0} /\ 1 <= Shipped[i] + 1
    BY <1>t
  <2>3. CASE Moves(i, "refused", 1)
    BY <1>e, <1>p, <2>1, <2>2, <2>3, MoveKeeps
  <2>4. CASE Moves(i, "ensure", 1)
    BY <1>e, <1>p, <2>1, <2>2, <2>4, MoveKeeps
  <2> QED
    BY <2>1, <2>3, <2>4
<1>2. ASSUME NEW i \in Instances, Ensure(i) \/ Create(i) PROVE IInv'
  <2>1. inst[i].next = 1
    BY <1>2 DEF Ensure, Create, IInv, BehindApplied
  <2>2. \/ Moves(i, "check", 1) /\ ensured'
        \/ Moves(i, "create", 1)
        \/ Moves(i, "down", 1)
    <3>1. CASE Ensure(i)
      BY <3>1, <1>m, <1>p, <2>1 DEF Ensure, Schema
    <3>2. CASE Create(i)
      BY <3>2, <1>m, <1>p, <2>1 DEF Create
    <3> QED
      BY <1>2, <3>1, <3>2
  <2>3. /\ UNCHANGED <<versions, applied, faults>>
        /\ ensured' \in BOOLEAN /\ (ensured => ensured')
    BY <1>2, <1>e DEF Ensure, Create, Schema
  <2>4. /\ 1 .. 1 - 1 = {}
        /\ 1 \in Nat \ {0} /\ 1 <= Shipped[i] + 1
    BY <1>t
  <2>5. CASE Moves(i, "check", 1) /\ ensured'
    BY <1>p, <2>3, <2>4, <2>5, MoveKeeps
  <2>6. CASE Moves(i, "create", 1)
    BY <1>p, <2>3, <2>4, <2>6, MoveKeeps
  <2>7. CASE Moves(i, "down", 1)
    BY <1>p, <2>3, <2>4, <2>7, MoveKeeps
  <2> QED
    BY <2>2, <2>5, <2>6, <2>7
<1>3. ASSUME NEW i \in Instances, Check(i) PROVE IInv'
  <2>1. UNCHANGED <<ensured, versions, applied, faults>> /\ ensured
    BY <1>3 DEF Check, Schema, IInv, TableFirst
  <2>2. 1 .. inst[i].next - 1 \subseteq versions
    BY <1>3 DEF Check, IInv, BehindApplied
  <2>3. CASE inst[i].next > Shipped[i] /\ Goto(i, "wire")
    <3>1. 1 .. Shipped[i] \subseteq versions
      BY <1>t, <2>2, <2>3
    <3>2. Moves(i, "wire", inst[i].next)
      BY <1>m, <1>p, <2>3
    <3> QED
      BY <1>t, <1>e, <1>p, <2>1, <3>1, <3>2, MoveKeeps
  <2>4. CASE /\ inst[i].next \in (1 .. Shipped[i]) \cap versions
             /\ inst' = [inst EXCEPT ![i].next = @ + 1]
    <3>1. Moves(i, "check", inst[i].next + 1)
      BY <1>3, <2>4 DEF Check, IInv, TypeOK, Moves
    <3> DEFINE n == inst[i].next + 1
    <3>2. n \in Nat \ {0} /\ n <= Shipped[i] + 1 /\ 1 .. n - 1 \subseteq versions
      BY <1>t, <2>2, <2>4
    <3> QED
      BY <1>e, <1>p, <2>1, <3>1, <3>2, MoveKeeps
  <2>5. CASE inst[i].next \in (1 .. Shipped[i]) \ versions /\ Goto(i, "exec")
    <3>1. Moves(i, "exec", inst[i].next)
      BY <1>m, <1>p, <2>5
    <3>2. inst[i].next <= Shipped[i]
      BY <2>5
    <3> QED
      BY <1>t, <1>e, <1>p, <2>1, <2>2, <3>1, <3>2, MoveKeeps
  <2> QED
    BY <1>3, <2>3, <2>4, <2>5 DEF Check
<1>4. ASSUME NEW i \in Instances, Exec(i) PROVE IInv'
  <2>1. UNCHANGED <<ensured, versions, applied, faults>> /\ ensured
    BY <1>4 DEF Exec, Schema, IInv, TableFirst
  <2>2. 1 .. inst[i].next - 1 \subseteq versions /\ inst[i].next <= Shipped[i]
    BY <1>4 DEF Exec, IInv, BehindApplied, InTx
  <2>3. Moves(i, "insert", inst[i].next) \/ Moves(i, "down", inst[i].next)
    BY <1>4, <1>m, <1>p DEF Exec
  <2>4. CASE Moves(i, "insert", inst[i].next)
    BY <1>t, <1>e, <1>p, <2>1, <2>2, <2>4, MoveKeeps
  <2>5. CASE Moves(i, "down", inst[i].next)
    BY <1>t, <1>e, <1>p, <2>1, <2>2, <2>5, MoveKeeps
  <2> QED
    BY <2>3, <2>4, <2>5
<1>5. ASSUME NEW i \in Instances, Insert(i) PROVE IInv'
  <2>1. /\ UNCHANGED <<ensured, versions, applied, faults>> /\ ensured
        /\ UNCHANGED Schema
    BY <1>5 DEF Insert, Schema, IInv, TableFirst
  <2>2. CASE inst[i].next \in versions
    <3>1. inst' = [inst EXCEPT ![i].at = "down"]
      BY <1>5, <2>2 DEF Insert, Goto
    <3> QED
      BY <1>e, <2>1, <3>1, StopKeeps
  <2>3. CASE inst[i].next \notin versions
    <3>1. inst' = [inst EXCEPT ![i].at = "commit"]
      BY <1>5, <2>3 DEF Insert, Goto
    <3>2. /\ inst'[i].at = "commit" /\ inst'[i].next = inst[i].next
          /\ \A j \in Instances \ {i} : inst'[j] = inst[j]
      BY <3>1 DEF IInv, TypeOK
    <3>3. TypeOK'
      BY <2>1, <3>1 DEF IInv, TypeOK, Places
    <3>4. VersionIffApplied' /\ AppliedInOrder'
      BY <2>1 DEF IInv, VersionIffApplied, AppliedInOrder
    <3>5. ServesMigrated' /\ BehindApplied' /\ TableFirst'
      BY <1>5, <2>1, <3>2 DEF Insert, IInv, ServesMigrated, BehindApplied, InTx, TableFirst
    <3>6. RowExclusive'
      BY <1>5, <2>1, <2>3, <3>2 DEF Insert, IInv, RowExclusive, HasRow
    <3> QED
      BY <3>3, <3>4, <3>5, <3>6 DEF IInv
  <2> QED
    BY <2>2, <2>3
<1>6. ASSUME NEW i \in Instances, Commit(i) PROVE IInv'
  <2> DEFINE k == inst[i].next
  <2>1. /\ inst[i].at = "commit" /\ TakesEffect(i) /\ faults' = faults
        /\ inst' = [inst EXCEPT ![i].at = "check", ![i].next = @ + 1]
    BY <1>6 DEF Commit
  <2>2. /\ versions' = versions \cup {k} /\ versions' \subseteq Nat \ {0}
        /\ applied' \in Seq(Nat \ {0}) /\ ensured' = ensured /\ ensured
        /\ VersionIffApplied' /\ AppliedInOrder'
    BY <2>1, CommitExtends DEF IInv, TableFirst
  <2>3. /\ inst'[i].at = "check" /\ inst'[i].next = k + 1
        /\ \A j \in Instances \ {i} : inst'[j] = inst[j]
    BY <2>1 DEF IInv, TypeOK
  <2>4. k \in Nat \ {0} /\ 1 .. k - 1 \subseteq versions /\ k <= Shipped[i]
    BY <1>t, <2>1 DEF IInv, BehindApplied, InTx
  <2>5. TypeOK'
    <3>1. inst' \in [Instances -> [at : Places, next : Nat \ {0}, env : Environments]]
      BY <2>1, <2>4 DEF IInv, TypeOK, Places
    <3>2. \A j \in Instances : inst'[j].next <= Shipped[j] + 1
      BY <1>t, <2>3, <2>4
    <3> QED
      BY <1>e, <2>1, <2>2, <3>1, <3>2 DEF TypeOK
  <2> HIDE DEF k
  <2>6. 1 .. (k + 1) - 1 \subseteq versions'
    BY <2>2, <2>4
  <2>7. ServesMigrated' /\ BehindApplied' /\ TableFirst'
    BY <2>2, <2>3, <2>6 DEF IInv, ServesMigrated, BehindApplied, InTx, TableFirst
  <2>8. RowExclusive'
    <3> SUFFICES ASSUME NEW j \in Instances, inst'[j].at = "commit"
                 PROVE  /\ inst'[j].next \notin versions'
                        /\ \A l \in Instances \ {j} :
                             ~(inst'[l].at = "commit" /\ inst'[l].next = inst'[j].next)
      BY DEF RowExclusive, HasRow
    <3>1. j # i /\ inst'[j] = inst[j]
      BY <2>3
    <3>2. /\ inst[j].next \notin versions
          /\ \A l \in Instances \ {j} : ~HasRow(l, inst[j].next)
      BY <3>1 DEF IInv, RowExclusive
    <3>3. inst[j].next # k
      BY <2>1, <3>1, <3>2 DEF HasRow, k
    <3>4. \A l \in Instances \ {j} :
            ~(inst'[l].at = "commit" /\ inst'[l].next = inst'[j].next)
      BY <2>3, <3>1, <3>2 DEF HasRow
    <3> QED
      BY <2>2, <3>1, <3>2, <3>3, <3>4
  <2> QED
    BY <2>2, <2>5, <2>7, <2>8 DEF IInv
<1>7. ASSUME NEW i \in Instances, Wire(i) PROVE IInv'
  <2>1. UNCHANGED <<ensured, versions, applied, faults>> /\ ensured
    BY <1>7 DEF Wire, Schema, IInv, TableFirst
  <2>2. 1 .. Shipped[i] \subseteq versions
    BY <1>7 DEF Wire, IInv, ServesMigrated
  <2>3. Moves(i, "serving", inst[i].next)
    BY <1>7, <1>m, <1>p DEF Wire
  <2> QED
    BY <1>t, <1>e, <1>p, <2>1, <2>2, <2>3, MoveKeeps
<1>8. ASSUME NEW i \in Instances, Breaks(i) PROVE IInv'
  <2>1. inst' = [inst EXCEPT ![i].at = "down"] /\ faults' \in 0 .. MaxFaults
    BY <1>8, <1>e, StartupAssumption DEF Breaks, Goto
  <2>2. \/ UNCHANGED Schema
        \/ inst[i].at = "commit" /\ TakesEffect(i)
        \/ ensured' = TRUE /\ UNCHANGED <<versions, applied>>
    BY <1>8 DEF Breaks
  <2> QED
    BY <2>1, <2>2, StopKeeps
<1>9. CASE UNCHANGED vars
  BY <1>9 DEF vars, IInv, TypeOK, VersionIffApplied, AppliedInOrder, ServesMigrated,
              BehindApplied, InTx, RowExclusive, HasRow, TableFirst
<1> QED
  BY <1>1, <1>2, <1>3, <1>4, <1>5, <1>6, <1>7, <1>8, <1>9 DEF Next, MigrateStep

LEMMA Invariance == Spec => []IInv
BY InitIInv, NextIInv, PTL DEF Spec

(* Types, and the table before its rows, for every deployment. *)
THEOREM TypeCorrect == Spec => []TypeOK
<1>1. IInv => TypeOK
  BY DEF IInv
<1> QED
  BY Invariance, <1>1, PTL

(* Whatever instances race, crash or lose replies, a migration is recorded *)
(* if and only if it took effect (migrate.go:54-69).                       *)
THEOREM VersionIffAppliedAlways == Spec => []VersionIffApplied
<1>1. IInv => VersionIffApplied
  BY DEF IInv
<1> QED
  BY Invariance, <1>1, PTL

(* All migrations take effect once each and in the order of their names,   *)
(* whichever builds start together (migrate.go:36-69).                     *)
THEOREM AppliedInOrderAlways == Spec => []AppliedInOrder
<1>1. IInv => AppliedInOrder
  BY DEF IInv
<1> QED
  BY Invariance, <1>1, PTL

(* No instance serves before the migrations of its build are applied *)
(* (main.go:63-66).                                                   *)
THEOREM ServesMigratedAlways == Spec => []ServesMigrated
<1>1. IInv => ServesMigrated
  BY DEF IInv
<1> QED
  BY Invariance, <1>1, PTL

-----------------------------------------------------------------------------
(* Where Load has been passed, it did not fail; a restart loads again. *)
Loaded ==
  \A i \in Instances : inst[i].at \notin {"down", "refused"} => ~LoadFails(inst[i].env)

(* A step of an instance keeps its environment, and only Start leaves the *)
(* places before Load.                                                    *)
LEMMA NextLoaded == TypeOK /\ Loaded /\ [Next]_vars => Loaded'
<1> SUFFICES ASSUME TypeOK, Loaded, [Next]_vars PROVE Loaded'
  OBVIOUS
<1> USE DEF Loaded
<1>t. inst \in [Instances -> [at : Places, next : Nat \ {0}, env : Environments]]
  BY DEF TypeOK
<1> DEFINE Kept(i) == /\ inst[i].at \notin {"down", "refused"}
                      /\ inst' = [inst EXCEPT ![i] = inst'[i]]
                      /\ inst'[i].env = inst[i].env
<1>1. ASSUME NEW i \in Instances, Kept(i) PROVE Loaded'
  <2>1. \A j \in Instances \ {i} : inst'[j] = inst[j]
    BY <1>t, <1>1
  <2> QED
    BY <1>1, <2>1
<1>2. ASSUME NEW i \in Instances, Start(i) PROVE Loaded'
  <2>1. /\ inst'[i].env = inst[i].env
        /\ inst'[i].at = IF LoadFails(inst[i].env) THEN "refused" ELSE "ensure"
        /\ \A j \in Instances \ {i} : inst'[j] = inst[j]
    BY <1>t, <1>2 DEF Start
  <2> QED
    BY <2>1
<1>3. ASSUME NEW i \in Instances, NEW place, Goto(i, place),
             inst[i].at \notin {"down", "refused"}
      PROVE  Loaded'
  <2>1. Kept(i)
    BY <1>t, <1>3 DEF Goto
  <2> QED
    BY <1>1, <2>1
<1>4. ASSUME NEW i \in Instances, Check(i) PROVE Loaded'
  <2>1. CASE inst' = [inst EXCEPT ![i].next = @ + 1]
    <3>1. Kept(i)
      BY <1>t, <1>4, <2>1 DEF Check
    <3> QED
      BY <1>1, <3>1
  <2>2. CASE Goto(i, "wire") \/ Goto(i, "exec")
    BY <1>3, <1>4, <2>2 DEF Check
  <2> QED
    BY <1>4, <2>1, <2>2 DEF Check
<1>5. ASSUME NEW i \in Instances, Commit(i) PROVE Loaded'
  <2>1. Kept(i)
    BY <1>t, <1>5 DEF Commit
  <2> QED
    BY <1>1, <2>1
<1>6. ASSUME NEW i \in Instances,
             Ensure(i) \/ Create(i) \/ Exec(i) \/ Insert(i) \/ Wire(i) PROVE Loaded'
  <2>1. /\ inst[i].at \in {"ensure", "create", "exec", "insert", "wire"}
        /\ \E place \in Places : Goto(i, place)
    BY <1>6 DEF Ensure, Create, Exec, Insert, Wire, Places
  <2> QED
    BY <1>3, <2>1
<1>7. ASSUME NEW i \in Instances, Breaks(i) PROVE Loaded'
  BY <1>3, <1>7 DEF Breaks
<1>8. CASE UNCHANGED vars
  BY <1>8 DEF vars
<1> QED
  BY <1>2, <1>4, <1>5, <1>6, <1>7, <1>8 DEF Next, MigrateStep

LEMMA LoadedAlways == Spec => []Loaded
<1>1. Init => Loaded
  BY DEF Init, Loaded
<1>2. IInv => TypeOK
  BY DEF IInv
<1> QED
  BY Invariance, NextLoaded, <1>1, <1>2, PTL DEF Spec

(* What a process has that Load let pass. *)
LEMMA LoadedIsUsable ==
  ASSUME NEW env \in Env, ~LoadFails(env)
  PROVE  LET o == Options(Load(env))
             chain == SourceChain(env)
         IN  /\ \A c \in DOMAIN DefaultCount : o.count[c] >= 1
             /\ \A d \in Positive : o.time[d] > 0
             /\ o.time["interval"] >= 0
             /\ Cardinality(ParseCurrencies(env.currencies)) >= 2
             /\ \A m, n \in DOMAIN chain : m # n => chain[m] # chain[n]
<1> DEFINE conf == Load(env)
           o == Options(conf)
           chain == SourceChain(env)
<1>1. \A raw \in Seq(Int), default \in Int : EnvOr(raw, default) \in Int
  <2> SUFFICES ASSUME NEW raw \in Seq(Int), NEW default \in Int, raw # << >>
               PROVE  raw[1] \in Int
    BY DEF EnvOr
  <2> QED
    OBVIOUS
<1>2. /\ \A c \in DOMAIN DefaultCount : DefaultCount[c] \in Int
      /\ \A d \in DOMAIN DefaultTime : DefaultTime[d] \in Int
      /\ Positive \subseteq DOMAIN DefaultTime /\ "interval" \in DOMAIN DefaultTime
      /\ "interval" \notin Positive
      /\ \A d \in Positive : DefaultTime[d] > 0
  BY DEF DefaultCount, DefaultTime, Positive
<1>3. \A c \in DOMAIN DefaultCount : o.count[c] >= 1
  <2> TAKE c \in DOMAIN DefaultCount
  <2>1. o.count[c] = AtLeast(1, EnvOr(env.count[c], DefaultCount[c]))
    BY DEF Load, Options
  <2>2. EnvOr(env.count[c], DefaultCount[c]) \in Int
    <3>1. env.count[c] \in Seq(Int)
      BY DEF Env
    <3> QED
      BY <1>1, <1>2, <3>1
  <2> QED
    BY <2>1, <2>2 DEF AtLeast
<1>6. \A d \in DOMAIN DefaultTime :
        /\ conf.time[d] \in Int
        /\ o.time[d] = IF d \in Positive /\ conf.time[d] <= 0 THEN DefaultTime[d]
                       ELSE IF d = "interval" THEN AtLeast(0, conf.time[d])
                       ELSE conf.time[d]
  <2> TAKE d \in DOMAIN DefaultTime
  <2>1. env.time[d] \in Seq(Int)
    BY DEF Env
  <2>2. conf.time[d] = EnvOr(env.time[d], DefaultTime[d])
    BY DEF Load
  <2>3. conf.time[d] \in Int
    BY <1>1, <1>2, <2>1, <2>2
  <2>4. conf = [count |-> conf.count, time |-> conf.time]
    BY DEF Load
  <2> HIDE DEF conf
  <2> QED
    BY <2>3, <2>4 DEF Options
<1>7. /\ \A d \in Positive : o.time[d] > 0
      /\ o.time["interval"] >= 0
  <2> HIDE DEF conf, o
  <2>1. ASSUME NEW d \in Positive PROVE o.time[d] > 0
    <3>1. /\ conf.time[d] \in Int /\ DefaultTime[d] \in Int /\ DefaultTime[d] > 0
          /\ o.time[d] = IF conf.time[d] <= 0 THEN DefaultTime[d]
                         ELSE conf.time[d]
      BY <1>2, <1>6
    <3> QED
      BY <3>1
  <2>2. /\ conf.time["interval"] \in Int
        /\ o.time["interval"] = AtLeast(0, conf.time["interval"])
    BY <1>2, <1>6
  <2> QED
    BY <2>1, <2>2 DEF AtLeast
<1>4. Cardinality(ParseCurrencies(env.currencies)) >= 2
  <2> DEFINE listed == ParseCurrencies(env.currencies)
  <2>1. listed \subseteq {"EUR", "USD"}
    <3>1. \A i \in DOMAIN env.currencies : env.currencies[i] \in {"", "EUR", "USD"}
      <4>1. env.currencies \in Seq({"", "EUR", "USD"})
        BY DEF Env
      <4>2. \A C : \A list \in Seq(C) : \A i \in DOMAIN list : list[i] \in C
        OBVIOUS
      <4> QED
        BY <4>1, <4>2, Zenon
    <3> QED
      BY <3>1 DEF ParseCurrencies
  <2>2. IsFiniteSet({"EUR", "USD"})
    <3>1. IsFiniteSet({"EUR"} \cup {"USD"})
      BY FS_Singleton, FS_AddElement
    <3>2. {"EUR", "USD"} = {"EUR"} \cup {"USD"}
      OBVIOUS
    <3> QED
      BY <3>1, <3>2
  <2>3. Cardinality(listed) \in Nat
    BY <2>1, <2>2, FS_Subset, FS_CardinalityType
  <2>4. ~(Cardinality(listed) < 2)
    BY DEF LoadFails
  <2> QED
    BY <2>3, <2>4
<1>5. \A m, n \in DOMAIN chain : m # n => chain[m] # chain[n]
  BY DEF SourceChain
<1> QED
  BY <1>3, <1>7, <1>4, <1>5

(* A process that serves has a worker, room in the queue, an attempt,      *)
(* positive times for the ticker, for the contexts of the workers and for  *)
(* the retries, a pair of currencies and a chain without repetition,       *)
(* whatever its environment says (config.go:89-101, service.go:60-74,      *)
(* resilient.go:42-53, main.go:186-197).                                   *)
THEOREM OptionsUsableAlways == Spec => []OptionsUsable
<1>1. IInv /\ Loaded => OptionsUsable
  <2> SUFFICES ASSUME IInv, Loaded, NEW i \in Instances, inst[i].at = "serving"
               PROVE  LET o == Options(Load(inst[i].env))
                          chain == SourceChain(inst[i].env)
                      IN  /\ \A c \in DOMAIN DefaultCount : o.count[c] >= 1
                          /\ \A d \in Positive : o.time[d] > 0
                          /\ o.time["interval"] >= 0
                          /\ Cardinality(ParseCurrencies(inst[i].env.currencies)) >= 2
                          /\ \A m, n \in DOMAIN chain : m # n => chain[m] # chain[n]
    BY DEF OptionsUsable
  <2>1. inst[i].env \in Env
    BY StartupAssumption DEF IInv, TypeOK
  <2>2. ~LoadFails(inst[i].env)
    BY DEF Loaded
  <2> QED
    BY <2>1, <2>2, LoadedIsUsable
<1> QED
  BY Invariance, LoadedAlways, <1>1, PTL

=============================================================================
