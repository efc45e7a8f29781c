------------------------------ MODULE Startup ------------------------------
(***************************************************************************)
(* From the start of a process to its first request: config.Load, the      *)
(* migrations, the options of the service and of the provider chain.       *)
(* Several instances may start together on one database, of different      *)
(* builds: each ships a prefix of the migrations.  Any statement may fail, *)
(* also by the 10 seconds of pingCtx, a commit may take effect with its    *)
(* reply lost, a process may die anywhere; PostgreSQL then rolls its open  *)
(* transaction back.                                                       *)
(***************************************************************************)
EXTENDS Integers, Sequences, FiniteSets

CONSTANTS
  Instances,
  Shipped,       \* how many migrations the build of each instance embeds
  Environments,  \* the environments a process may be started in
  MaxFaults      \* bound on failed statements and crashes

(* The numbers and the durations, in milliseconds, with their defaults. *)
DefaultCount == [workers |-> 4, queue |-> 1024, attempts |-> 3]

DefaultTime ==
  [timeout |-> 5000, base |-> 500, max |-> 10000, interval |-> 1000, ttl |-> 60000,
   resync |-> 30000, read |-> 5000, write |-> 10000, idle |-> 60000, shutdown |-> 15000]

(* The environment.  A number is << >> when unset or not parsable.         *)
Env == [provider : {"", "frankfurter", "exchangeratesapi", "unknown"},
        key : BOOLEAN, currencies : Seq({"", "EUR", "USD"}),
        count : [DOMAIN DefaultCount -> Seq(Int)], time : [DOMAIN DefaultTime -> Seq(Int)]]

ASSUME StartupAssumption ==
  /\ Shipped \in [Instances -> Nat]
  /\ Environments \subseteq Env
  /\ MaxFaults \in Nat

VARIABLES
  ensured,    \* the table schema_migrations exists
  versions,   \* its committed rows; a migration is its place in the sorted names
  applied,    \* history: the bodies that were committed, in order
  inst,       \* each instance: where it stands
  faults      \* bound: how much has gone wrong so far

vars == <<ensured, versions, applied, inst, faults>>

-----------------------------------------------------------------------------
(* What config.Load makes of an environment. *)
EnvOr(raw, default) == IF raw = << >> THEN default ELSE raw[1]

AtLeast(low, n) == IF n < low THEN low ELSE n

ParseCurrencies(list) == {list[i] : i \in DOMAIN list} \ {""}

Provider(env) == IF env.provider = "" THEN "frankfurter" ELSE env.provider

LoadFails(env) ==
  \/ Provider(env) = "unknown"
  \/ Cardinality(ParseCurrencies(env.currencies)) < 2

(* The counts are raised to 1, the durations are taken as they are. *)
Load(env) ==
  [count |-> [c \in DOMAIN DefaultCount |-> AtLeast(1, EnvOr(env.count[c], DefaultCount[c]))],
   time |-> [d \in DOMAIN DefaultTime |-> EnvOr(env.time[d], DefaultTime[d])]]

(* The durations that service.New and resilient.New do not take at or      *)
(* below zero: they put in the value that is also the default of Load.     *)
Positive == {"timeout", "resync", "base", "max"}

(* Mutant: resilient.New takes over its durations as they are. *)
OptionsUnclamped(config) ==
  [config EXCEPT !.time = [d \in DOMAIN DefaultTime |->
     IF d \in {"timeout", "resync"} /\ config.time[d] <= 0 THEN DefaultTime[d]
     ELSE config.time[d]]]

(* What service.New and resilient.New make of it; that they raise the      *)
(* counts to 1 changes nothing after Load.  The others get the rest as it  *)
(* is: a cache with a ttl of zero is off, and a shutdown timeout of zero   *)
(* is over before it begins.                                               *)
Options(config) ==
  [config EXCEPT !.time = [d \in DOMAIN DefaultTime |->
     IF d \in Positive /\ config.time[d] <= 0 THEN DefaultTime[d]
     ELSE IF d = "interval" THEN AtLeast(0, config.time[d])
     ELSE config.time[d]]]

(* The sources of the chain, in order: the secondary is the other one, and *)
(* exchangeratesapi needs a key to be it.                                  *)
SourceChain(env) ==
  IF Provider(env) = "exchangeratesapi" THEN <<"exchangeratesapi", "frankfurter">>
  ELSE IF env.key THEN <<"frankfurter", "exchangeratesapi">> ELSE <<"frankfurter">>

-----------------------------------------------------------------------------

Places ==
  {"down", "ensure", "create", "check", "exec", "insert", "commit", "wire", "serving", "refused"}

(* In a transaction the body is executed from "insert" on, and the row of  *)
(* schema_migrations is written, not committed, from "commit" on.          *)
Inst == [at : Places, next : Nat, env : Env]

InTx(i) == inst[i].at \in {"exec", "insert", "commit"}

HasRow(i, k) == inst[i].at = "commit" /\ inst[i].next = k

Init ==
  /\ ensured = FALSE /\ versions = {} /\ applied = << >>
  /\ \E env \in [Instances -> Environments] :
       inst = [i \in Instances |-> [at |-> "down", next |-> 1, env |-> env[i]]]
  /\ faults = 0

Goto(i, place) == inst' = [inst EXCEPT ![i].at = place]

Schema == <<ensured, versions, applied>>

(* run: Load fails before anything is touched. *)
Start(i) ==
  /\ inst[i].at = "down"
  /\ inst' = [inst EXCEPT ![i].at = IF LoadFails(inst[i].env) THEN "refused" ELSE "ensure",
                           ![i].next = 1]
  /\ UNCHANGED <<Schema, faults>>

(* Mutant: CREATE TABLE without IF NOT EXISTS. *)
EnsureOnce(i) ==
  /\ inst[i].at = "ensure"
  /\ Goto(i, "create")
  /\ UNCHANGED <<Schema, faults>>

(* CREATE TABLE IF NOT EXISTS, a statement of its own: PostgreSQL looks    *)
(* for the table first ...                                                 *)
Ensure(i) ==
  /\ inst[i].at = "ensure"
  /\ Goto(i, IF ensured THEN "check" ELSE "create")
  /\ UNCHANGED <<Schema, faults>>

(* ... and creates it then.  Who finds that another instance has created   *)
(* it meanwhile fails on a unique index of the catalog.                    *)
Create(i) ==
  /\ inst[i].at = "create"
  /\ ensured' = TRUE
  /\ Goto(i, IF ensured THEN "down" ELSE "check")
  /\ UNCHANGED <<versions, applied, faults>>

(* Mutant: an applied migration ends the loop instead of the round. *)
CheckReturns(i) ==
  /\ inst[i].at = "check"
  /\ Goto(i, IF inst[i].next > Shipped[i] \/ inst[i].next \in versions THEN "wire" ELSE "exec")
  /\ UNCHANGED <<Schema, faults>>

(* Mutant: one name too many. *)
CheckPastEnd(i) ==
  /\ inst[i].at = "check"
  /\ \/ inst[i].next > Shipped[i] + 1 /\ Goto(i, "wire")
     \/ inst[i].next \in versions /\ inst' = [inst EXCEPT ![i].next = @ + 1]
     \/ inst[i].next \in (1 .. Shipped[i] + 1) \ versions /\ Goto(i, "exec")
  /\ UNCHANGED <<Schema, faults>>

(* SELECT EXISTS, then the next name or a transaction; Migrate returns     *)
(* after the last name.                                                    *)
Check(i) ==
  /\ inst[i].at = "check"
  /\ \/ inst[i].next > Shipped[i] /\ Goto(i, "wire")
     \/ inst[i].next \in (1 .. Shipped[i]) \cap versions /\ inst' = [inst EXCEPT ![i].next = @ + 1]
     \/ inst[i].next \in (1 .. Shipped[i]) \ versions /\ Goto(i, "exec")
  /\ UNCHANGED <<Schema, faults>>

(* Begin and the body.  The objects of a body committed meanwhile may      *)
(* exist: then the body may fail, by what it creates.                      *)
Exec(i) ==
  /\ inst[i].at = "exec"
  /\ \/ Goto(i, "insert")
     \/ inst[i].next \in versions /\ Goto(i, "down")
  /\ UNCHANGED <<Schema, faults>>

(* Mutant: the row is inserted through the pool, not the transaction. *)
InsertOutside(i) ==
  /\ inst[i].at = "insert"
  /\ IF inst[i].next \in versions THEN Goto(i, "down") ELSE Goto(i, "commit")
  /\ versions' = versions \cup {inst[i].next}
  /\ UNCHANGED <<ensured, applied, faults>>

(* Mutant: ON CONFLICT DO NOTHING. *)
InsertIgnoring(i) ==
  /\ inst[i].at = "insert"
  /\ \A j \in Instances \ {i} : ~HasRow(j, inst[i].next)
  /\ Goto(i, "commit")
  /\ UNCHANGED <<Schema, faults>>

(* INSERT: the primary key makes it wait for an uncommitted twin, and fail *)
(* on a committed one; then Migrate fails, and with it the process.        *)
Insert(i) ==
  /\ inst[i].at = "insert"
  /\ \A j \in Instances \ {i} : ~HasRow(j, inst[i].next)
  /\ IF inst[i].next \in versions THEN Goto(i, "down") ELSE Goto(i, "commit")
  /\ UNCHANGED <<Schema, faults>>

TakesEffect(i) ==
  /\ versions' = versions \cup {inst[i].next}
  /\ applied' = Append(applied, inst[i].next)
  /\ UNCHANGED ensured

Commit(i) ==
  /\ inst[i].at = "commit"
  /\ TakesEffect(i)
  /\ inst' = [inst EXCEPT ![i].at = "check", ![i].next = @ + 1]
  /\ UNCHANGED faults

Wire(i) == inst[i].at = "wire" /\ Goto(i, "serving") /\ UNCHANGED <<Schema, faults>>

(* A statement fails, or the process dies: what was not committed is gone. *)
Breaks(i) ==
  /\ inst[i].at \in Places \ {"down", "refused"}
  /\ faults < MaxFaults /\ faults' = faults + 1
  /\ Goto(i, "down")
  /\ \/ UNCHANGED Schema
     \/ inst[i].at = "commit" /\ TakesEffect(i)
     \/ inst[i].at = "create" /\ ensured' = TRUE /\ UNCHANGED <<versions, applied>>

MigrateStep(i) ==
  Ensure(i) \/ Create(i) \/ Check(i) \/ Exec(i) \/ Insert(i) \/ Commit(i) \/ Wire(i)

Next == \E i \in Instances : Start(i) \/ MigrateStep(i) \/ Breaks(i)

(* The goroutine of main runs on; whoever operates the service restarts a  *)
(* process that has ended with an error.                                   *)
Fairness == \A i \in Instances : WF_vars(Start(i)) /\ WF_vars(MigrateStep(i))

Spec == Init /\ [][Next]_vars

FairSpec == Spec /\ Fairness

-----------------------------------------------------------------------------
(* Every variable has its type; nobody looks past the names of its build, *)
(* and nothing is migrated without the table.                             *)
TypeOK ==
  /\ ensured \in BOOLEAN
  /\ versions \subseteq Nat \ {0}
  /\ applied \in Seq(Nat \ {0})
  /\ inst \in [Instances -> [at : Places, next : Nat \ {0}, env : Environments]]
  /\ \A i \in Instances : inst[i].next <= Shipped[i] + 1
  /\ faults \in 0 .. MaxFaults
  /\ versions # {} => ensured

(* A migration is recorded if and only if its body has taken effect, in    *)
(* whatever order instances, crashes and lost replies come                 *)
(* (migrate.go:54-68).                                                     *)
VersionIffApplied == versions = {applied[n] : n \in DOMAIN applied}

(* The bodies take effect once each, in the order of their names           *)
(* (migrate.go:36-47), whichever build of whichever instance ran them.     *)
AppliedInOrder == \A n \in DOMAIN applied : applied[n] = n

(* An instance that serves finds all the migrations of its build applied   *)
(* (main.go:63-66).                                                        *)
ServesMigrated ==
  \A i \in Instances : inst[i].at \in {"wire", "serving"} => 1 .. Shipped[i] \subseteq versions

(* Whatever the environment says, the service and the chain get what they  *)
(* need: a worker, room in the queue, an attempt, positive times for the   *)
(* ticker, for the contexts of the workers and for the retries, two        *)
(* currencies for a pair, a secondary that is another source               *)
(* (config.go:89-101, service.go:60-74, resilient.go:42-53,                *)
(* main.go:186-197).  Nothing of the kind holds of SHUTDOWN_TIMEOUT, which *)
(* nobody clamps (main.go:153): RatesService takes a deadline that is over *)
(* from the start as one of its cases.                                     *)
OptionsUsable ==
  \A i \in Instances : inst[i].at = "serving" =>
    LET o == Options(Load(inst[i].env))
        chain == SourceChain(inst[i].env)
    IN  /\ \A c \in DOMAIN DefaultCount : o.count[c] >= 1
        /\ \A d \in Positive : o.time[d] > 0
        /\ o.time["interval"] >= 0
        /\ Cardinality(ParseCurrencies(inst[i].env.currencies)) >= 2
        /\ \A m, n \in DOMAIN chain : m # n => chain[m] # chain[n]

(* Whoever loses a race for a migration, or dies in it, comes up when it   *)
(* is started again (main.go:63-66, migrate.go:38-69).                     *)
EventuallyServes ==
  \A i \in Instances : <>(inst[i].at \in {"serving", "refused"})

=============================================================================
